-------------------------- MODULE InterruptsProofs --------------------------
(***************************************************************************)
(* Safety of the boot sequence and the interrupt handlers for every         *)
(* keyboard, every pair of scancode tables and any number of keys: what a   *)
(* handler assumes holds, the line settles, sleep() waits long enough, and  *)
(* the shell gets the calls that were typed.                                *)
(***************************************************************************)
EXTENDS Interrupts, SequenceTheorems, TLAPS

\* The lines that are set up by the time kernel_main is at pc.
Boots ==
  /\ pc = "serial" => test
  /\ test => 4 \in handlers
  /\ pc # "timer" => 0 \notin masked

Inside(l) == l.pos <= l.len

\* Whatever call the shell gets, the line stays one that fits in the buffer, and
\* a position inside it stays inside.
LEMMA EditingKeeps ==
  ASSUME NEW l \in Line, NEW call, NEW n \in Editing(l, call)
  PROVE  n \in Line /\ (Inside(l) => Inside(n))
<1> USE InterruptConstants DEF InterruptConstants
<1>1. l = [len |-> l.len, pos |-> l.pos] /\ l.len \in 0 .. (BufferSize - 1) /\ l.pos \in Nat
  BY DEF Line
<1>2. \A k \in 0 .. (BufferSize - 1) : Whole(k) \in Line /\ Inside(Whole(k))
  BY DEF Whole, Line, Inside
<1>3. CASE call \in {"enter", "ctrl_l"} \cup {"up", "down"}
  <2>1. CASE call \in {"enter", "ctrl_l"}
    <3>1. n = Whole(0) /\ 0 \in 0 .. (BufferSize - 1)
      BY <2>1 DEF Editing
    <3> QED BY <1>2, <3>1
  <2>2. CASE call \in {"up", "down"}
    <3>1. \E k \in 0 .. (BufferSize - 1) : n = Whole(k)
      BY <2>2 DEF Editing
    <3> QED BY <1>2, <3>1
  <2> QED BY <1>3, <2>1, <2>2
<1>4. CASE call = "tab"
  <2>1. n = l \/ \E k \in 0 .. (BufferSize - 1) : n = Whole(k)
    BY <1>1, <1>4 DEF Editing
  <2> QED BY <1>2, <2>1
<1>5. CASE call \in {"left", "right"}
  <2>1. \/ n = l
        \/ l.pos > 0 /\ n = [len |-> l.len, pos |-> l.pos - 1]
        \/ l.pos < l.len /\ n = [len |-> l.len, pos |-> l.pos + 1]
    BY <1>1, <1>5 DEF Editing
  <2> QED BY <1>1, <2>1 DEF Line, Inside
<1>6. CASE call = "backspace"
  <2>1. \/ n = l
        \/ l.pos > l.len /\ n = [len |-> l.len, pos |-> l.pos - 1]
        \/ 0 < l.pos /\ l.pos <= l.len /\ n = [len |-> l.len - 1, pos |-> l.pos - 1]
    BY <1>1, <1>6 DEF Editing
  <2> QED BY <1>1, <2>1 DEF Line, Inside
<1>7. CASE call \notin {"enter", "ctrl_l", "up", "down", "tab", "left", "right", "backspace"}
  <2>1. \/ n = l
        \/ l.len < BufferSize - 1 /\ l.pos > l.len /\ n = [len |-> l.len, pos |-> l.pos + 1]
        \/ l.len < BufferSize - 1 /\ l.pos <= l.len /\ n = [len |-> l.len + 1, pos |-> l.pos + 1]
    BY <1>1, <1>7 DEF Editing
  <2> QED BY <1>1, <2>1 DEF Line, Inside
<1> QED BY <1>3, <1>4, <1>5, <1>6, <1>7

\* A callback leaves the line such a line.
LEMMA CallKeeps ==
  ASSUME NEW device, NEW calls, line \in Line, CallShell(device, calls)
  PROVE  line' \in Line /\ (Inside(line) => Inside(line'))
BY EditingKeeps DEF CallShell

\* Each line's gate leads to its own entry of irq_handlers.
LEMMA Dispatch ==
  ASSUME NEW irq \in Lines
  PROVE  Vector(irq) \in Gates /\ HandlerOf(irq) = irq
BY DEF Lines, Vector, Gates, HandlerOf

-----------------------------------------------------------------------------
\* The type invariant, action by action.

TypeInv == InterruptTypeOK /\ Boots

LEMMA TypeInit ==
  ASSUME InterruptInit
  PROVE  TypeInv
<1>1. Boots
  BY InterruptConstants DEF InterruptConstants, InterruptInit, Boots
<1>2. MainTypeOK
  BY InterruptConstants DEF InterruptConstants, InterruptInit, MainTypeOK
<1>3. ClockTypeOK
  BY InterruptConstants DEF InterruptConstants, InterruptInit, ClockTypeOK
<1>4. PicTypeOK
  BY InterruptConstants DEF InterruptConstants, InterruptInit, PicTypeOK
<1>5. KeyTypeOK
  <2>1. << >> \in Seq(1 .. 255)
    BY EmptySeq
  <2>2. port \in Seq(1 .. 255) /\ port = << >> /\ 1 \notin requested
    BY <2>1 DEF InterruptInit
  <2>3. down \subseteq Keyboard /\ events \in 0 .. MaxEvents
    BY InterruptConstants DEF InterruptConstants, InterruptInit
  <2>4. paired \in BOOLEAN /\ shift_pressed \in BOOLEAN /\ ctrl_pressed \in BOOLEAN /\ extended \in BOOLEAN
    BY InterruptConstants DEF InterruptConstants, InterruptInit
  <2>5. (1 \in requested) = (port # << >>)
    BY <2>2
  <2> QED BY <2>2, <2>3, <2>4, <2>5 DEF KeyTypeOK
<1>6. UartTypeOK
  <2>1. << >> \in Seq(Received) /\ Len(<< >>) = 0
    BY EmptySeq
  <2>2. fifo \in Seq(Received) /\ Len(fifo) = 0 /\ 4 \notin requested
    BY <2>1 DEF InterruptInit
  <2>3. Depth \in Nat
    BY InterruptConstants DEF InterruptConstants
  <2>4. timed_out \in BOOLEAN
    BY DEF InterruptInit
  <2> QED BY <2>2, <2>3, <2>4 DEF UartTypeOK
<1>7. line \in Line
  BY InterruptConstants DEF InterruptConstants, InterruptInit, Line
<1> QED BY <1>1, <1>2, <1>3, <1>4, <1>5, <1>6, <1>7 DEF TypeInv, InterruptTypeOK

\* Unmasking a line that has its handler.
LEMMA UnmaskKeeps ==
  ASSUME PicTypeOK, NEW irq \in {0, 1, 4}, irq \in handlers', handlers \subseteq handlers',
         masked' = Unmasked(irq), UNCHANGED <<enabled, requested>>
  PROVE  /\ PicTypeOK'
         /\ 0 \notin masked => 0 \notin masked'
         /\ irq \notin masked'
<1>1. masked' = masked \ {irq}
  BY DEF Unmasked
<1>2. ASSUME NEW l \in Lines \ masked'
      PROVE  Vector(l) \in Gates /\ HandlerOf(l) \in handlers'
  <2>1. CASE l = irq
    BY <2>1, Dispatch
  <2>2. CASE l \in Lines \ masked
    BY <2>2, Dispatch DEF PicTypeOK
  <2> QED BY <1>1, <2>1, <2>2
<1> QED BY <1>1, <1>2 DEF PicTypeOK

LEMMA MainTypes ==
  ASSUME TypeInv, Main
  PROVE  TypeInv'
<1> USE DEF boot, clock, pic, setup, keys, uart, decoder, TypeInv, InterruptTypeOK
<1> USE InterruptConstants DEF InterruptConstants
<1>1. KeyTypeOK'
  BY DEF Main, TimerInit, UnmaskSerial, Sti, Sleep, Check, Hlt, KeyboardInit, ShellInit, KeyTypeOK
<1>2. UartTypeOK'
  BY DEF Main, TimerInit, UnmaskSerial, Sti, Sleep, Check, Hlt, KeyboardInit, ShellInit, UartTypeOK, High
<1>3. line' \in Line
  <2>1. CASE ShellInit
    <3>1. line' \in {[line EXCEPT !.len = 0], [line EXCEPT !.pos = 0]}
      BY <2>1 DEF ShellInit, InitStep
    <3>2. line = [len |-> line.len, pos |-> line.pos]
          /\ line.len \in 0 .. (BufferSize - 1) /\ line.pos \in Nat
      BY DEF Line
    <3>3. line' = [len |-> 0, pos |-> line.pos] \/ line' = [len |-> line.len, pos |-> 0]
      BY <3>1, <3>2
    <3> QED BY <3>2, <3>3 DEF Line
  <2>2. CASE line' = line
    BY <2>2
  <2> QED
    BY <2>1, <2>2 DEF Main, TimerInit, UnmaskSerial, Sti, Sleep, Check, Hlt, KeyboardInit
<1>4. PicTypeOK' /\ Boots'
  <2>1. CASE TimerInit
    <3>1. 0 \in handlers' /\ handlers \subseteq handlers' /\ masked' = Unmasked(0)
      BY <2>1 DEF TimerInit
    <3> QED BY <2>1, <3>1, UnmaskKeeps DEF TimerInit, Boots
  <2>2. CASE UnmaskSerial
    <3>1. 4 \in handlers' /\ handlers \subseteq handlers' /\ masked' = Unmasked(4)
      BY <2>2 DEF UnmaskSerial, Boots
    <3> QED BY <2>2, <3>1, UnmaskKeeps DEF UnmaskSerial, Boots
  <2>3. CASE KeyboardInit
    <3>1. 1 \in handlers' /\ handlers \subseteq handlers' /\ masked' = Unmasked(1)
      BY <2>3 DEF KeyboardInit
    <3> QED BY <2>3, <3>1, UnmaskKeeps DEF KeyboardInit, Boots
  <2>4. CASE Sti \/ Sleep \/ Check \/ Hlt \/ ShellInit
    <3>1. UNCHANGED <<test, masked, requested, handlers>> /\ enabled' \in {TRUE, enabled}
          /\ pc # "timer" /\ pc' \notin {"timer", "serial"}
      BY <2>4 DEF Sti, Sleep, Check, Hlt, ShellInit
    <3>2. Boots'
      BY <3>1 DEF Boots
    <3> QED BY <3>1, <3>2 DEF PicTypeOK
  <2> QED BY <2>1, <2>2, <2>3, <2>4 DEF Main
<1>5. MainTypeOK' /\ ClockTypeOK'
  <2>1. CASE TimerInit \/ UnmaskSerial \/ Sti \/ Hlt \/ KeyboardInit \/ ShellInit
    <3>1. UNCHANGED <<test, stage, tick, start, slept, late>>
      BY <2>1 DEF TimerInit, UnmaskSerial, Sti, Hlt, KeyboardInit, ShellInit
    <3>2. pc' \in {"serial", "sti", "boot", "wait", "memset", "pos", "idle"} /\ (pc' = "wait" => pc = "hlt")
      BY <2>1 DEF TimerInit, UnmaskSerial, Sti, Hlt, KeyboardInit, ShellInit
    <3>3. MainTypeOK'
      BY <3>1, <3>2 DEF MainTypeOK
    <3>4. ClockTypeOK'
      BY <3>1 DEF ClockTypeOK
    <3> QED BY <3>3, <3>4
  <2>2. CASE Sleep
    <3>1. 0 \in 0 .. Lag /\ 0 \in Nat
      OBVIOUS
    <3> QED BY <2>2, <3>1 DEF Sleep, MainTypeOK, ClockTypeOK
  <2>3. CASE Check
    <3>1. 0 \in 0 .. Lag /\ 0 \in Nat /\ 0 \in 0 .. (TickMod - 1)
      OBVIOUS
    <3>2. /\ late' = 0 /\ UNCHANGED <<test, tick>> /\ pc = "check"
          /\ \/ pc' = "boot" /\ stage' = stage + 1 /\ start' = 0 /\ slept' = 0
             \/ pc' = "hlt" /\ UNCHANGED <<stage, start, slept>>
      BY <2>3 DEF Check
    <3>3. stage <= Len(Sleeps) /\ stage \in 1 .. (Len(Sleeps) + 1) /\ Len(Sleeps) \in Nat
      BY <3>2 DEF MainTypeOK
    <3>4. stage + 1 \in 1 .. (Len(Sleeps) + 1)
      BY <3>3
    <3>5. MainTypeOK'
      BY <3>2, <3>3, <3>4 DEF MainTypeOK
    <3> QED BY <3>1, <3>2, <3>5 DEF ClockTypeOK
  <2> QED BY <2>1, <2>2, <2>3 DEF Main
<1> QED BY <1>1, <1>2, <1>3, <1>4, <1>5

LEMMA TickTypes ==
  ASSUME TypeInv, TimerTick
  PROVE  TypeInv'
<1> USE DEF TimerTick, boot, clock, pic, setup, keys, uart, decoder, TypeInv, InterruptTypeOK
<1>1. requested' = requested \cup {0} /\ 0 \in Lines
  BY DEF Lines
<1>2. PicTypeOK' /\ Boots'
  BY <1>1 DEF PicTypeOK, Boots
<1>3. KeyTypeOK' /\ UartTypeOK'
  BY <1>1 DEF KeyTypeOK, UartTypeOK, High
<1> QED BY <1>2, <1>3 DEF MainTypeOK, ClockTypeOK

\* A key's bytes fit in a byte, and the controller asks for a handler for them.
LEMMA SendTypes ==
  ASSUME TypeInv, NEW key \in Keyboard, NEW byte \in 1 .. 255, Send(key, byte),
         down' \subseteq Keyboard, paired' \in BOOLEAN
  PROVE  TypeInv'
<1> USE DEF Send, boot, clock, setup, uart, decoder, TypeInv, InterruptTypeOK
<1> DEFINE bytes == IF key \in Extended THEN <<224, byte>> ELSE <<byte>>
<1>1. /\ bytes \in Seq(1 .. 255) /\ bytes # << >> /\ port' = port \o bytes
      /\ port \in Seq(1 .. 255)
  <2>1. <<224, byte>> \in Seq(1 .. 255) /\ <<byte>> \in Seq(1 .. 255)
    OBVIOUS
  <2>2. bytes \in {<<224, byte>>, <<byte>>} /\ port' = port \o bytes
    OBVIOUS
  <2>3. port \in Seq(1 .. 255)
    BY DEF KeyTypeOK
  <2> QED BY <2>1, <2>2, <2>3
<1>2. port' \in Seq(1 .. 255) /\ port' # << >>
  BY <1>1, ConcatProperties, ConcatEqualIffEmpty
<1>3. 1 \in requested' /\ requested \subseteq requested' /\ requested' \subseteq requested \cup {1}
  BY DEF KeyTypeOK
<1>4. events' \in 0 .. MaxEvents
  BY InterruptConstants DEF KeyTypeOK, InterruptConstants
<1>5. KeyTypeOK'
  BY <1>2, <1>3, <1>4 DEF KeyTypeOK
<1>6. PicTypeOK' /\ Boots'
  BY <1>3 DEF PicTypeOK, Boots, Lines
<1>7. UartTypeOK'
  BY <1>3 DEF UartTypeOK, High
<1> QED BY <1>5, <1>6, <1>7 DEF MainTypeOK, ClockTypeOK

LEMMA KeyTypes ==
  ASSUME TypeInv, NEW key \in Keyboard, Press(key) \/ Release(key)
  PROVE  TypeInv'
<1>1. Code[key] \in 1 .. 255 /\ Code[key] + 128 \in 1 .. 255
  <2>1. Code[key] \in 1 .. 95
    BY InterruptConstants DEF InterruptConstants
  <2> QED BY <2>1
<1>2. down \subseteq Keyboard /\ paired \in BOOLEAN
  BY DEF TypeInv, InterruptTypeOK, KeyTypeOK
<1>3. down' \subseteq Keyboard
  BY <1>2 DEF Press, Release
<1>4. paired' \in BOOLEAN
  BY <1>2 DEF Press, Release, TwoOf
<1>5. Send(key, Code[key]) \/ Send(key, Code[key] + 128)
  BY DEF Press, Release
<1> QED BY <1>1, <1>3, <1>4, <1>5, SendTypes

LEMMA UartTypes ==
  ASSUME TypeInv, Timeout \/ \E c \in Received : Receive(c)
  PROVE  TypeInv'
<1> USE DEF boot, clock, setup, keys, decoder, TypeInv, InterruptTypeOK
<1>1. fifo \in Seq(Received) /\ Len(fifo) \in Nat /\ timed_out \in BOOLEAN
  BY LenProperties DEF UartTypeOK
<1>2. requested' = Edge(fifo', timed_out') /\ UNCHANGED <<enabled, masked, handlers>>
  BY DEF Timeout, Receive
<1>3. /\ UNCHANGED <<test, pc, stage, start, tick, late, slept, port, down, paired, line>>
      /\ UNCHANGED <<shift_pressed, ctrl_pressed, extended>>
  BY DEF Timeout, Receive
<1>4. events' \in 0 .. MaxEvents
  <2>1. events \in 0 .. MaxEvents /\ MaxEvents \in Nat
    BY InterruptConstants DEF KeyTypeOK, InterruptConstants
  <2>2. events' = events \/ (events < MaxEvents /\ events' = events + 1)
    BY DEF Timeout, Receive
  <2> QED BY <2>1, <2>2
<1>5. /\ fifo' \in Seq(Received) /\ Len(fifo') <= Depth
      /\ fifo' # << >> /\ (High(fifo, timed_out) => High(fifo', timed_out'))
  <2>1. CASE Timeout
    BY <2>1, <1>1 DEF Timeout, High, UartTypeOK
  <2>2. ASSUME NEW c \in Received, Receive(c)
        PROVE  /\ fifo' \in Seq(Received) /\ Len(fifo') <= Depth
               /\ fifo' # << >> /\ (High(fifo, timed_out) => High(fifo', timed_out'))
    <3>1. /\ fifo' \in Seq(Received) /\ fifo' # << >> /\ Len(fifo') = Len(fifo) + 1
          /\ timed_out' = timed_out /\ Len(fifo) < Depth
      BY <1>1, <2>2, AppendProperties DEF Receive
    <3>2. Trigger \in Int /\ Depth \in Int
      BY InterruptConstants DEF InterruptConstants
    <3> QED BY <1>1, <3>1, <3>2 DEF High
  <2> QED BY <2>1, <2>2
<1>6. timed_out' \in BOOLEAN
  BY <1>1 DEF Timeout, Receive
<1>7. /\ requested \subseteq requested' /\ requested' \subseteq requested \cup {4}
      /\ 4 \in requested' => 4 \in requested \/ High(fifo', timed_out')
  BY <1>2 DEF Edge
<1>8. UartTypeOK'
  BY <1>5, <1>7, <1>6 DEF UartTypeOK
<1>9. PicTypeOK' /\ Boots'
  <2>1. requested' \subseteq Lines
    BY <1>7 DEF PicTypeOK, Lines
  <2>2. PicTypeOK'
    BY <1>2, <2>1 DEF PicTypeOK
  <2> QED BY <1>2, <1>3, <2>2 DEF Boots
<1>10. KeyTypeOK'
  BY <1>3, <1>4, <1>7 DEF KeyTypeOK
<1> QED BY <1>3, <1>8, <1>9, <1>10 DEF MainTypeOK, ClockTypeOK

\* A handler that has run leaves kernel_main where it was, or wakes it.
LEMMA WakesTypes ==
  ASSUME MainTypeOK, Boots, Wakes, UNCHANGED setup
  PROVE  MainTypeOK' /\ Boots'
BY DEF MainTypeOK, Boots, Wakes, setup

LEMMA TimerTypes ==
  ASSUME TypeInv, TimerInterrupt
  PROVE  TypeInv'
<1> USE DEF TimerInterrupt, TypeInv, InterruptTypeOK
<1>1. MainTypeOK' /\ Boots'
  BY WakesTypes
<1>2. requested' = requested \ {0} /\ UNCHANGED <<enabled, masked, handlers>>
  BY DEF setup
<1>3. PicTypeOK'
  BY <1>2 DEF PicTypeOK
<1>4. KeyTypeOK' /\ UartTypeOK'
  BY <1>2 DEF keys, uart, decoder, KeyTypeOK, UartTypeOK, High
<1>5. ClockTypeOK'
  <2>1. start' = start /\ tick' = (tick + 1) % TickMod
    BY DEF Wakes, TickAfter
  <2>2. tick' \in 0 .. (TickMod - 1)
    BY <2>1, InterruptConstants DEF ClockTypeOK, InterruptConstants
  <2>3. late' \in 0 .. Lag
    BY InterruptConstants DEF ClockTypeOK, InterruptConstants
  <2>4. slept' = slept \/ slept' = slept + 1
    OBVIOUS
  <2> QED BY <2>1, <2>2, <2>3, <2>4 DEF ClockTypeOK
<1> QED BY <1>1, <1>3, <1>4, <1>5

LEMMA KeyboardTypes ==
  ASSUME TypeInv, KeyboardInterrupt
  PROVE  TypeInv'
<1> USE DEF KeyboardInterrupt, TypeInv, InterruptTypeOK
<1>1. MainTypeOK' /\ Boots'
  BY WakesTypes
<1>2. /\ 1 \in requested /\ port' = Tail(port)
      /\ requested' = IF Len(port) > 1 THEN requested ELSE requested \ {1}
      /\ UNCHANGED <<enabled, masked, handlers>>
  BY DEF setup, Interrupts
<1>3. port \in Seq(1 .. 255) /\ port # << >>
  BY <1>2 DEF KeyTypeOK
<1>4. port' \in Seq(1 .. 255) /\ Len(port') = Len(port) - 1 /\ Len(port) \in Nat
  BY <1>2, <1>3, HeadTailProperties, LenProperties
<1>5. (1 \in requested') = (port' # << >>)
  <2>1. CASE Len(port) > 1
    <3>1. 1 \in requested' /\ Len(port') # 0
      BY <1>2, <1>4, <2>1
    <3> QED BY <3>1, EmptySeq
  <2>2. CASE ~(Len(port) > 1)
    <3>1. Len(port') = 0
      BY <1>2, <1>3, <1>4, <2>2, EmptySeq
    <3> QED BY <1>2, <1>4, <2>2, <3>1, EmptySeq
  <2> QED BY <2>1, <2>2
<1>6. shift_pressed' \in BOOLEAN /\ ctrl_pressed' \in BOOLEAN
  BY DEF ShiftAfter, CtrlAfter, KeyTypeOK
<1>7. extended' \in BOOLEAN
  BY DEF Prefixed
<1>8. KeyTypeOK'
  BY <1>4, <1>5, <1>6, <1>7 DEF KeyTypeOK
<1>9. PicTypeOK' /\ UartTypeOK'
  <2>1. requested' \subseteq requested
    BY <1>2
  <2>2. PicTypeOK'
    BY <1>2, <2>1 DEF PicTypeOK
  <2> QED BY <2>1, <2>2 DEF uart, UartTypeOK, High
<1>10. line' \in Line
  BY CallKeeps
<1>11. ClockTypeOK'
  BY DEF ClockTypeOK, clock, Wakes
<1> QED BY <1>1, <1>8, <1>9, <1>10, <1>11

LEMMA SerialTypes ==
  ASSUME TypeInv, SerialInterrupt
  PROVE  TypeInv'
<1> USE DEF SerialInterrupt, TypeInv, InterruptTypeOK
<1>1. MainTypeOK' /\ Boots'
  BY WakesTypes
<1>2. requested' = requested \ {4} /\ UNCHANGED <<enabled, masked, handlers>>
  BY DEF setup
<1>3. PicTypeOK'
  BY <1>2 DEF PicTypeOK
<1>4. KeyTypeOK'
  BY <1>2 DEF keys, decoder, KeyTypeOK
<1>5. UartTypeOK'
  <2>1. fifo \in Seq(Received) /\ fifo # << >> /\ Len(fifo) <= Depth
    BY DEF UartTypeOK
  <2>2. fifo' \in Seq(Received) /\ Len(fifo') = Len(fifo) - 1 /\ Len(fifo) \in Nat
    BY <2>1, HeadTailProperties, LenProperties
  <2>3. timed_out' \in BOOLEAN
    OBVIOUS
  <2>4. Depth \in Nat
    BY InterruptConstants DEF InterruptConstants
  <2> QED BY <1>2, <2>1, <2>2, <2>3, <2>4 DEF UartTypeOK
<1>6. line' \in Line
  BY CallKeeps
<1>7. ClockTypeOK'
  BY DEF ClockTypeOK, clock, Wakes
<1> QED BY <1>1, <1>3, <1>4, <1>5, <1>6, <1>7

LEMMA TypeStep ==
  ASSUME TypeInv, [InterruptNext]_interruptVars
  PROVE  TypeInv'
<1>1. CASE UNCHANGED interruptVars
  <2> USE <1>1 DEF interruptVars, boot, clock, pic, keys, uart, decoder, TypeInv, InterruptTypeOK
  <2>1. MainTypeOK' /\ ClockTypeOK' /\ PicTypeOK'
    BY DEF MainTypeOK, ClockTypeOK, PicTypeOK
  <2>2. KeyTypeOK' /\ UartTypeOK' /\ Boots'
    BY DEF KeyTypeOK, UartTypeOK, Boots, High
  <2> QED BY <2>1, <2>2
<1> QED
  BY <1>1, MainTypes, TickTypes, KeyTypes, UartTypes, TimerTypes, KeyboardTypes, SerialTypes
     DEF InterruptNext, Interrupt

\* Every variable keeps its type, and what a handler assumes when it runs holds:
\* there is a byte behind a request of the keyboard, and an unmasked line has its
\* handler.
THEOREM InterruptTypeCorrect == InterruptSpec => []InterruptTypeOK
<1>1. InterruptInit => TypeInv
  BY TypeInit
<1>2. TypeInv /\ [InterruptNext]_interruptVars => TypeInv'
  BY TypeStep
<1>3. TypeInv => InterruptTypeOK
  BY DEF TypeInv
<1> QED BY <1>1, <1>2, <1>3, PTL DEF InterruptSpec

-----------------------------------------------------------------------------
\* The line that is edited while kernel_main sets it up.

\* Only between shell_init's two assignments may the position lie behind the line.
LineInv == TypeInv /\ (pc # "pos" => Inside(line))

LEMMA LineStep ==
  ASSUME LineInv, [InterruptNext]_interruptVars
  PROVE  LineInv'
<1> USE DEF LineInv
<1>1. line = [len |-> line.len, pos |-> line.pos]
      /\ line.len \in 0 .. (BufferSize - 1) /\ line.pos \in Nat
  BY DEF TypeInv, InterruptTypeOK, Line
<1>2. TypeInv'
  BY TypeStep
<1>3. CASE ShellInit
  <2>1. \/ pc' = "pos"
        \/ pc' = "idle" /\ line' = [line EXCEPT !.pos = 0]
    BY <1>3 DEF ShellInit, InitStep
  <2>2. pc' = "idle" => line' = [len |-> line.len, pos |-> 0]
    BY <1>1, <2>1
  <2> QED BY <1>1, <1>2, <2>1, <2>2 DEF Inside
<1>4. CASE KeyboardInterrupt \/ SerialInterrupt
  <2>1. pc' = "pos" <=> pc = "pos"
    BY <1>4 DEF KeyboardInterrupt, SerialInterrupt, Wakes
  <2>2. line \in Line
    BY DEF TypeInv, InterruptTypeOK
  <2>3. Inside(line) => Inside(line')
    BY <1>4, <2>2, CallKeeps DEF KeyboardInterrupt, SerialInterrupt
  <2> QED BY <1>2, <2>1, <2>3
<1>5. CASE UNCHANGED line /\ (pc' = "pos" <=> pc = "pos")
  BY <1>2, <1>5 DEF Inside
<1>6. ASSUME ~ShellInit, ~KeyboardInterrupt, ~SerialInterrupt
      PROVE  UNCHANGED line /\ (pc' = "pos" <=> pc = "pos")
  <2> USE DEF boot, clock, pic, setup, keys, uart, decoder
  <2>1. CASE Main
    BY <1>6, <2>1 DEF Main, TimerInit, UnmaskSerial, Sti, Sleep, Check, Hlt, KeyboardInit
  <2>2. CASE TimerTick \/ Timeout \/ UNCHANGED interruptVars
    BY <2>2 DEF TimerTick, Timeout, interruptVars
  <2>3. CASE \E key \in Keyboard : Press(key) \/ Release(key)
    BY <2>3 DEF Press, Release, Send
  <2>4. CASE \E c \in Received : Receive(c)
    BY <2>4 DEF Receive
  <2>5. CASE TimerInterrupt
    BY <2>5 DEF TimerInterrupt, Wakes
  <2> QED BY <1>6, <2>1, <2>2, <2>3, <2>4, <2>5 DEF InterruptNext, Interrupt
<1> QED BY <1>3, <1>4, <1>5, <1>6

\* Whatever the handlers do to the line before shell_init and between its two
\* assignments, from the end of kernel_main on the position is inside the line.
THEOREM LineSettlesCorrect == InterruptSpec => []LineSettles
<1>1. InterruptInit => LineInv
  <2>1. InterruptInit => Inside(line)
    BY DEF InterruptInit, Inside
  <2> QED BY <2>1, TypeInit DEF LineInv
<1>2. LineInv /\ [InterruptNext]_interruptVars => LineInv'
  BY LineStep
<1>3. LineInv => LineSettles
  BY DEF LineInv, LineSettles, Inside
<1> QED BY <1>1, <1>2, <1>3, PTL DEF InterruptSpec

-----------------------------------------------------------------------------
\* sleep() and a tick that wraps.

\* How far the tick is past what sleep() read.
Past == (tick - start) % TickMod

\* While kernel_main is in sleep(): the ticks since the call are the distance
\* from the tick it read, which cannot wrap, for the loop comes round at least
\* once in Lag ticks.
SleepInv ==
  /\ TypeInv
  /\ pc \in {"check", "hlt"} /\ 0 \in requested => late < Lag
  /\ pc \in {"check", "hlt", "wait"} =>
       /\ Past <= Sleeps[stage] + late
       /\ slept = IF Past < Sleeps[stage] THEN Past ELSE Sleeps[stage]
  /\ pc \in {"hlt", "wait"} => Past < Sleeps[stage] + late

\* Distances on the circle of the tick's values.
LEMMA CircleDistance ==
  ASSUME NEW a \in 0 .. (TickMod - 1), NEW b \in 0 .. (TickMod - 1)
  PROVE  /\ (a - b) % TickMod \in 0 .. (TickMod - 1)
         /\ (a - a) % TickMod = 0
         /\ ((a - b) % TickMod) + 1 < TickMod =>
              (TickAfter(a) - b) % TickMod = ((a - b) % TickMod) + 1
<1> DEFINE M == TickMod
<1>1. M \in Nat \ {0}
  BY InterruptConstants DEF InterruptConstants
<1>2. \A x \in 0 .. (M - 1) : x % M = x
  BY <1>1
<1>3. \A x \in 0 .. (M - 1) : (x - M) % M = x
  BY <1>1
<1>4. M % M = 0
  BY <1>1
<1>5. (a - b) % M = IF a >= b THEN a - b ELSE a - b + M
  <2>1. CASE a >= b
    BY <1>1, <1>2, <2>1
  <2>2. CASE a < b
    <3>1. a - b + M \in 0 .. (M - 1) /\ a - b = (a - b + M) - M
      BY <1>1, <2>2
    <3> QED BY <1>3, <2>2, <3>1
  <2> QED BY <2>1, <2>2
<1>6. TickAfter(a) = IF a + 1 = M THEN 0 ELSE a + 1
  BY <1>1, <1>2, <1>4 DEF TickAfter
<1>7. ASSUME NEW c \in 0 .. (M - 1)
      PROVE  (c - b) % M = IF c >= b THEN c - b ELSE c - b + M
  <2>1. CASE c >= b
    BY <1>1, <1>2, <2>1
  <2>2. CASE c < b
    <3>1. c - b + M \in 0 .. (M - 1) /\ c - b = (c - b + M) - M
      BY <1>1, <2>2
    <3> QED BY <1>3, <2>2, <3>1
  <2> QED BY <2>1, <2>2
<1>8. TickAfter(a) \in 0 .. (M - 1)
  BY <1>1, <1>6
<1> HIDE DEF M
<1>9. /\ (a - b) % M \in 0 .. (M - 1) /\ (a - a) % M = 0
      /\ ((a - b) % M) + 1 < M => (TickAfter(a) - b) % M = ((a - b) % M) + 1
  <2>1. 0 % M = 0 /\ a - a = 0
    BY <1>1, <1>2
  <2>2. (TickAfter(a) - b) % M =
          IF TickAfter(a) >= b THEN TickAfter(a) - b ELSE TickAfter(a) - b + M
    BY <1>7, <1>8
  <2> QED BY <1>1, <1>5, <1>6, <1>8, <2>1, <2>2
<1> QED BY <1>9 DEF M

\* What the clock and the sleep may rely on, as numbers.
LEMMA SleepFacts ==
  ASSUME TypeInv, pc \in {"check", "hlt", "wait"}
  PROVE  /\ Sleeps[stage] \in Nat /\ Lag \in Nat \ {0} /\ TickMod \in Nat
         /\ Sleeps[stage] + Lag < TickMod
         /\ late \in 0 .. Lag /\ slept \in Nat /\ Past \in Nat
         /\ tick \in 0 .. (TickMod - 1) /\ start \in 0 .. (TickMod - 1)
<1>1. stage \in 1 .. Len(Sleeps) /\ Sleeps \in Seq(Nat)
  <2>1. stage \in 1 .. (Len(Sleeps) + 1) /\ stage <= Len(Sleeps)
    BY DEF TypeInv, InterruptTypeOK, MainTypeOK
  <2>2. Sleeps \in Seq(Nat) /\ Len(Sleeps) \in Nat
    BY InterruptConstants, LenProperties DEF InterruptConstants
  <2> QED BY <2>1, <2>2
<1>2. Sleeps[stage] \in Nat /\ stage \in DOMAIN Sleeps
  BY <1>1, ElementOfSeq, LenProperties
<1>3. ClockTypeOK
  BY DEF TypeInv, InterruptTypeOK
<1>4. Past \in Nat
  BY <1>3, CircleDistance DEF ClockTypeOK, Past
<1> QED BY <1>2, <1>3, <1>4, InterruptConstants DEF InterruptConstants, ClockTypeOK

\* No step but a tick, sleep() itself and a handler matters here.
Asleep == <<pc, stage, start, tick, late, slept>>
LEMMA SleepSame ==
  ASSUME SleepInv, TypeInv', UNCHANGED Asleep,
         0 \in requested' => 0 \in requested \/ (pc \in {"check", "hlt"} => late < Lag)
  PROVE  SleepInv'
BY DEF SleepInv, Asleep, Past

\* A tick is counted once, and wakes kernel_main.
LEMMA SleepTick ==
  ASSUME SleepInv, TypeInv', TimerInterrupt
  PROVE  SleepInv'
<1>1. 0 \notin requested' /\ 0 \in requested /\ UNCHANGED <<stage, start>>
  BY DEF TimerInterrupt, Interrupts, Wakes
<1>2. CASE pc \notin {"check", "hlt", "wait"}
  <2>1. pc' = pc
    BY <1>2 DEF TimerInterrupt, Wakes
  <2> QED BY <1>1, <1>2, <2>1 DEF SleepInv
<1>3. CASE pc \in {"check", "hlt", "wait"}
  <2> DEFINE S == Sleeps[stage]
  <2>1. /\ S \in Nat /\ Lag \in Nat \ {0} /\ TickMod \in Nat /\ S + Lag < TickMod
        /\ late \in 0 .. Lag /\ slept \in Nat /\ Past \in Nat
        /\ tick \in 0 .. (TickMod - 1) /\ start \in 0 .. (TickMod - 1)
    BY <1>3, SleepFacts DEF SleepInv
  <2>2. /\ late' = (IF late < Lag THEN late + 1 ELSE late)
        /\ slept' = (IF slept < S THEN slept + 1 ELSE slept)
        /\ tick' = TickAfter(tick)
        /\ pc' = (IF pc = "wait" THEN "check" ELSE pc)
    BY <1>3 DEF TimerInterrupt, Wakes
  <2>3. Past <= S + late /\ slept = (IF Past < S THEN Past ELSE S)
    BY <1>3 DEF SleepInv
  <2>4. pc = "wait" => Past < S + late
    BY DEF SleepInv
  <2>5. pc \in {"check", "hlt"} => late < Lag
    BY <1>1 DEF SleepInv
  <2>6. pc = "hlt" => Past < S + late
    BY DEF SleepInv
  <2>7. Past + 1 < TickMod
    BY <1>3, <2>1, <2>3, <2>4, <2>5
  <2>8. Past' = Past + 1
    BY <1>1, <2>1, <2>2, <2>7, CircleDistance DEF Past
  <2>9. S' = S
    BY <1>1
  <2> HIDE DEF S
  <2>10. /\ Past' <= S + late'
         /\ slept' = IF Past' < S THEN Past' ELSE S
    BY <1>3, <2>1, <2>2, <2>3, <2>4, <2>5, <2>8
  <2>11. pc' = "hlt" => Past' < S + late'
    BY <2>1, <2>2, <2>5, <2>6, <2>8
  <2>12. pc' # "wait"
    BY <2>2
  <2> QED BY <1>1, <2>9, <2>10, <2>11, <2>12 DEF SleepInv, S
<1> QED BY <1>2, <1>3

\* Another line wakes kernel_main only when no tick is pending: line 0 goes first.
LEMMA SleepWoken ==
  ASSUME SleepInv, TypeInv', KeyboardInterrupt \/ SerialInterrupt
  PROVE  SleepInv'
<1>1. /\ pc' = (IF pc = "wait" THEN "check" ELSE pc)
      /\ UNCHANGED <<stage, start, tick, late, slept>>
      /\ 0 \in requested' => 0 \in requested
  BY DEF KeyboardInterrupt, SerialInterrupt, Wakes, clock
<1>2. Past' = Past
  BY <1>1 DEF Past
<1>3. 0 \notin requested \ masked
  <2>1. CASE KeyboardInterrupt
    BY <2>1 DEF KeyboardInterrupt, Interrupts
  <2>2. CASE SerialInterrupt
    BY <2>2 DEF SerialInterrupt, Interrupts
  <2> QED BY <2>1, <2>2
<1>4. pc = "wait" => 0 \notin requested
  BY <1>3 DEF SleepInv, TypeInv, Boots
<1> QED BY <1>1, <1>2, <1>4 DEF SleepInv

LEMMA SleepStep ==
  ASSUME SleepInv, [InterruptNext]_interruptVars
  PROVE  SleepInv'
<1> USE DEF boot, clock, pic, setup, keys, uart, decoder
<1>1. TypeInv'
  BY TypeStep DEF SleepInv
<1>2. CASE TimerInit \/ UnmaskSerial \/ Sti \/ KeyboardInit \/ ShellInit
  <2>1. pc' \notin {"check", "hlt", "wait"}
    BY <1>2 DEF TimerInit, UnmaskSerial, Sti, KeyboardInit, ShellInit
  <2> QED BY <1>1, <2>1 DEF SleepInv
<1>3. CASE Sleep
  <2>1. /\ pc' = "check" /\ start' = tick /\ tick' = tick /\ late' = 0 /\ slept' = 0
        /\ stage' = stage /\ UNCHANGED requested
    BY <1>3 DEF Sleep
  <2>2. /\ (Sleeps[stage])' \in Nat /\ Lag \in Nat \ {0}
        /\ tick \in 0 .. (TickMod - 1)
    <3>1. stage' \in 1 .. (Len(Sleeps) + 1) /\ stage' <= Len(Sleeps)
      BY <1>1, <2>1 DEF TypeInv, InterruptTypeOK, MainTypeOK
    <3>2. Sleeps \in Seq(Nat) /\ Len(Sleeps) \in Nat
      BY InterruptConstants, LenProperties DEF InterruptConstants
    <3>3. tick \in 0 .. (TickMod - 1)
      BY DEF SleepInv, TypeInv, InterruptTypeOK, ClockTypeOK
    <3> QED BY <3>1, <3>2, <3>3, ElementOfSeq, InterruptConstants DEF InterruptConstants
  <2>3. Past' = 0
    BY <2>1, <2>2, CircleDistance DEF Past
  <2>4. /\ Past' <= (Sleeps[stage])' + late'
        /\ slept' = IF Past' < (Sleeps[stage])' THEN Past' ELSE (Sleeps[stage])'
        /\ late' < Lag
    BY <2>1, <2>2, <2>3
  <2> QED BY <1>1, <2>1, <2>4 DEF SleepInv
<1>4. CASE Check
  <2>1. CASE pc' = "boot"
    BY <1>1, <2>1 DEF SleepInv
  <2>2. CASE pc' # "boot"
    <3>1. /\ pc = "check" /\ pc' = "hlt" /\ late' = 0 /\ ~Elapsed(Sleeps[stage])
          /\ UNCHANGED <<stage, start, slept, tick, requested>>
      BY <1>4, <2>2 DEF Check
    <3>2. Past' = Past /\ ~(Past >= Sleeps[stage])
      BY <3>1 DEF Past, Elapsed
    <3>3. Sleeps[stage] \in Nat /\ Past \in Nat /\ Lag \in Nat \ {0}
      BY <3>1, SleepFacts DEF SleepInv
    <3>4. /\ Past < Sleeps[stage] + late' /\ Past <= Sleeps[stage] + late' /\ late' < Lag
          /\ slept = IF Past < Sleeps[stage] THEN Past ELSE Sleeps[stage]
      BY <3>1, <3>2, <3>3 DEF SleepInv
    <3> QED BY <1>1, <3>1, <3>2, <3>4 DEF SleepInv
  <2> QED BY <2>1, <2>2
<1>5. CASE Hlt
  <2>1. /\ pc = "hlt" /\ pc' = "wait"
        /\ UNCHANGED <<stage, start, tick, late, slept, requested>>
    BY <1>5 DEF Hlt
  <2> QED BY <1>1, <2>1 DEF SleepInv, Past
<1>6. CASE TimerTick
  BY <1>1, <1>6, SleepSame DEF TimerTick, Asleep
<1>7. CASE Timeout \/ UNCHANGED interruptVars \/ \E c \in Received : Receive(c)
  <2>1. UNCHANGED Asleep /\ (0 \in requested' => 0 \in requested)
    <3>1. CASE Timeout
      BY <3>1 DEF Timeout, Edge, Asleep
    <3>2. CASE UNCHANGED interruptVars
      BY <3>2 DEF interruptVars, Asleep
    <3>3. CASE \E c \in Received : Receive(c)
      BY <3>3 DEF Receive, Edge, Asleep
    <3> QED BY <1>7, <3>1, <3>2, <3>3
  <2> QED BY <1>1, <2>1, SleepSame
<1>8. CASE \E key \in Keyboard : Press(key) \/ Release(key)
  <2>1. UNCHANGED Asleep /\ (0 \in requested' => 0 \in requested)
    BY <1>8 DEF Press, Release, Send, Asleep
  <2> QED BY <1>1, <2>1, SleepSame
<1> QED
  BY <1>1, <1>2, <1>3, <1>4, <1>5, <1>6, <1>7, <1>8, SleepTick, SleepWoken
     DEF InterruptNext, Main, Interrupt

\* sleep() comes back when as many ticks as it was asked for have gone by since
\* it was called, also when the tick wraps in the meantime.
THEOREM SleepsLongEnoughCorrect == InterruptSpec => SleepsLongEnough
<1>1. InterruptInit => SleepInv
  <2>1. InterruptInit => pc = "timer"
    BY DEF InterruptInit
  <2> QED BY <2>1, TypeInit DEF SleepInv
<1>2. SleepInv /\ [InterruptNext]_interruptVars => SleepInv'
  BY SleepStep
<1>3. SleepInv /\ [InterruptNext]_interruptVars
        => [pc = "check" /\ pc' = "boot" => slept = Sleeps[stage]]_interruptVars
  <2> SUFFICES ASSUME SleepInv, InterruptNext, pc = "check", pc' = "boot"
               PROVE  slept = Sleeps[stage]
    OBVIOUS
  <2>1. Check
    <3> USE DEF boot, clock, pic, setup, keys, uart, decoder
    <3>1. CASE Main
      BY <3>1 DEF Main, TimerInit, UnmaskSerial, Sti, Sleep, Hlt, KeyboardInit, ShellInit
    <3>2. CASE TimerTick \/ Timeout \/ \E c \in Received : Receive(c)
      BY <3>2 DEF TimerTick, Timeout, Receive
    <3>3. CASE \E key \in Keyboard : Press(key) \/ Release(key)
      BY <3>3 DEF Press, Release, Send
    <3>4. CASE Interrupt
      BY <3>4 DEF Interrupt, TimerInterrupt, KeyboardInterrupt, SerialInterrupt, Wakes
    <3> QED BY <3>1, <3>2, <3>3, <3>4 DEF InterruptNext
  <2>2. Elapsed(Sleeps[stage])
    BY <2>1 DEF Check
  <2>3. Sleeps[stage] \in Nat /\ Past \in Nat /\ Past >= Sleeps[stage]
    BY <2>2, SleepFacts DEF SleepInv, Past, Elapsed
  <2> QED BY <2>3 DEF SleepInv
<1> QED BY <1>1, <1>2, <1>3, PTL DEF InterruptSpec, SleepsLongEnough

-----------------------------------------------------------------------------
\* The bytes of a key, from the key to the shell.

\* What the shell can be called with.
Calls ==
  {"up", "down", "left", "right", "ctrl_l", "backspace", "tab"}
    \cup {Plain[c] : c \in DOMAIN Plain} \cup {Shifted[c] : c \in DOMAIN Plain} \cup Received

\* The bytes of the port.
Codes == 1 .. 255
Prefix == 224

LEMMA PrefixCode == Prefix \in Codes
BY DEF Prefix, Codes

\* keyboard_callback as a function of its flags, with the calls made so far: d
\* is what it has remembered, b the byte it reads.
Decoder == [shift : BOOLEAN, ctrl : BOOLEAN, ext : BOOLEAN, made : Nat]

ArrowOf(d, b) == d.ext /\ b \in {72, 80, 75, 77}
CallOf(d, b) ==
  IF ArrowOf(d, b)
  THEN CASE b = 72 -> <<"up">> [] b = 80 -> <<"down">>
         [] b = 75 -> <<"left">> [] b = 77 -> <<"right">>
  ELSE CASE b \in {42, 54, 29} \/ b > 127 -> << >>
         [] d.ctrl /\ b = 38 -> <<"ctrl_l">>
         [] b = 14 -> <<"backspace">>
         [] b = 15 -> <<"tab">>
         [] OTHER -> IF b \notin DOMAIN Plain THEN << >>
                     ELSE IF d.shift THEN <<Shifted[b]>> ELSE <<Plain[b]>>
After(d, b) ==
  [shift |-> IF ArrowOf(d, b) THEN d.shift
             ELSE (d.shift \/ b \in {42, 54}) /\ b \notin {170, 182},
   ctrl  |-> IF ArrowOf(d, b) THEN d.ctrl ELSE (d.ctrl \/ b = 29) /\ b # 157,
   ext   |-> b = Prefix,
   made  |-> d.made + Len(CallOf(d, b))]

Now == [shift |-> shift_pressed, ctrl |-> ctrl_pressed, ext |-> extended,
        made |-> Len(shell["keyboard"])]

\* A flag is on only while a key of it is held, and, unless two keys of one flag
\* were held at once, always then.
Flags(d, pressed, exact) ==
  /\ d.shift => pressed \cap ShiftKeys # {}
  /\ d.ctrl => pressed \cap CtrlKeys # {}
  /\ exact => /\ pressed \cap ShiftKeys # {} => d.shift
              /\ pressed \cap CtrlKeys # {} => d.ctrl

\* The callback has read all that was sent and made the m calls that were meant.
Held(d, pressed, m, exact) == d.made = m /\ ~d.ext /\ Flags(d, pressed, exact)

\* No two keys of one flag are held.
Single(pressed) ==
  /\ \A k, l \in pressed \cap ShiftKeys : k = l
  /\ \A k, l \in pressed \cap CtrlKeys : k = l

\* tr follows the callback through the bytes that are waiting: from what it
\* remembers now to what it will when it has read them all.  It makes no call
\* beyond the number of those meant.
Tracks(tr, bytes, limit) ==
  \A i \in 1 .. Len(bytes) : tr[i] = After(tr[i - 1], bytes[i]) /\ tr[i].made <= limit

\* Each call is the one meant at its place.
Agrees(tr, bytes, typed) ==
  \A i \in 1 .. Len(bytes) : \A j \in 1 .. Len(CallOf(tr[i - 1], bytes[i])) :
    typed[tr[i - 1].made + j] = CallOf(tr[i - 1], bytes[i])[j]

KeysInv ==
  /\ TypeInv
  /\ shell \in [Devices -> Seq(Calls)] /\ meant \in [Devices -> Seq(Calls)]
  /\ shell["serial"] \o fifo = meant["serial"]
  /\ Len(shell["keyboard"]) <= Len(meant["keyboard"])
  /\ ~paired => \A j \in 1 .. Len(shell["keyboard"]) : shell["keyboard"][j] = meant["keyboard"][j]
  /\ ~paired => Single(down)
  /\ \E tr \in [Nat -> Decoder] :
       /\ tr[0] = Now
       /\ Tracks(tr, port, Len(meant["keyboard"]))
       /\ ~paired => Agrees(tr, port, meant["keyboard"])
       /\ Held(tr[Len(port)], down, Len(meant["keyboard"]), ~paired)

\* The callback's flags and its call, in these terms.
LEMMA NowAfter ==
  ASSUME NEW b
  PROVE  /\ CallFor(b) = CallOf(Now, b)
         /\ ShiftAfter(b) = After(Now, b).shift
         /\ CtrlAfter(b) = After(Now, b).ctrl
         /\ Prefixed(b) = After(Now, b).ext
         /\ After(Now, b).made = Len(shell["keyboard"]) + Len(CallOf(Now, b))
<1>1. Arrow(b) = ArrowOf(Now, b)
  BY DEF Arrow, ArrowOf, Now
<1>2. CallFor(b) = CallOf(Now, b)
  <2>1. Now.shift = shift_pressed /\ Now.ctrl = ctrl_pressed
    BY DEF Now
  <2>2. CASE Arrow(b)
    <3>1. b \in {72, 80, 75, 77} /\ ArrowOf(Now, b)
      BY <1>1, <2>2 DEF Arrow
    <3> QED BY <2>2, <3>1 DEF CallFor, CallOf
  <2>3. CASE ~Arrow(b)
    BY <1>1, <2>1, <2>3 DEF CallFor, CallOf
  <2> QED BY <2>2, <2>3
<1>3. ShiftAfter(b) = After(Now, b).shift
  BY <1>1 DEF ShiftAfter, After, Now
<1>4. CtrlAfter(b) = After(Now, b).ctrl
  BY <1>1 DEF CtrlAfter, After, Now
<1>5. Prefixed(b) = After(Now, b).ext
  BY DEF Prefixed, After, Prefix
<1>6. After(Now, b).made = Len(shell["keyboard"]) + Len(CallOf(Now, b))
  BY DEF After, Now
<1> QED BY <1>2, <1>3, <1>4, <1>5, <1>6

\* What it remembers after a byte, field by field.
LEMMA AfterFields ==
  ASSUME NEW d, NEW b
  PROVE  /\ ArrowOf(d, b) => (After(d, b).shift <=> d.shift) /\ (After(d, b).ctrl <=> d.ctrl)
         /\ ~ArrowOf(d, b) => /\ After(d, b).shift <=> (d.shift \/ b \in {42, 54}) /\ b \notin {170, 182}
                              /\ After(d, b).ctrl <=> (d.ctrl \/ b = 29) /\ b # 157
         /\ After(d, b).ext <=> b = Prefix
         /\ After(d, b).made = d.made + Len(CallOf(d, b))
<1>1. After(d, b).ext <=> b = Prefix
  BY DEF After
<1>2. After(d, b).made = d.made + Len(CallOf(d, b))
  BY DEF After
<1>3. CASE ArrowOf(d, b)
  BY <1>1, <1>2, <1>3 DEF After
<1>4. CASE ~ArrowOf(d, b)
  BY <1>1, <1>2, <1>4 DEF After
<1> QED BY <1>3, <1>4

\* It makes one call at most.
LEMMA CallIs ==
  ASSUME NEW d \in Decoder, NEW b \in Codes
  PROVE  /\ CallOf(d, b) = << >> \/ \E c \in Calls : CallOf(d, b) = <<c>>
         /\ CallOf(d, b) \in Seq(Calls) /\ Len(CallOf(d, b)) \in {0, 1}
         /\ After(d, b) \in Decoder
<1>1. CallOf(d, b) = << >> \/ \E c \in Calls : CallOf(d, b) = <<c>>
  <2>1. CASE ArrowOf(d, b)
    BY <2>1 DEF CallOf, ArrowOf, Calls
  <2>2. CASE ~ArrowOf(d, b)
    BY <2>2 DEF CallOf, Calls
  <2> QED BY <2>1, <2>2
<1>2. CallOf(d, b) \in Seq(Calls) /\ Len(CallOf(d, b)) \in {0, 1}
  <2>1. CASE CallOf(d, b) = << >>
    BY <2>1, EmptySeq
  <2>2. ASSUME NEW c \in Calls, CallOf(d, b) = <<c>>
        PROVE  CallOf(d, b) \in Seq(Calls) /\ Len(CallOf(d, b)) = 1
    BY <2>2
  <2> QED BY <1>1, <2>1, <2>2
<1>3. After(d, b) \in Decoder
  <2>1. d.shift \in BOOLEAN /\ d.ctrl \in BOOLEAN /\ d.made \in Nat
    BY DEF Decoder
  <2>2. d.made + Len(CallOf(d, b)) \in Nat
    BY <1>2, <2>1
  <2> QED BY <2>1, <2>2 DEF After, Decoder
<1> QED BY <1>1, <1>2, <1>3

\* What a key's code stands for.
LEMMA CodeFacts ==
  ASSUME NEW key \in Keyboard
  PROVE  /\ Code[key] \in 1 .. 95
         /\ (key \in ShiftKeys) <=> (Code[key] \in {42, 54})
         /\ (key \in CtrlKeys) <=> (Code[key] = 29)
         /\ Code[key] \in {29, 42, 54} => Code[key] \notin DOMAIN Plain
         /\ 38 \in DOMAIN Plain
BY InterruptConstants DEF InterruptConstants, ShiftKeys, CtrlKeys

\* A prefix is remembered, and nothing else comes of it.
LEMMA PrefixDecodes ==
  ASSUME NEW d \in Decoder
  PROVE  /\ CallOf(d, Prefix) = << >> /\ After(d, Prefix).made = d.made
         /\ After(d, Prefix).ext
         /\ After(d, Prefix).shift <=> d.shift
         /\ After(d, Prefix).ctrl <=> d.ctrl
<1>1. ~ArrowOf(d, Prefix)
  BY DEF ArrowOf, Prefix
<1>2. CallOf(d, Prefix) = << >>
  BY <1>1 DEF CallOf, Prefix
<1>3. Len(CallOf(d, Prefix)) = 0 /\ d.made \in Nat
  BY <1>2, EmptySeq DEF Decoder
<1>4. After(d, Prefix).made = d.made
  BY <1>3 DEF After
<1>5. After(d, Prefix).ext
  BY AfterFields
<1>6. Prefix \notin {42, 54, 170, 182, 29, 157}
  BY DEF Prefix
<1>7. (After(d, Prefix).shift <=> d.shift) /\ (After(d, Prefix).ctrl <=> d.ctrl)
  BY <1>1, <1>6, AfterFields
<1> QED BY <1>2, <1>4, <1>5, <1>7

\* A press makes the call that is meant, when the flags say which keys are held;
\* else it makes as many.
LEMMA PressDecodes ==
  ASSUME NEW key \in Keyboard, NEW e \in Decoder, e.ext <=> key \in Extended
  PROVE  /\ ~After(e, Code[key]).ext
         /\ After(e, Code[key]).shift <=> e.shift \/ key \in ShiftKeys
         /\ After(e, Code[key]).ctrl <=> e.ctrl \/ key \in CtrlKeys
         /\ Meaning(key) \in Seq(Calls)
         /\ Len(CallOf(e, Code[key])) = Len(Meaning(key))
         /\ (e.shift <=> down \cap ShiftKeys # {}) /\ (e.ctrl <=> down \cap CtrlKeys # {}) =>
              CallOf(e, Code[key]) = Meaning(key)
<1> DEFINE c == Code[key]
<1>1. /\ c \in 1 .. 95 /\ (key \in ShiftKeys <=> c \in {42, 54}) /\ (key \in CtrlKeys <=> c = 29)
      /\ (c \in {29, 42, 54} => c \notin DOMAIN Plain) /\ 38 \in DOMAIN Plain
  BY CodeFacts
<1>2. ArrowOf(e, c) <=> key \in Extended /\ c \in {72, 80, 75, 77}
  BY DEF ArrowOf
<1>3. ~After(e, c).ext
  <2>1. c # Prefix
    BY <1>1 DEF Prefix
  <2> QED BY <2>1, AfterFields
<1>4. /\ After(e, c).shift <=> e.shift \/ key \in ShiftKeys
      /\ After(e, c).ctrl <=> e.ctrl \/ key \in CtrlKeys
  <2>1. CASE ArrowOf(e, c)
    <3>1. key \notin ShiftKeys /\ key \notin CtrlKeys
      BY <1>1, <1>2, <2>1
    <3> QED BY <2>1, <3>1, AfterFields
  <2>2. CASE ~ArrowOf(e, c)
    <3>1. /\ After(e, c).shift <=> (e.shift \/ c \in {42, 54}) /\ c \notin {170, 182}
          /\ After(e, c).ctrl <=> (e.ctrl \/ c = 29) /\ c # 157
      BY <2>2, AfterFields
    <3>2. c \notin {170, 182, 157}
      BY <1>1
    <3> QED BY <1>1, <3>1, <3>2
  <2> QED BY <2>1, <2>2
<1> DEFINE shifted == down \cap ShiftKeys # {}
           control == down \cap CtrlKeys # {}
<1>5. \/ ArrowOf(e, c) /\ CallOf(e, c) = Meaning(key)
      \/ ~ArrowOf(e, c) /\ c \in {29, 42, 54} /\ CallOf(e, c) = << >> /\ Meaning(key) = << >>
      \/ /\ ~ArrowOf(e, c) /\ c = 38
         /\ CallOf(e, c) = IF e.ctrl THEN <<"ctrl_l">>
                           ELSE IF e.shift THEN <<Shifted[c]>> ELSE <<Plain[c]>>
         /\ Meaning(key) = IF control THEN <<"ctrl_l">>
                           ELSE IF shifted THEN <<Shifted[c]>> ELSE <<Plain[c]>>
      \/ ~ArrowOf(e, c) /\ c \in {14, 15} /\ CallOf(e, c) = Meaning(key)
      \/ ~ArrowOf(e, c) /\ c \notin DOMAIN Plain /\ CallOf(e, c) = << >> /\ Meaning(key) = << >>
      \/ /\ ~ArrowOf(e, c) /\ c \in DOMAIN Plain
         /\ CallOf(e, c) = IF e.shift THEN <<Shifted[c]>> ELSE <<Plain[c]>>
         /\ Meaning(key) = IF shifted THEN <<Shifted[c]>> ELSE <<Plain[c]>>
  <2>1. CASE ArrowOf(e, c)
    <3>1. key \in Extended /\ c \in {72, 80, 75, 77}
      BY <1>2, <2>1
    <3>2. CallOf(e, c) = Meaning(key)
      BY <2>1, <3>1 DEF CallOf, Meaning
    <3> QED BY <2>1, <3>2
  <2>2. CASE ~ArrowOf(e, c) /\ c \in {29, 42, 54}
    <3>1. CallOf(e, c) = << >>
      BY <2>2 DEF CallOf
    <3>2. Meaning(key) = << >>
      BY <1>1, <2>2 DEF Meaning
    <3> QED BY <2>2, <3>1, <3>2
  <2>3. CASE ~ArrowOf(e, c) /\ c = 38
    <3>1. CallOf(e, c) = IF e.ctrl THEN <<"ctrl_l">>
                         ELSE IF e.shift THEN <<Shifted[c]>> ELSE <<Plain[c]>>
      BY <1>1, <2>3 DEF CallOf
    <3>2. Meaning(key) = IF control THEN <<"ctrl_l">>
                         ELSE IF shifted THEN <<Shifted[c]>> ELSE <<Plain[c]>>
      BY <1>1, <2>3 DEF Meaning
    <3> QED BY <2>3, <3>1, <3>2
  <2>4. CASE ~ArrowOf(e, c) /\ c \in {14, 15}
    <3>1. CallOf(e, c) = IF c = 14 THEN <<"backspace">> ELSE <<"tab">>
      BY <2>4 DEF CallOf
    <3>2. Meaning(key) = IF c = 14 THEN <<"backspace">> ELSE <<"tab">>
      BY <2>4 DEF Meaning
    <3> QED BY <2>4, <3>1, <3>2
  <2>5. CASE ~ArrowOf(e, c) /\ c \notin {29, 42, 54, 38, 14, 15}
    <3>0. ~(c > 127)
      BY <1>1
    <3> HIDE DEF c
    <3>1. CallOf(e, c) = IF c \notin DOMAIN Plain THEN << >>
                         ELSE IF e.shift THEN <<Shifted[c]>> ELSE <<Plain[c]>>
      BY <2>5, <3>0 DEF CallOf
    <3> USE DEF c
    <3>2. Meaning(key) = IF c \notin DOMAIN Plain THEN << >>
                         ELSE IF shifted THEN <<Shifted[c]>> ELSE <<Plain[c]>>
      BY <1>2, <2>5 DEF Meaning
    <3> QED BY <2>5, <3>1, <3>2
  <2> QED BY <2>1, <2>2, <2>3, <2>4, <2>5
<1>6. CallOf(e, c) \in Seq(Calls) /\ Len(CallOf(e, c)) \in {0, 1}
  <2>1. c \in Codes
    BY <1>1 DEF Codes
  <2> QED BY <2>1, CallIs
<1>7. \A x : Len(<<x>>) = 1
  OBVIOUS
<1>8. Len(CallOf(e, c)) = Len(Meaning(key))
  BY <1>5, <1>7
<1>9. ASSUME e.shift <=> shifted, e.ctrl <=> control
      PROVE  CallOf(e, c) = Meaning(key)
  BY <1>5, <1>9
<1>10. Meaning(key) \in Seq(Calls)
  <2>1. \A x \in Calls : <<x>> \in Seq(Calls)
    OBVIOUS
  <2>2. "ctrl_l" \in Calls /\ \A x \in DOMAIN Plain : Plain[x] \in Calls /\ Shifted[x] \in Calls
    BY DEF Calls
  <2>3. << >> \in Seq(Calls)
    BY EmptySeq
  <2>4. CASE CallOf(e, c) = Meaning(key)
    BY <1>6, <2>4
  <2>5. CASE Meaning(key) = << >>
    BY <2>3, <2>5
  <2>6. CASE /\ c \in DOMAIN Plain
             /\ Meaning(key) \in {<<"ctrl_l">>, <<Shifted[c]>>, <<Plain[c]>>}
    BY <2>1, <2>2, <2>6
  <2> QED BY <1>1, <1>5, <2>4, <2>5, <2>6
<1> QED BY <1>3, <1>4, <1>8, <1>9, <1>10

\* A release makes no call and clears the flag of its key.
LEMMA ReleaseDecodes ==
  ASSUME NEW key \in Keyboard, NEW e \in Decoder
  PROVE  /\ CallOf(e, Code[key] + 128) = << >>
         /\ ~After(e, Code[key] + 128).ext
         /\ After(e, Code[key] + 128).shift <=> e.shift /\ key \notin ShiftKeys
         /\ After(e, Code[key] + 128).ctrl <=> e.ctrl /\ key \notin CtrlKeys
<1> DEFINE b == Code[key] + 128
<1>1. /\ b \in 129 .. 223
      /\ (key \in ShiftKeys <=> b \in {170, 182}) /\ (key \in CtrlKeys <=> b = 157)
  BY CodeFacts
<1> HIDE DEF b
<1>2. ~ArrowOf(e, b)
  BY <1>1 DEF ArrowOf
<1>3. CallOf(e, b) = << >>
  BY <1>1, <1>2 DEF CallOf
<1>4. ~After(e, b).ext
  <2>1. b # Prefix
    BY <1>1 DEF Prefix
  <2> QED BY <2>1, AfterFields
<1>5. /\ After(e, b).shift <=> (e.shift \/ b \in {42, 54}) /\ b \notin {170, 182}
      /\ After(e, b).ctrl <=> (e.ctrl \/ b = 29) /\ b # 157
  BY <1>2, AfterFields
<1>6. b \notin {42, 54, 29}
  BY <1>1
<1> QED BY <1>1, <1>3, <1>4, <1>5, <1>6 DEF b

\* tr, with d for what comes behind its first n places.
Onward(tr, n, d) == [i \in Nat |-> IF i <= n THEN tr[i] ELSE d]

LEMMA OnwardIs ==
  ASSUME NEW tr \in [Nat -> Decoder], NEW n \in Nat, NEW d \in Decoder
  PROVE  /\ Onward(tr, n, d) \in [Nat -> Decoder] /\ Onward(tr, n, d)[0] = tr[0]
         /\ \A i \in 0 .. n : Onward(tr, n, d)[i] = tr[i]
         /\ Onward(tr, n, d)[n + 1] = d
BY DEF Onward

\* The callback can be followed through one more byte, if the calls it makes of
\* it are not too many; and they agree with those meant, if its own does.
LEMMA TracksOn ==
  ASSUME NEW tr \in [Nat -> Decoder], NEW bytes \in Seq(Codes), NEW b \in Codes,
         NEW limit \in Nat, Tracks(tr, bytes, limit),
         After(tr[Len(bytes)], b).made <= limit
  PROVE  Tracks(Onward(tr, Len(bytes), After(tr[Len(bytes)], b)), Append(bytes, b), limit)
<1> DEFINE n == Len(bytes)
           new == After(tr[n], b)
           tn == Onward(tr, n, new)
           longer == Append(bytes, b)
<1>1. n \in Nat /\ Len(longer) = n + 1 /\ longer[n + 1] = b
      /\ \A i \in 1 .. n : longer[i] = bytes[i]
  BY LenProperties, AppendProperties
<1>2. new \in Decoder
  BY <1>1, CallIs
<1>3. tn[n + 1] = new /\ \A i \in 0 .. n : tn[i] = tr[i]
  BY <1>1, <1>2, OnwardIs
<1> HIDE DEF n, tn, longer
<1>4. ASSUME NEW i \in 1 .. Len(longer)
      PROVE  tn[i] = After(tn[i - 1], longer[i]) /\ tn[i].made <= limit
  <2>1. CASE i \in 1 .. n
    <3>1. i \in 0 .. n /\ i - 1 \in 0 .. n
      BY <1>1, <2>1
    <3>2. tn[i] = tr[i] /\ tn[i - 1] = tr[i - 1] /\ longer[i] = bytes[i]
      BY <1>1, <1>3, <2>1, <3>1
    <3>3. tr[i] = After(tr[i - 1], bytes[i]) /\ tr[i].made <= limit
      BY <2>1 DEF Tracks, n
    <3> QED BY <3>2, <3>3
  <2>2. CASE i = n + 1
    <3>1. tn[i] = new /\ tn[i - 1] = tr[n] /\ longer[i] = b
      BY <1>1, <1>3, <2>2
    <3> QED BY <3>1 DEF n
  <2> QED BY <1>1, <2>1, <2>2
<1> QED BY <1>4 DEF Tracks, tn, longer, n

LEMMA AgreesOn ==
  ASSUME NEW tr \in [Nat -> Decoder], NEW bytes \in Seq(Codes), NEW b \in Codes,
         NEW d \in Decoder, NEW typed, Agrees(tr, bytes, typed),
         \A j \in 1 .. Len(CallOf(tr[Len(bytes)], b)) :
           typed[tr[Len(bytes)].made + j] = CallOf(tr[Len(bytes)], b)[j]
  PROVE  Agrees(Onward(tr, Len(bytes), d), Append(bytes, b), typed)
<1> DEFINE n == Len(bytes)
           tn == Onward(tr, n, d)
           longer == Append(bytes, b)
<1>1. n \in Nat /\ Len(longer) = n + 1 /\ longer[n + 1] = b
      /\ \A i \in 1 .. n : longer[i] = bytes[i]
  BY LenProperties, AppendProperties
<1>2. \A i \in 0 .. n : tn[i] = tr[i]
  BY <1>1, OnwardIs
<1> HIDE DEF n, tn, longer
<1>3. ASSUME NEW i \in 1 .. Len(longer), NEW j \in 1 .. Len(CallOf(tn[i - 1], longer[i]))
      PROVE  typed[tn[i - 1].made + j] = CallOf(tn[i - 1], longer[i])[j]
  <2>1. CASE i \in 1 .. n
    <3>1. i - 1 \in 0 .. n
      BY <1>1, <2>1
    <3>2. tn[i - 1] = tr[i - 1] /\ longer[i] = bytes[i]
      BY <1>1, <1>2, <2>1, <3>1
    <3> QED BY <2>1, <3>2 DEF Agrees, n
  <2>2. CASE i = n + 1
    <3>1. tn[i - 1] = tr[n] /\ longer[i] = b
      BY <1>1, <1>2, <2>2
    <3> QED BY <3>1 DEF n
  <2> QED BY <1>1, <2>1, <2>2
<1> QED BY <1>3 DEF Agrees, tn, longer, n

\* What is typed later changes nothing for the bytes before.
LEMMA TracksLonger ==
  ASSUME NEW tr \in [Nat -> Decoder], NEW bytes \in Seq(Codes),
         NEW more \in Seq(Calls), NEW typed \in Seq(Calls), Tracks(tr, bytes, Len(typed))
  PROVE  /\ Tracks(tr, bytes, Len(typed \o more))
         /\ Agrees(tr, bytes, typed) => Agrees(tr, bytes, typed \o more)
<1> DEFINE longer == typed \o more
<1>1. /\ Len(longer) = Len(typed) + Len(more) /\ Len(typed) \in Nat /\ Len(more) \in Nat
      /\ \A j \in 1 .. Len(typed) : longer[j] = typed[j]
  BY ConcatProperties, LenProperties
<1> HIDE DEF longer
<1>2. ASSUME NEW i \in 1 .. Len(bytes)
      PROVE  /\ tr[i] = After(tr[i - 1], bytes[i]) /\ tr[i].made <= Len(longer)
             /\ Agrees(tr, bytes, typed) => \A j \in 1 .. Len(CallOf(tr[i - 1], bytes[i])) :
                  longer[tr[i - 1].made + j] = CallOf(tr[i - 1], bytes[i])[j]
  <2> DEFINE d == tr[i - 1]
             b == bytes[i]
  <2>1. d \in Decoder /\ b \in Codes /\ tr[i] \in Decoder
    <3>1. Len(bytes) \in Nat
      BY LenProperties
    <3> QED BY <3>1, ElementOfSeq
  <2>2. Len(CallOf(d, b)) \in Nat /\ d.made \in Nat /\ tr[i].made \in Nat
    <3>1. Len(CallOf(d, b)) \in {0, 1}
      BY <2>1, CallIs
    <3> QED BY <2>1, <3>1 DEF Decoder
  <2>3. tr[i] = After(d, b) /\ tr[i].made <= Len(typed)
    BY DEF Tracks
  <2>4. tr[i].made = d.made + Len(CallOf(d, b))
    BY <2>3, AfterFields
  <2>5. Agrees(tr, bytes, typed) =>
          \A j \in 1 .. Len(CallOf(d, b)) : typed[d.made + j] = CallOf(d, b)[j]
    BY DEF Agrees
  <2> HIDE DEF d, b
  <2>6. tr[i].made <= Len(longer)
    BY <1>1, <2>2, <2>3
  <2>7. ASSUME Agrees(tr, bytes, typed), NEW j \in 1 .. Len(CallOf(d, b))
        PROVE  longer[d.made + j] = CallOf(d, b)[j]
    <3>1. d.made + j \in 1 .. Len(typed)
      BY <1>1, <2>2, <2>3, <2>4
    <3> QED BY <1>1, <2>5, <2>7, <3>1
  <2> QED BY <2>3, <2>6, <2>7 DEF d, b
<1>3. Tracks(tr, bytes, Len(longer))
  BY <1>2 DEF Tracks
<1>4. Agrees(tr, bytes, typed) => Agrees(tr, bytes, longer)
  BY <1>2 DEF Agrees
<1> QED BY <1>3, <1>4 DEF longer

\* And what is read first is behind it.
Later(tr) == [i \in Nat |-> tr[i + 1]]
LEMMA TracksTail ==
  ASSUME NEW tr \in [Nat -> Decoder], NEW bytes \in Seq(Codes), bytes # << >>,
         NEW typed, NEW limit, Tracks(tr, bytes, limit)
  PROVE  /\ Later(tr) \in [Nat -> Decoder] /\ Later(tr)[0] = tr[1]
         /\ Tracks(Later(tr), Tail(bytes), limit)
         /\ Agrees(tr, bytes, typed) => Agrees(Later(tr), Tail(bytes), typed)
         /\ Later(tr)[Len(Tail(bytes))] = tr[Len(bytes)]
<1> DEFINE tn == Later(tr)
           rest == Tail(bytes)
<1>1. /\ Len(bytes) \in Nat /\ Len(rest) \in Nat /\ Len(rest) = Len(bytes) - 1
      /\ \A i \in 1 .. Len(rest) : rest[i] = bytes[i + 1]
  BY HeadTailProperties, LenProperties
<1>2. tn \in [Nat -> Decoder] /\ \A i \in Nat : tn[i] = tr[i + 1]
  BY DEF Later
<1> HIDE DEF tn, rest
<1>3. ASSUME NEW i \in 1 .. Len(rest)
      PROVE  /\ i + 1 \in 1 .. Len(bytes)
             /\ tn[i] = tr[i + 1] /\ tn[i - 1] = tr[(i + 1) - 1] /\ rest[i] = bytes[i + 1]
  <2>1. i \in Nat /\ i - 1 \in Nat /\ i + 1 \in 1 .. Len(bytes) /\ (i - 1) + 1 = (i + 1) - 1
    BY <1>1
  <2> QED BY <1>1, <1>2, <2>1
<1>4. Tracks(tn, rest, limit)
  BY <1>3 DEF Tracks
<1>5. ASSUME Agrees(tr, bytes, typed)
      PROVE  Agrees(tn, rest, typed)
  BY <1>3, <1>5 DEF Agrees
<1>6. tn[0] = tr[1] /\ tn[Len(rest)] = tr[Len(bytes)]
  BY <1>1, <1>2
<1> QED BY <1>2, <1>4, <1>5, <1>6 DEF rest, tn

LEMMA KeysInit ==
  ASSUME InterruptInit
  PROVE  KeysInv
<1> DEFINE d0 == [shift |-> FALSE, ctrl |-> FALSE, ext |-> FALSE, made |-> 0]
           tr == [i \in Nat |-> d0]
<1>1. << >> \in Seq(Calls) /\ Len(<< >>) = 0 /\ << >> \o << >> = << >>
  BY EmptySeq, ConcatEmptySeq
<1>2. /\ shell = [dev \in Devices |-> << >>] /\ meant = [dev \in Devices |-> << >>]
      /\ port = << >> /\ fifo = << >> /\ down = {}
      /\ shift_pressed = FALSE /\ ctrl_pressed = FALSE /\ extended = FALSE
  BY DEF InterruptInit
<1>3. /\ shell["keyboard"] = << >> /\ meant["keyboard"] = << >>
      /\ shell["serial"] = << >> /\ meant["serial"] = << >>
      /\ shell \in [Devices -> Seq(Calls)] /\ meant \in [Devices -> Seq(Calls)]
  BY <1>1, <1>2 DEF Devices
<1>4. d0 \in Decoder /\ Now = d0
  BY <1>1, <1>2, <1>3 DEF Decoder, Now
<1>5. tr \in [Nat -> Decoder] /\ tr[0] = d0
  BY <1>4
<1>6. Held(d0, {}, 0, ~paired)
  BY DEF Held, Flags
<1> HIDE DEF tr
<1>7. Tracks(tr, << >>, 0) /\ Agrees(tr, << >>, << >>)
  BY <1>1 DEF Tracks, Agrees
<1>8. TypeInv /\ Single(down)
  BY <1>2, TypeInit DEF Single
<1>9. \E t \in [Nat -> Decoder] :
        /\ t[0] = Now
        /\ Tracks(t, port, Len(meant["keyboard"]))
        /\ ~paired => Agrees(t, port, meant["keyboard"])
        /\ Held(t[Len(port)], down, Len(meant["keyboard"]), ~paired)
  BY <1>1, <1>2, <1>3, <1>4, <1>5, <1>6, <1>7
<1> QED BY <1>1, <1>2, <1>3, <1>8, <1>9 DEF KeysInv


\* A key's one or two bytes.
Bytes(key, b) == IF key \in Extended THEN <<Prefix, b>> ELSE <<b>>

\* What a key sends goes behind what waits.
LEMMA BytesSent ==
  ASSUME NEW bytes \in Seq(Codes), NEW b \in Codes, NEW key
  PROVE  /\ key \notin Extended => bytes \o Bytes(key, b) = Append(bytes, b)
         /\ key \in Extended => bytes \o Bytes(key, b) = Append(Append(bytes, Prefix), b)
<1> DEFINE two == <<Prefix, b>>
           s == bytes \o two
           first == Append(bytes, Prefix)
           t == Append(first, b)
<1>1. Prefix \in Codes /\ Len(bytes) \in Nat
  BY PrefixCode, LenProperties
<1>2. bytes \o <<b>> = Append(bytes, b)
  BY AppendIsConcat
<1>3. two \in Seq(Codes) /\ Len(two) = 2 /\ two[1] = Prefix /\ two[2] = b
  BY <1>1
<1> HIDE DEF two
<1>4. /\ s \in Seq(Codes) /\ Len(s) = Len(bytes) + 2
      /\ \A i \in 1 .. Len(bytes) + 2 :
           s[i] = IF i <= Len(bytes) THEN bytes[i] ELSE two[i - Len(bytes)]
  <2>1. /\ s \in Seq(Codes) /\ Len(s) = Len(bytes) + Len(two)
        /\ \A i \in 1 .. Len(bytes) + Len(two) :
             s[i] = IF i <= Len(bytes) THEN bytes[i] ELSE two[i - Len(bytes)]
    <3> DEFINE S == Codes
    <3>1. bytes \in Seq(S) /\ two \in Seq(S)
      BY <1>3
    <3> HIDE DEF S
    <3>2. s \in Seq(S)
      BY <3>1, ConcatProperties
    <3> QED BY <3>1, <3>2, ConcatProperties DEF S
  <2> QED BY <1>3, <2>1
<1>5. /\ first \in Seq(Codes) /\ Len(first) = Len(bytes) + 1
      /\ first[Len(bytes) + 1] = Prefix /\ \A i \in 1 .. Len(bytes) : first[i] = bytes[i]
  BY <1>1, AppendProperties
<1> HIDE DEF s, first
<1>6. /\ t \in Seq(Codes) /\ Len(t) = Len(first) + 1
      /\ t[Len(first) + 1] = b /\ \A i \in 1 .. Len(first) : t[i] = first[i]
  BY <1>5, AppendProperties
<1> HIDE DEF t
<1>7. Len(s) = Len(t) /\ Len(s) = Len(bytes) + 2
  BY <1>1, <1>4, <1>5, <1>6
<1>8. ASSUME NEW i \in 1 .. Len(s)
      PROVE  s[i] = t[i]
  <2>1. i \in 1 .. Len(bytes) + 2 /\ Len(first) = Len(bytes) + 1
    BY <1>5, <1>7
  <2>2. CASE i \in 1 .. Len(bytes)
    <3>1. i \in 1 .. Len(first) /\ i <= Len(bytes)
      BY <1>1, <2>1, <2>2
    <3>2. t[i] = bytes[i]
      BY <1>5, <1>6, <2>2, <3>1
    <3> QED BY <1>4, <2>1, <3>1, <3>2
  <2>3. CASE i = Len(bytes) + 1
    <3>1. i \in 1 .. Len(first) /\ ~(i <= Len(bytes)) /\ i - Len(bytes) = 1
      BY <1>1, <2>1, <2>3
    <3>2. t[i] = Prefix
      BY <1>5, <1>6, <2>3, <3>1
    <3> QED BY <1>3, <1>4, <2>1, <3>1, <3>2
  <2>4. CASE i = Len(bytes) + 2
    <3>1. i = Len(first) + 1 /\ ~(i <= Len(bytes)) /\ i - Len(bytes) = 2
      BY <1>1, <2>1, <2>4
    <3>2. t[i] = b
      BY <1>6, <3>1
    <3> QED BY <1>3, <1>4, <2>1, <3>1, <3>2
  <2> QED BY <1>1, <2>1, <2>2, <2>3, <2>4
<1>9. s = t
  BY <1>4, <1>6, <1>7, <1>8, SeqEqual
<1>10. ASSUME key \notin Extended
       PROVE  bytes \o Bytes(key, b) = Append(bytes, b)
  <2>1. Bytes(key, b) = <<b>>
    BY <1>10 DEF Bytes
  <2> QED BY <1>2, <2>1
<1>11. ASSUME key \in Extended
       PROVE  bytes \o Bytes(key, b) = Append(Append(bytes, Prefix), b)
  <2>1. Bytes(key, b) = two
    BY <1>11 DEF Bytes, two
  <2>2. bytes \o Bytes(key, b) = s
    BY <2>1 DEF s
  <2> QED BY <1>9, <2>2 DEF t, first
<1> QED BY <1>10, <1>11

\* The calls of byte b, in state e, are the next ones typed.
Fits(typed, e, b) == \A j \in 1 .. Len(CallOf(e, b)) : typed[e.made + j] = CallOf(e, b)[j]

\* tr follows the callback through bytes, to the state e.
Reaches(tr, bytes, typed, e) ==
  tr \in [Nat -> Decoder] /\ Tracks(tr, bytes, Len(typed)) /\ tr[Len(bytes)] = e

\* The callback goes through one byte more.
LEMMA TracksByte ==
  ASSUME NEW tr, NEW bytes \in Seq(Codes), NEW b \in Codes, NEW typed \in Seq(Calls),
         NEW e, NEW d \in Decoder, Reaches(tr, bytes, typed, e), d = After(e, b), d.made <= Len(typed)
  PROVE  \E tn : /\ tn[0] = tr[0] /\ Reaches(tn, Append(bytes, b), typed, d)
                 /\ Agrees(tr, bytes, typed) /\ Fits(typed, e, b) =>
                      Agrees(tn, Append(bytes, b), typed)
<1> DEFINE tn == Onward(tr, Len(bytes), d)
           longer == Append(bytes, b)
<1>1. Len(bytes) \in Nat /\ Len(typed) \in Nat /\ Len(longer) = Len(bytes) + 1
  BY LenProperties, AppendProperties
<1>2. tr \in [Nat -> Decoder] /\ Tracks(tr, bytes, Len(typed)) /\ tr[Len(bytes)] = e
  BY DEF Reaches
<1>3. tn \in [Nat -> Decoder] /\ tn[0] = tr[0] /\ tn[Len(bytes) + 1] = d
  BY <1>1, <1>2 DEF Onward
<1>4. Tracks(tn, longer, Len(typed))
  BY <1>1, <1>2, TracksOn
<1>5. ASSUME Agrees(tr, bytes, typed), Fits(typed, e, b)
      PROVE  Agrees(tn, longer, typed)
  BY <1>2, <1>5, AgreesOn DEF Fits
<1> HIDE DEF tn, longer
<1>6. Reaches(tn, longer, typed, d)
  BY <1>1, <1>3, <1>4 DEF Reaches
<1> QED BY <1>3, <1>5, <1>6 DEF longer

\* The callback goes through a prefix, which calls nothing, and one byte more.
LEMMA TracksPrefixed ==
  ASSUME NEW tr, NEW bytes \in Seq(Codes), NEW b \in Codes, NEW typed \in Seq(Calls),
         NEW p \in Decoder, NEW e \in Decoder, NEW d \in Decoder, Reaches(tr, bytes, typed, p),
         e = After(p, Prefix), d = After(e, b), e.made <= Len(typed), d.made <= Len(typed)
  PROVE  \E tn : /\ tn[0] = tr[0] /\ Reaches(tn, Append(Append(bytes, Prefix), b), typed, d)
                 /\ Agrees(tr, bytes, typed) /\ Fits(typed, e, b) =>
                      Agrees(tn, Append(Append(bytes, Prefix), b), typed)
<1> DEFINE first == Append(bytes, Prefix)
<1>1. Prefix \in Codes /\ first \in Seq(Codes)
  BY PrefixCode, AppendProperties
<1>2. Fits(typed, p, Prefix)
  <2>1. Len(CallOf(p, Prefix)) = 0
    BY PrefixDecodes, EmptySeq
  <2> QED BY <2>1 DEF Fits
<1>3. PICK t1 : /\ t1[0] = tr[0] /\ Reaches(t1, first, typed, e)
                /\ Agrees(tr, bytes, typed) /\ Fits(typed, p, Prefix) => Agrees(t1, first, typed)
  BY <1>1, TracksByte
<1> HIDE DEF first
<1>4. Reaches(t1, first, typed, e)
  BY <1>3
<1>5. PICK tn : /\ tn[0] = t1[0] /\ Reaches(tn, Append(first, b), typed, d)
                /\ Agrees(t1, first, typed) /\ Fits(typed, e, b) => Agrees(tn, Append(first, b), typed)
  BY <1>1, <1>4, TracksByte
<1>6. /\ tn[0] = tr[0] /\ Reaches(tn, Append(first, b), typed, d)
      /\ Agrees(tr, bytes, typed) /\ Fits(typed, e, b) => Agrees(tn, Append(first, b), typed)
  BY <1>2, <1>3, <1>5
<1> QED BY <1>6 DEF first

\* The callback goes through a key's bytes, with a prefix before them or without.
LEMMA TracksKey ==
  ASSUME NEW tr, NEW bytes \in Seq(Codes), NEW b \in Codes, NEW key, NEW typed \in Seq(Calls),
         NEW p \in Decoder, NEW e \in Decoder, NEW d \in Decoder, Reaches(tr, bytes, typed, p),
         key \in Extended => e = After(p, Prefix), key \notin Extended => e = p,
         d = After(e, b), e.made <= Len(typed), d.made <= Len(typed)
  PROVE  \E tn : /\ tn[0] = tr[0] /\ Reaches(tn, bytes \o Bytes(key, b), typed, d)
                 /\ Agrees(tr, bytes, typed) /\ Fits(typed, e, b) =>
                      Agrees(tn, bytes \o Bytes(key, b), typed)
<1>1. CASE key \notin Extended
  <2>1. bytes \o Bytes(key, b) = Append(bytes, b)
    BY <1>1, BytesSent
  <2>2. Reaches(tr, bytes, typed, e)
    BY <1>1
  <2>3. \E tn : /\ tn[0] = tr[0] /\ Reaches(tn, Append(bytes, b), typed, d)
                /\ Agrees(tr, bytes, typed) /\ Fits(typed, e, b) =>
                     Agrees(tn, Append(bytes, b), typed)
    BY <2>2, TracksByte
  <2> QED BY <2>1, <2>3
<1>2. CASE key \in Extended
  <2>1. bytes \o Bytes(key, b) = Append(Append(bytes, Prefix), b)
    BY <1>2, BytesSent
  <2>2. e = After(p, Prefix)
    BY <1>2
  <2>3. \E tn : /\ tn[0] = tr[0] /\ Reaches(tn, Append(Append(bytes, Prefix), b), typed, d)
                /\ Agrees(tr, bytes, typed) /\ Fits(typed, e, b) =>
                     Agrees(tn, Append(Append(bytes, Prefix), b), typed)
    BY <2>2, TracksPrefixed
  <2> QED BY <2>1, <2>3
<1> QED BY <1>1, <1>2

\* A key is pressed or released: the callback will be through its bytes with the
\* calls that are meant so far, the key's own the last of them.
LEMMA KeysSend ==
  ASSUME KeysInv, TypeInv', NEW key \in Keyboard, NEW byte \in Codes, Send(key, byte),
         NEW extra \in Seq(Calls),
         meant' = [meant EXCEPT !["keyboard"] = @ \o extra],
         paired => paired', ~paired' => Single(down'),
         \A e \in Decoder : (e.ext <=> key \in Extended) /\ Flags(e, down, ~paired) =>
           /\ ~After(e, byte).ext
           /\ Flags(After(e, byte), down', ~paired')
           /\ Len(CallOf(e, byte)) = Len(extra)
           /\ ~paired' => CallOf(e, byte) = extra
  PROVE  KeysInv'
<1> DEFINE typed == meant["keyboard"]
           longer == typed \o extra
           n == Len(port)
<1>1. PICK tr \in [Nat -> Decoder] :
        /\ tr[0] = Now
        /\ Tracks(tr, port, Len(typed))
        /\ ~paired => Agrees(tr, port, typed)
        /\ Held(tr[n], down, Len(typed), ~paired)
  BY DEF KeysInv
<1>2. /\ typed \in Seq(Calls) /\ "keyboard" \in Devices /\ "serial" \in Devices
      /\ port \in Seq(Codes) /\ n \in Nat
  BY LenProperties DEF KeysInv, Devices, TypeInv, InterruptTypeOK, KeyTypeOK, Codes
<1>3. /\ longer \in Seq(Calls) /\ Len(longer) = Len(typed) + Len(extra)
      /\ Len(typed) \in Nat /\ Len(extra) \in Nat
      /\ \A j \in 1 .. Len(typed) + Len(extra) :
           longer[j] = IF j <= Len(typed) THEN typed[j] ELSE extra[j - Len(typed)]
  BY <1>2, ConcatProperties, LenProperties
<1>4. /\ Tracks(tr, port, Len(longer))
      /\ ~paired' => Agrees(tr, port, longer)
  BY <1>1, <1>2, TracksLonger
<1> DEFINE e == IF key \in Extended THEN After(tr[n], Prefix) ELSE tr[n]
           sent == port \o Bytes(key, byte)
<1>5. /\ tr[n] \in Decoder /\ tr[n].made = Len(typed) /\ ~tr[n].ext
      /\ Flags(tr[n], down, ~paired)
  BY <1>1, <1>2 DEF Held
<1> HIDE DEF longer, typed, n
<1>6. e \in Decoder /\ (e.ext <=> key \in Extended) /\ Flags(e, down, ~paired) /\ e.made = Len(typed)
  <2>1. CASE key \in Extended
    <3>1. Prefix \in Codes
      BY PrefixCode
    <3>2. After(tr[n], Prefix) \in Decoder
      BY <1>5, <3>1, CallIs
    <3> QED BY <1>5, <2>1, <3>2, PrefixDecodes DEF Flags
  <2>2. CASE key \notin Extended
    BY <1>5, <2>2
  <2> QED BY <2>1, <2>2
<1>7. /\ ~After(e, byte).ext /\ Flags(After(e, byte), down', ~paired')
      /\ Len(CallOf(e, byte)) = Len(extra)
      /\ ~paired' => CallOf(e, byte) = extra
  BY <1>6
<1>8. port' = sent
  BY DEF Send, Bytes, Prefix
<1>9. (key \in Extended => e = After(tr[n], Prefix)) /\ (key \notin Extended => e = tr[n])
  OBVIOUS
<1> HIDE DEF e, sent
<1>10. /\ After(e, byte).made = Len(longer) /\ After(e, byte) \in Decoder
       /\ e.made <= Len(longer)
  <2>1. After(e, byte).made = e.made + Len(CallOf(e, byte))
    BY AfterFields
  <2>2. After(e, byte) \in Decoder
    BY <1>6, CallIs
  <2> QED BY <1>3, <1>6, <1>7, <2>1, <2>2
<1>11. ~paired' => Fits(longer, e, byte)
  <2> SUFFICES ASSUME ~paired', NEW j \in 1 .. Len(extra)
               PROVE  longer[Len(typed) + j] = extra[j]
    BY <1>6, <1>7 DEF Fits
  <2>1. /\ Len(typed) + j \in 1 .. Len(typed) + Len(extra) /\ ~(Len(typed) + j <= Len(typed))
        /\ (Len(typed) + j) - Len(typed) = j
    BY <1>3
  <2> QED BY <1>3, <2>1
<1>12. PICK tn \in [Nat -> Decoder] :
         /\ tn[0] = tr[0] /\ tn[Len(sent)] = After(e, byte)
         /\ Tracks(tn, sent, Len(longer))
         /\ ~paired' => Agrees(tn, sent, longer)
  <2> DEFINE d == After(e, byte)
  <2>1. Reaches(tr, port, longer, tr[n])
    BY <1>4 DEF Reaches, n
  <2>2. d = After(e, byte) /\ d \in Decoder /\ d.made <= Len(longer) /\ e.made <= Len(longer)
    BY <1>3, <1>10
  <2> HIDE DEF d
  <2>3. PICK tn : /\ tn[0] = tr[0] /\ Reaches(tn, port \o Bytes(key, byte), longer, d)
                  /\ Agrees(tr, port, longer) /\ Fits(longer, e, byte) =>
                       Agrees(tn, port \o Bytes(key, byte), longer)
    BY <1>2, <1>3, <1>5, <1>6, <1>9, <2>1, <2>2, TracksKey
  <2>4. tn \in [Nat -> Decoder] /\ Tracks(tn, sent, Len(longer)) /\ tn[Len(sent)] = d
    BY <2>3 DEF Reaches, sent
  <2> QED BY <1>4, <1>11, <2>3, <2>4 DEF d, sent
<1>13. /\ shell' = shell /\ fifo' = fifo /\ meant'["keyboard"] = longer
       /\ meant'["serial"] = meant["serial"] /\ meant' \in [Devices -> Seq(Calls)]
       /\ UNCHANGED <<shift_pressed, ctrl_pressed, extended>>
  <2>1. meant \in [Devices -> Seq(Calls)]
    BY DEF KeysInv
  <2> QED BY <1>2, <1>3, <2>1 DEF Send, uart, decoder, longer, typed
<1>14. Now' = Now
  BY <1>13 DEF Now
<1>15. Held(tn[Len(port')], down', Len(meant'["keyboard"]), ~paired')
  BY <1>7, <1>8, <1>10, <1>12, <1>13 DEF Held
<1>16. /\ tn[0] = Now' /\ Tracks(tn, port', Len(meant'["keyboard"]))
       /\ ~paired' => Agrees(tn, port', meant'["keyboard"])
  BY <1>1, <1>8, <1>12, <1>13, <1>14
<1>17. /\ Len(shell'["keyboard"]) <= Len(meant'["keyboard"])
       /\ ~paired' => \A j \in 1 .. Len(shell'["keyboard"]) :
                        shell'["keyboard"][j] = meant'["keyboard"][j]
  <2>1. /\ Len(shell["keyboard"]) <= Len(typed)
        /\ ~paired => \A j \in 1 .. Len(shell["keyboard"]) : shell["keyboard"][j] = typed[j]
    BY DEF KeysInv, typed
  <2>2. Len(shell["keyboard"]) \in Nat
    BY <1>2, LenProperties DEF KeysInv
  <2>3. Len(shell["keyboard"]) <= Len(longer)
    BY <1>3, <2>1, <2>2
  <2>4. ASSUME ~paired', NEW j \in 1 .. Len(shell["keyboard"])
        PROVE  shell["keyboard"][j] = longer[j]
    <3>1. j \in 1 .. Len(typed) + Len(extra) /\ j <= Len(typed)
      BY <1>3, <2>1, <2>2
    <3> QED BY <1>3, <2>1, <2>4, <3>1
  <2> QED BY <1>13, <2>3, <2>4
<1>18. shell'["serial"] \o fifo' = meant'["serial"] /\ shell' \in [Devices -> Seq(Calls)]
  BY <1>13 DEF KeysInv
<1> QED BY <1>13, <1>15, <1>16, <1>17, <1>18 DEF KeysInv

LEMMA KeysPress ==
  ASSUME KeysInv, TypeInv', NEW key \in Keyboard, Press(key)
  PROVE  KeysInv'
<1>1. /\ Send(key, Code[key]) /\ down' = down \cup {key}
      /\ paired' = (paired \/ TwoOf(ShiftKeys) \/ TwoOf(CtrlKeys))
      /\ meant' = [meant EXCEPT !["keyboard"] = @ \o Meaning(key)]
  BY DEF Press
<1>2. Code[key] \in Codes
  <2>1. Code[key] \in 1 .. 95
    BY CodeFacts
  <2> QED BY <2>1 DEF Codes
<1>3. ~paired' => Single(down')
  BY <1>1 DEF Single, TwoOf
<1>4. paired => paired'
  BY <1>1
<1>5. ASSUME NEW e \in Decoder, e.ext <=> key \in Extended, Flags(e, down, ~paired)
      PROVE  /\ ~After(e, Code[key]).ext
             /\ Flags(After(e, Code[key]), down', ~paired')
             /\ Len(CallOf(e, Code[key])) = Len(Meaning(key))
             /\ ~paired' => CallOf(e, Code[key]) = Meaning(key)
  <2>1. /\ ~After(e, Code[key]).ext
        /\ After(e, Code[key]).shift <=> e.shift \/ key \in ShiftKeys
        /\ After(e, Code[key]).ctrl <=> e.ctrl \/ key \in CtrlKeys
        /\ Len(CallOf(e, Code[key])) = Len(Meaning(key))
        /\ (e.shift <=> down \cap ShiftKeys # {}) /\ (e.ctrl <=> down \cap CtrlKeys # {}) =>
              CallOf(e, Code[key]) = Meaning(key)
    BY <1>5, PressDecodes
  <2>2. ~paired' => ~paired
    BY <1>4
  <2>3. /\ down' \cap ShiftKeys # {} <=> down \cap ShiftKeys # {} \/ key \in ShiftKeys
        /\ down' \cap CtrlKeys # {} <=> down \cap CtrlKeys # {} \/ key \in CtrlKeys
    BY <1>1
  <2>4. Flags(After(e, Code[key]), down', ~paired')
    BY <1>5, <2>1, <2>2, <2>3 DEF Flags
  <2>5. ~paired' => CallOf(e, Code[key]) = Meaning(key)
    BY <1>5, <2>1, <2>2 DEF Flags
  <2> QED BY <2>1, <2>4, <2>5
<1>6. \E e \in Decoder : e.ext <=> key \in Extended
  <2>1. [shift |-> FALSE, ctrl |-> FALSE, ext |-> key \in Extended, made |-> 0] \in Decoder
    BY DEF Decoder
  <2> QED BY <2>1
<1>7. Meaning(key) \in Seq(Calls)
  BY <1>6, PressDecodes
<1> QED BY <1>1, <1>2, <1>3, <1>4, <1>5, <1>7, KeysSend

LEMMA KeysRelease ==
  ASSUME KeysInv, TypeInv', NEW key \in Keyboard, Release(key)
  PROVE  KeysInv'
<1> DEFINE b == Code[key] + 128
<1>1. /\ Send(key, b) /\ down' = down \ {key} /\ key \in down
      /\ paired' = paired /\ meant' = meant
  BY DEF Release
<1>2. b \in Codes
  <2>1. Code[key] \in 1 .. 95
    BY CodeFacts
  <2> QED BY <2>1 DEF Codes
<1>3. ~paired => Single(down)
  BY DEF KeysInv
<1>4. << >> \in Seq(Calls) /\ Len(<< >>) = 0
  BY EmptySeq
<1>5. meant' = [meant EXCEPT !["keyboard"] = @ \o << >>]
  <2>1. meant \in [Devices -> Seq(Calls)] /\ meant["keyboard"] \in Seq(Calls)
    BY DEF KeysInv, Devices
  <2>2. meant["keyboard"] \o << >> = meant["keyboard"]
    BY <2>1, ConcatEmptySeq
  <2> QED BY <1>1, <2>1, <2>2
<1>6. ASSUME NEW e \in Decoder, e.ext <=> key \in Extended, Flags(e, down, ~paired)
      PROVE  /\ ~After(e, b).ext
             /\ Flags(After(e, b), down', ~paired')
             /\ Len(CallOf(e, b)) = Len(<< >>)
             /\ ~paired' => CallOf(e, b) = << >>
  <2>1. /\ CallOf(e, b) = << >> /\ ~After(e, b).ext
        /\ After(e, b).shift <=> e.shift /\ key \notin ShiftKeys
        /\ After(e, b).ctrl <=> e.ctrl /\ key \notin CtrlKeys
    BY ReleaseDecodes
  <2>2. /\ key \notin ShiftKeys => down' \cap ShiftKeys = down \cap ShiftKeys
        /\ key \notin CtrlKeys => down' \cap CtrlKeys = down \cap CtrlKeys
    BY <1>1
  <2>3. ~paired => /\ key \in ShiftKeys => down' \cap ShiftKeys = {}
                   /\ key \in CtrlKeys => down' \cap CtrlKeys = {}
    BY <1>1, <1>3 DEF Single
  <2> HIDE DEF b
  <2>4. Flags(After(e, b), down', ~paired')
    BY <1>1, <1>6, <2>1, <2>2, <2>3 DEF Flags
  <2> QED BY <2>1, <2>4
<1>7. (paired => paired') /\ (~paired' => Single(down'))
  BY <1>1, <1>3 DEF Single
<1> HIDE DEF b
<1> QED BY <1>1, <1>2, <1>4, <1>5, <1>6, <1>7, KeysSend

\* The callback reads the first byte that waits.
LEMMA KeysRead ==
  ASSUME KeysInv, TypeInv', KeyboardInterrupt
  PROVE  KeysInv'
<1> DEFINE b == Head(port)
           call == CallOf(Now, b)
           made == shell["keyboard"]
           typed == meant["keyboard"]
<1>1. /\ port \in Seq(Codes) /\ port # << >> /\ port' = Tail(port) /\ b \in Codes
      /\ b = port[1] /\ 1 \in 1 .. Len(port)
  <2>1. 1 \in requested /\ port' = Tail(port)
    BY DEF KeyboardInterrupt, Interrupts
  <2>2. port \in Seq(Codes) /\ port # << >>
    BY <2>1 DEF KeysInv, TypeInv, InterruptTypeOK, KeyTypeOK, Codes
  <2>3. Len(port) \in Nat \ {0}
    BY <2>2, EmptySeq
  <2> QED BY <2>1, <2>2, <2>3, HeadTailProperties
<1>2. PICK tr \in [Nat -> Decoder] :
        /\ tr[0] = Now
        /\ Tracks(tr, port, Len(typed))
        /\ ~paired => Agrees(tr, port, typed)
        /\ Held(tr[Len(port)], down, Len(typed), ~paired)
  BY DEF KeysInv
<1>3. Now \in Decoder
  BY <1>2
<1>4. /\ made \in Seq(Calls) /\ typed \in Seq(Calls) /\ "keyboard" \in Devices /\ "serial" \in Devices
      /\ shell \in [Devices -> Seq(Calls)] /\ Len(made) \in Nat /\ Len(typed) \in Nat
  BY LenProperties DEF KeysInv, Devices
<1>5. call \in Seq(Calls) /\ Len(call) \in {0, 1} /\ CallFor(b) = call
  BY <1>1, <1>3, CallIs, NowAfter
<1>6. /\ shell' = [shell EXCEPT !["keyboard"] = made \o call]
      /\ UNCHANGED <<down, paired, fifo, meant>>
      /\ shift_pressed' = ShiftAfter(b) /\ ctrl_pressed' = CtrlAfter(b) /\ extended' = Prefixed(b)
  BY <1>5 DEF KeyboardInterrupt, CallShell, uart
<1> HIDE DEF b, call
<1>7. /\ shell' \in [Devices -> Seq(Calls)] /\ shell'["keyboard"] = made \o call
      /\ shell'["serial"] = shell["serial"]
  <2>1. made \o call \in Seq(Calls)
    BY <1>4, <1>5, ConcatProperties
  <2> QED BY <1>4, <1>6, <2>1
<1>8. /\ Len(made \o call) = Len(made) + Len(call)
      /\ \A j \in 1 .. Len(made) + Len(call) :
           (made \o call)[j] = IF j <= Len(made) THEN made[j] ELSE call[j - Len(made)]
  BY <1>4, <1>5, ConcatProperties
<1>9. Now' = After(Now, b)
  <2>1. Now' = [shift |-> ShiftAfter(b), ctrl |-> CtrlAfter(b), ext |-> Prefixed(b),
                made |-> Len(made) + Len(call)]
    BY <1>6, <1>7, <1>8 DEF Now
  <2>2. /\ ShiftAfter(b) = After(Now, b).shift /\ CtrlAfter(b) = After(Now, b).ctrl
        /\ Prefixed(b) = After(Now, b).ext /\ Len(made) + Len(call) = After(Now, b).made
    BY NowAfter DEF call
  <2>3. After(Now, b) = [shift |-> After(Now, b).shift, ctrl |-> After(Now, b).ctrl,
                         ext |-> After(Now, b).ext, made |-> After(Now, b).made]
    BY DEF After
  <2> QED BY <2>1, <2>2, <2>3
<1>10. tr[1] = After(Now, b) /\ tr[1].made <= Len(typed)
  BY <1>1, <1>2 DEF Tracks, b
<1>11. ~paired => \A j \in 1 .. Len(call) : typed[Len(made) + j] = call[j]
  <2>1. tr[1 - 1] = Now /\ port[1] = b /\ Now.made = Len(made)
    BY <1>1, <1>2 DEF Now, b
  <2> QED BY <1>1, <1>2, <2>1 DEF Agrees, call
<1>12. /\ Later(tr) \in [Nat -> Decoder] /\ Later(tr)[0] = Now'
       /\ Tracks(Later(tr), port', Len(typed))
       /\ ~paired => Agrees(Later(tr), port', typed)
       /\ Later(tr)[Len(port')] = tr[Len(port)]
  BY <1>1, <1>2, <1>9, <1>10, TracksTail
<1>13. Len(made) + Len(call) <= Len(typed)
  BY <1>10, NowAfter DEF call
<1>14. ~paired => \A j \in 1 .. Len(made) + Len(call) : (made \o call)[j] = typed[j]
  <2> SUFFICES ASSUME ~paired, NEW j \in 1 .. Len(made) + Len(call)
               PROVE  (made \o call)[j] = typed[j]
    OBVIOUS
  <2>1. CASE j <= Len(made)
    <3>1. \A i \in 1 .. Len(made) : made[i] = typed[i]
      BY DEF KeysInv
    <3>2. j \in 1 .. Len(made)
      BY <1>4, <2>1
    <3> QED BY <1>8, <2>1, <3>1, <3>2
  <2>2. CASE ~(j <= Len(made))
    <3>1. j - Len(made) \in 1 .. Len(call) /\ Len(made) + (j - Len(made)) = j
      BY <1>4, <1>5, <2>2
    <3>2. typed[Len(made) + (j - Len(made))] = call[j - Len(made)]
      BY <1>11, <3>1
    <3> QED BY <1>8, <2>2, <3>1, <3>2
  <2> QED BY <2>1, <2>2
<1>15. Held(Later(tr)[Len(port')], down', Len(meant'["keyboard"]), ~paired')
  BY <1>2, <1>6, <1>12
<1>16. /\ Later(tr)[0] = Now' /\ Tracks(Later(tr), port', Len(meant'["keyboard"]))
       /\ ~paired' => Agrees(Later(tr), port', meant'["keyboard"])
  BY <1>6, <1>12
<1>17. /\ Len(shell'["keyboard"]) <= Len(meant'["keyboard"])
       /\ ~paired' => \A j \in 1 .. Len(shell'["keyboard"]) :
                        shell'["keyboard"][j] = meant'["keyboard"][j]
  BY <1>6, <1>7, <1>8, <1>13, <1>14
<1>18. /\ shell'["serial"] \o fifo' = meant'["serial"] /\ meant' \in [Devices -> Seq(Calls)]
       /\ ~paired' => Single(down')
  BY <1>6, <1>7 DEF KeysInv
<1> QED BY <1>7, <1>12, <1>15, <1>16, <1>17, <1>18 DEF KeysInv

\* A step that leaves the keyboard, its callback and its calls alone.
LEMMA KeysFrame ==
  ASSUME KeysInv, TypeInv', UNCHANGED <<port, down, paired, decoder>>,
         shell' \in [Devices -> Seq(Calls)], shell'["keyboard"] = shell["keyboard"],
         meant' \in [Devices -> Seq(Calls)], meant'["keyboard"] = meant["keyboard"],
         shell'["serial"] \o fifo' = meant'["serial"]
  PROVE  KeysInv'
<1>1. /\ port' = port /\ down' = down /\ paired' = paired
      /\ shift_pressed' = shift_pressed /\ ctrl_pressed' = ctrl_pressed /\ extended' = extended
  BY DEF decoder
<1>2. Now' = Now
  BY <1>1 DEF Now
<1>3. \E tr \in [Nat -> Decoder] :
        /\ tr[0] = Now'
        /\ Tracks(tr, port', Len(meant'["keyboard"]))
        /\ ~paired' => Agrees(tr, port', meant'["keyboard"])
        /\ Held(tr[Len(port')], down', Len(meant'["keyboard"]), ~paired')
  <2>1. PICK tr \in [Nat -> Decoder] :
          /\ tr[0] = Now
          /\ Tracks(tr, port, Len(meant["keyboard"]))
          /\ ~paired => Agrees(tr, port, meant["keyboard"])
          /\ Held(tr[Len(port)], down, Len(meant["keyboard"]), ~paired)
    BY DEF KeysInv
  <2>2. /\ tr[0] = Now'
        /\ Tracks(tr, port', Len(meant'["keyboard"]))
        /\ ~paired' => Agrees(tr, port', meant'["keyboard"])
        /\ Held(tr[Len(port')], down', Len(meant'["keyboard"]), ~paired')
    BY <1>1, <1>2, <2>1
  <2> QED BY <2>2
<1>4. /\ Len(shell'["keyboard"]) <= Len(meant'["keyboard"])
      /\ ~paired' => \A j \in 1 .. Len(shell'["keyboard"]) :
                       shell'["keyboard"][j] = meant'["keyboard"][j]
      /\ ~paired' => Single(down')
  BY <1>1 DEF KeysInv
<1> QED BY <1>3, <1>4 DEF KeysInv

\* A byte the serial port receives waits behind those that do.
LEMMA KeysReceive ==
  ASSUME KeysInv, TypeInv', NEW c \in Received, Receive(c)
  PROVE  KeysInv'
<1>1. /\ UNCHANGED <<port, down, paired, decoder>> /\ shell' = shell
      /\ fifo' = Append(fifo, c)
      /\ meant' = [meant EXCEPT !["serial"] = Append(@, c)]
  BY DEF Receive, keys
<1>2. /\ shell \in [Devices -> Seq(Calls)] /\ meant \in [Devices -> Seq(Calls)]
      /\ "keyboard" \in Devices /\ "serial" \in Devices /\ c \in Calls
      /\ shell["serial"] \o fifo = meant["serial"]
  BY DEF KeysInv, Devices, Calls
<1>3. fifo \in Seq(Calls)
  <2>1. fifo \in Seq(Received) /\ Received \subseteq Calls
    BY DEF KeysInv, TypeInv, InterruptTypeOK, UartTypeOK, Calls
  <2> QED BY <2>1
<1>4. Append(meant["serial"], c) \in Seq(Calls)
  BY <1>2, AppendProperties
<1>5. shell["serial"] \o Append(fifo, c) = Append(meant["serial"], c)
  <2>1. shell["serial"] \o Append(fifo, c) = Append(shell["serial"] \o fifo, c)
    BY <1>2, <1>3
  <2> QED BY <1>2, <2>1
<1>6. /\ meant' \in [Devices -> Seq(Calls)] /\ meant'["keyboard"] = meant["keyboard"]
      /\ meant'["serial"] = Append(meant["serial"], c)
  BY <1>1, <1>2, <1>4
<1> QED BY <1>1, <1>2, <1>5, <1>6, KeysFrame

\* serial_callback hands on the first of them.
LEMMA KeysSerial ==
  ASSUME KeysInv, TypeInv', SerialInterrupt
  PROVE  KeysInv'
<1>1. /\ UNCHANGED <<port, down, paired, decoder>> /\ meant' = meant
      /\ fifo # << >> /\ fifo' = Tail(fifo)
      /\ shell' = [shell EXCEPT !["serial"] = @ \o <<Head(fifo)>>]
  BY DEF SerialInterrupt, CallShell, keys
<1>2. /\ shell \in [Devices -> Seq(Calls)] /\ meant \in [Devices -> Seq(Calls)]
      /\ "keyboard" \in Devices /\ "serial" \in Devices
      /\ shell["serial"] \o fifo = meant["serial"]
  BY DEF KeysInv, Devices
<1>3. fifo \in Seq(Calls)
  <2>1. fifo \in Seq(Received) /\ Received \subseteq Calls
    BY DEF KeysInv, TypeInv, InterruptTypeOK, UartTypeOK, Calls
  <2> QED BY <2>1
<1>4. /\ Head(fifo) \in Calls /\ Tail(fifo) \in Seq(Calls) /\ fifo = <<Head(fifo)>> \o Tail(fifo)
      /\ <<Head(fifo)>> \in Seq(Calls)
  BY <1>1, <1>3, HeadTailProperties
<1>5. (shell["serial"] \o <<Head(fifo)>>) \o Tail(fifo) = meant["serial"]
  <2>1. (shell["serial"] \o <<Head(fifo)>>) \o Tail(fifo)
          = shell["serial"] \o (<<Head(fifo)>> \o Tail(fifo))
    <3>1. shell["serial"] \in Seq(Calls)
      BY <1>2
    <3> QED BY <1>4, <3>1, ConcatAssociative
  <2> QED BY <1>2, <1>4, <2>1
<1>6. shell["serial"] \o <<Head(fifo)>> \in Seq(Calls)
  BY <1>2, <1>4, ConcatProperties
<1>7. /\ shell' \in [Devices -> Seq(Calls)] /\ shell'["keyboard"] = shell["keyboard"]
      /\ shell'["serial"] = shell["serial"] \o <<Head(fifo)>>
  BY <1>1, <1>2, <1>6
<1> QED BY <1>1, <1>2, <1>5, <1>7, KeysFrame

LEMMA KeysStep ==
  ASSUME KeysInv, [InterruptNext]_interruptVars
  PROVE  KeysInv'
<1>1. TypeInv'
  BY TypeStep DEF KeysInv
<1>2. ASSUME UNCHANGED <<port, down, paired, decoder, shell, meant, fifo>>
      PROVE  KeysInv'
  <2>1. /\ shell \in [Devices -> Seq(Calls)] /\ meant \in [Devices -> Seq(Calls)]
        /\ shell["serial"] \o fifo = meant["serial"]
    BY DEF KeysInv
  <2> QED BY <1>1, <1>2, <2>1, KeysFrame
<1>3. CASE UNCHANGED interruptVars
  BY <1>2, <1>3 DEF interruptVars, keys, uart
<1>4. CASE Main
  <2>1. UNCHANGED <<port, down, paired, decoder, shell, meant, fifo>>
    BY <1>4 DEF Main, TimerInit, UnmaskSerial, Sti, Sleep, Check, Hlt, KeyboardInit, ShellInit,
                keys, uart
  <2> QED BY <1>2, <2>1
<1>5. CASE TimerTick \/ TimerInterrupt \/ Timeout
  <2>1. UNCHANGED <<port, down, paired, decoder, shell, meant, fifo>>
    BY <1>5 DEF TimerTick, TimerInterrupt, Timeout, keys, uart
  <2> QED BY <1>2, <2>1
<1>6. CASE KeyboardInterrupt
  BY <1>1, <1>6, KeysRead
<1>7. CASE SerialInterrupt
  BY <1>1, <1>7, KeysSerial
<1>8. CASE \E key \in Keyboard : Press(key) \/ Release(key)
  BY <1>1, <1>8, KeysPress, KeysRelease
<1>9. CASE \E c \in Received : Receive(c)
  BY <1>1, <1>9, KeysReceive
<1> QED BY <1>3, <1>4, <1>5, <1>6, <1>7, <1>8, <1>9 DEF InterruptNext, Interrupt

\* With nothing waiting, the callback is where it will be when it has read all.
LEMMA KeysSettled ==
  ASSUME KeysInv, port = << >>
  PROVE  /\ Len(shell["keyboard"]) = Len(meant["keyboard"]) /\ ~extended
         /\ shift_pressed => down \cap ShiftKeys # {}
         /\ ctrl_pressed => down \cap CtrlKeys # {}
         /\ ~paired => /\ shift_pressed = (down \cap ShiftKeys # {})
                       /\ ctrl_pressed = (down \cap CtrlKeys # {})
<1>1. Len(port) = 0
  BY EmptySeq
<1>2. Held(Now, down, Len(meant["keyboard"]), ~paired)
  BY <1>1 DEF KeysInv
<1>3. /\ Now.made = Len(shell["keyboard"]) /\ (Now.ext <=> extended)
      /\ (Now.shift <=> shift_pressed) /\ (Now.ctrl <=> ctrl_pressed)
  BY DEF Now
<1>4. shift_pressed \in BOOLEAN /\ ctrl_pressed \in BOOLEAN
  BY DEF KeysInv, TypeInv, InterruptTypeOK, KeyTypeOK
<1>5. /\ shift_pressed => down \cap ShiftKeys # {}
      /\ ctrl_pressed => down \cap CtrlKeys # {}
      /\ ~paired => /\ shift_pressed <=> down \cap ShiftKeys # {}
                    /\ ctrl_pressed <=> down \cap CtrlKeys # {}
  BY <1>2, <1>3 DEF Held, Flags
<1>6. Len(shell["keyboard"]) = Len(meant["keyboard"]) /\ ~extended
  BY <1>2, <1>3 DEF Held
<1> QED BY <1>4, <1>5, <1>6

\* The shell gets what was typed, in order and once, however presses, releases
\* and serial bytes mix; once all keys are up no modifier or prefix is left on.
THEOREM KeysReachShellCorrect == InterruptSpec => []KeysReachShell
<1>1. InterruptInit => KeysInv
  BY KeysInit
<1>2. KeysInv /\ [InterruptNext]_interruptVars => KeysInv'
  BY KeysStep
<1>3. KeysInv => KeysReachShell
  <2> SUFFICES ASSUME KeysInv
               PROVE  KeysReachShell
    OBVIOUS
  <2> DEFINE made == shell["keyboard"]
             typed == meant["keyboard"]
             part == SubSeq(typed, 1, Len(made))
  <2>1. ~paired => made = part
    <3> SUFFICES ASSUME ~paired
                 PROVE  made = part
      OBVIOUS
    <3>1. made \in Seq(Calls) /\ typed \in Seq(Calls)
      BY DEF KeysInv, Devices
    <3>2. Len(made) <= Len(typed) /\ \A j \in 1 .. Len(made) : made[j] = typed[j]
      BY DEF KeysInv
    <3>3. Len(made) \in Nat /\ Len(typed) \in Nat
      BY <3>1, LenProperties
    <3> HIDE DEF made, typed
    <3>4. /\ part \in Seq(Calls) /\ Len(part) = Len(made)
          /\ \A j \in 1 .. Len(made) : part[j] = typed[j]
      BY <3>1, <3>2, <3>3, SubSeqProperties
    <3> HIDE DEF part
    <3> QED BY <3>1, <3>2, <3>4, SeqEqual
  <2>2. shell["serial"] \o fifo = meant["serial"] /\ Len(made) <= Len(typed)
    BY DEF KeysInv
  <2> QED BY <2>1, <2>2, KeysSettled DEF KeysReachShell
<1> QED BY <1>1, <1>2, <1>3, PTL DEF InterruptSpec

=============================================================================
