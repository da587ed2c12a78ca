----------------------------- MODULE Interrupts -----------------------------
(***************************************************************************)
(* The boot sequence of kernel_main and the interrupts it lets in one by   *)
(* one: the timer, whose ticks sleep() counts, the keyboard, whose bytes   *)
(* keyboard_callback turns into calls of the shell, and in test builds the *)
(* serial port, whose bytes are handed to it as they are.                  *)
(*                                                                         *)
(* Every gate of the IDT clears the interrupt flag and no handler sets it, *)
(* so a handler is one step; kernel_main is interrupted between any two of *)
(* its own.  The PIC latches one request for each line, the controller     *)
(* behind port 0x60 shows one byte at a time and requests line 1 for each. *)
(* The UART holds line 4 high while its FIFO is filled to the trigger      *)
(* level, or not empty and left alone for a while; the PIC sees the edge.  *)
(*                                                                         *)
(* Of the line that is edited only its length and the position are kept:   *)
(* kernel_main clears them at its end with the handlers already running.   *)
(***************************************************************************)
EXTENDS Integers, Sequences

CONSTANTS
  TickMod,   \* 2^32
  Sleeps,    \* the lengths of kernel_main's sleeps, in ticks
  Lag,       \* ticks that may pass without kernel_main's loop being run once
  MaxEvents, \* bound: keys pressed or released in a run
  Keyboard,  \* the keys
  Code,      \* key |-> the scancode of its press
  Extended,  \* the keys whose codes follow a byte 0xE0
  Plain,     \* scancode |-> character, where scancode_to_ascii is not 0
  Shifted,   \* the same for scancode_to_ascii_shift
  Received,  \* what the serial port receives, as calls of the shell
  Trigger,   \* the FIFO's trigger level: 14
  Depth,     \* bytes in the FIFO: 16
  BufferSize \* BUFFER_SIZE: 256

ShiftKeys == {k \in Keyboard : Code[k] \in {42, 54}}
CtrlKeys == {k \in Keyboard : Code[k] = 29}

\* The tables have 128 entries: a press's code has no top bit.  They have a
\* character for L and none for the shift and control keys.
ASSUME InterruptConstants ==
  /\ TickMod \in Nat \ {0} /\ Lag \in Nat \ {0}
  /\ Sleeps \in Seq(Nat) /\ \A i \in DOMAIN Sleeps : Sleeps[i] + Lag < TickMod
  /\ MaxEvents \in Nat
  /\ Extended \subseteq Keyboard /\ Code \in [Keyboard -> 1 .. 95]
  /\ DOMAIN Plain \subseteq 0 .. 127 /\ DOMAIN Shifted = DOMAIN Plain
  /\ 38 \in DOMAIN Plain /\ {29, 42, 54} \cap DOMAIN Plain = {}
  /\ Trigger \in 1 .. Depth /\ Depth \in Nat /\ BufferSize \in Nat \ {0}

VARIABLES
  test,           \* AURI_TEST_MODE is defined
  pc,             \* where kernel_main is
  stage,          \* the sleep it is at
  start,          \* sleep(): tick on entry; 0 outside it
  tick,
  enabled,        \* the interrupt flag
  masked,         \* lines masked in the PICs
  requested,      \* lines with a request latched in them
  handlers,       \* lines with an entry in irq_handlers
  late,           \* ticks since kernel_main last looked at tick
  slept,          \* ticks since sleep() was called, up to what it waits for
  port,           \* bytes of the keyboard, the first one at port 0x60
  fifo,           \* bytes in the UART
  timed_out,      \* the UART asks for bytes below the trigger level
  down,           \* keys held down
  paired,         \* two keys that share a flag have been down together
  events,         \* keys pressed or released and bytes received so far
  shift_pressed, ctrl_pressed, extended,
  meant,          \* device |-> what was typed on it, in order
  shell,          \* device |-> the calls its callback made
  line            \* the length of the line and the position in it

boot == <<test, pc, stage, start>>
clock == <<tick, late, slept>>
pic == <<enabled, masked, requested, handlers>>
setup == <<enabled, masked, handlers>>
keys == <<port, down, paired>>
uart == <<fifo, timed_out>>
decoder == <<shift_pressed, ctrl_pressed, extended>>
interruptVars == <<boot, clock, pic, keys, uart, events, meant, decoder, shell, line>>

Lines == 0 .. 15
Devices == {"keyboard", "serial"}

\* pic_remap's offsets, idt_init's gates and irq_handler's index.
Vector(irq) == IF irq < 8 THEN 32 + irq ELSE 40 + irq - 8
Gates == 0 .. 47
HandlerOf(irq) == Vector(irq) - 32

\* serial_init has registered its handler; pic_remap leaves every line masked
\* and none requested.
InterruptInit ==
  /\ test \in BOOLEAN
  /\ pc = "timer" /\ stage = 1 /\ start = 0 /\ tick = 0
  /\ enabled = FALSE /\ masked = Lines /\ requested = {}
  /\ handlers = IF test THEN {4} ELSE {}
  /\ late = 0 /\ slept = 0
  /\ port = << >> /\ fifo = << >> /\ timed_out = FALSE
  /\ down = {} /\ paired = FALSE /\ events = 0
  /\ meant = [d \in Devices |-> << >>] /\ shell = [d \in Devices |-> << >>]
  /\ shift_pressed = FALSE /\ ctrl_pressed = FALSE /\ extended = FALSE
  /\ line = [len |-> 0, pos |-> 0]

-----------------------------------------------------------------------------
\* kernel_main, from pic_remap on.

\* Slips: a mask that lets the keyboard in with the timer, and one that is
\* shifted by nothing.
OneMore(irq) == masked \ {irq, irq + 1}
LineZero(irq) == masked \ {0}

\* pic_unmask_irq: the lines of the second PIC come in through line 2.
Unmasked(irq) == masked \ (IF irq < 8 THEN {irq} ELSE {2, irq})

TimerInit ==
  /\ pc = "timer"
  /\ handlers' = handlers \cup {0} /\ masked' = Unmasked(0)
  /\ pc' = IF test THEN "serial" ELSE "sti"
  /\ UNCHANGED <<test, stage, start, clock, enabled, requested, keys, uart, events, meant, decoder, shell, line>>

UnmaskSerial ==
  /\ pc = "serial"
  /\ masked' = Unmasked(4) /\ pc' = "sti"
  /\ UNCHANGED <<test, stage, start, clock, enabled, requested, handlers, keys, uart, events, meant, decoder, shell, line>>

Sti ==
  /\ pc = "sti"
  /\ enabled' = TRUE /\ pc' = "boot"
  /\ UNCHANGED <<test, stage, start, clock, masked, requested, handlers, keys, uart, events, meant, decoder, shell, line>>

\* Slips: a comparison with the tick to wait for, which may have wrapped, and a
\* loop that ends one tick too early.
Reached(wait) == tick >= start + wait
OneTickLess(wait) == ((tick - start) % TickMod) + 1 >= wait

Elapsed(wait) == (tick - start) % TickMod >= wait

\* sleep(): read tick, then wait for an interrupt as long as it takes.
Sleep ==
  /\ pc = "boot" /\ stage <= Len(Sleeps)
  /\ start' = tick /\ late' = 0 /\ slept' = 0
  /\ pc' = "check"
  /\ UNCHANGED <<test, stage, tick, pic, keys, uart, events, meant, decoder, shell, line>>

Check ==
  /\ pc = "check"
  /\ late' = 0
  /\ IF Elapsed(Sleeps[stage])
     THEN pc' = "boot" /\ stage' = stage + 1 /\ start' = 0 /\ slept' = 0
     ELSE pc' = "hlt" /\ UNCHANGED <<stage, start, slept>>
  /\ UNCHANGED <<test, tick, pic, keys, uart, events, meant, decoder, shell, line>>

Hlt ==
  /\ pc = "hlt"
  /\ pc' = "wait"
  /\ UNCHANGED <<test, stage, start, clock, pic, keys, uart, events, meant, decoder, shell, line>>

KeyboardInit ==
  /\ pc = "boot" /\ stage > Len(Sleeps)
  /\ handlers' = handlers \cup {1} /\ masked' = Unmasked(1)
  /\ pc' = "memset"
  /\ UNCHANGED <<test, stage, start, clock, enabled, requested, keys, uart, events, meant, decoder, shell, line>>

\* shell_init's two assignments, and a slip that swaps them.
InitSwapped(step, l) == IF step = 1 THEN [l EXCEPT !.pos = 0] ELSE [l EXCEPT !.len = 0]
InitStep(step, l) == IF step = 1 THEN [l EXCEPT !.len = 0] ELSE [l EXCEPT !.pos = 0]

ShellInit ==
  /\ \/ pc = "memset" /\ line' = InitStep(1, line) /\ pc' = "pos"
     \/ pc = "pos" /\ line' = InitStep(2, line) /\ pc' = "idle"
  /\ UNCHANGED <<test, stage, start, clock, pic, keys, uart, events, meant, decoder, shell>>

-----------------------------------------------------------------------------
\* The devices.

\* The timer requests line 0.  It does not get ahead of kernel_main's loop by
\* more than Lag ticks: a tick is a millisecond.
TimerTick ==
  /\ pc # "timer" /\ 0 \notin requested
  /\ pc \in {"check", "hlt"} => late < Lag
  /\ requested' = requested \cup {0}
  /\ UNCHANGED <<boot, clock, setup, keys, uart, events, meant, decoder, shell, line>>

\* What a press is for, seen from the keyboard.
Meaning(key) ==
  CASE key \in Extended /\ Code[key] = 72 -> <<"up">>
    [] key \in Extended /\ Code[key] = 80 -> <<"down">>
    [] key \in Extended /\ Code[key] = 75 -> <<"left">>
    [] key \in Extended /\ Code[key] = 77 -> <<"right">>
    [] Code[key] = 38 /\ down \cap CtrlKeys # {} -> <<"ctrl_l">>
    [] Code[key] = 14 -> <<"backspace">>
    [] Code[key] = 15 -> <<"tab">>
    [] OTHER -> IF Code[key] \notin DOMAIN Plain THEN << >>
                ELSE IF down \cap ShiftKeys # {} THEN <<Shifted[Code[key]]>>
                ELSE <<Plain[Code[key]]>>

\* A key sends its bytes; the controller requests line 1 when it was empty.
Send(key, byte) ==
  /\ events < MaxEvents /\ events' = events + 1
  /\ port' = port \o (IF key \in Extended THEN <<224, byte>> ELSE <<byte>>)
  /\ requested' = IF port = << >> THEN requested \cup {1} ELSE requested
  /\ UNCHANGED <<boot, clock, setup, uart, decoder, shell, line>>

TwoOf(pair) == \E k, l \in down' \cap pair : k # l

\* A press, or its repetition while the key is held.
Press(key) ==
  /\ Send(key, Code[key])
  /\ down' = down \cup {key}
  /\ paired' = (paired \/ TwoOf(ShiftKeys) \/ TwoOf(CtrlKeys))
  /\ meant' = [meant EXCEPT !["keyboard"] = @ \o Meaning(key)]

Release(key) ==
  /\ key \in down
  /\ Send(key, Code[key] + 128)
  /\ down' = down \ {key} /\ UNCHANGED <<paired, meant>>

\* The UART's output to line 4, and the request that its rise leaves in the PIC.
High(bytes, overdue) == Len(bytes) >= Trigger \/ overdue
Edge(bytes, overdue) ==
  IF High(bytes, overdue) /\ ~High(fifo, timed_out) THEN requested \cup {4} ELSE requested

Receive(c) ==
  /\ test /\ events < MaxEvents /\ events' = events + 1
  /\ Len(fifo) < Depth /\ fifo' = Append(fifo, c)
  /\ meant' = [meant EXCEPT !["serial"] = Append(@, c)]
  /\ requested' = Edge(fifo', timed_out)
  /\ UNCHANGED <<boot, clock, setup, keys, timed_out, decoder, shell, line>>

\* No byte has come or gone for the time of four.
Timeout ==
  /\ fifo # << >> /\ ~timed_out /\ timed_out' = TRUE
  /\ requested' = Edge(fifo, TRUE)
  /\ UNCHANGED <<boot, clock, setup, keys, fifo, events, meant, decoder, shell, line>>

-----------------------------------------------------------------------------
\* irq_handler and the two callbacks.

\* A line the PIC lets through: the lowest one that is requested and unmasked;
\* its gate leads to irq_handler, which finds the line's callback.
Interrupts(irq) ==
  /\ enabled /\ irq \in requested \ masked
  /\ \A l \in requested \ masked : irq <= l
  /\ Vector(irq) \in Gates /\ HandlerOf(irq) \in handlers

\* An interrupt ends a hlt.
Wakes == pc' = (IF pc = "wait" THEN "check" ELSE pc) /\ UNCHANGED <<test, stage, start>>

TickAfter(t) == (t + 1) % TickMod

TimerInterrupt ==
  /\ Interrupts(0)
  /\ tick' = TickAfter(tick)
  /\ IF pc \in {"check", "hlt", "wait"}
     THEN /\ late' = IF late < Lag THEN late + 1 ELSE late
          /\ slept' = IF slept < Sleeps[stage] THEN slept + 1 ELSE slept
     ELSE UNCHANGED <<late, slept>>
  /\ requested' = requested \ {0}
  /\ Wakes
  /\ UNCHANGED <<setup, keys, uart, events, meant, decoder, shell, line>>

\* What the shell's entry points make of the line.  Between the two assignments
\* of shell_init the position may lie behind an empty line: a character is then
\* written over by the NUL that follows it.  What the history hands back and how
\* far a completion goes is left open.
Whole(n) == [len |-> n, pos |-> n]
Editing(l, call) ==
  CASE call \in {"enter", "ctrl_l"} -> {Whole(0)}
    [] call \in {"up", "down"} -> {Whole(n) : n \in 0 .. (BufferSize - 1)}
    [] call = "tab" ->
         {l} \cup {Whole(n) : n \in IF l.pos <= l.len THEN (l.pos + 1) .. (BufferSize - 1) ELSE {}}
    [] call = "left" -> {IF l.pos > 0 THEN [l EXCEPT !.pos = @ - 1] ELSE l}
    [] call = "right" -> {IF l.pos < l.len THEN [l EXCEPT !.pos = @ + 1] ELSE l}
    [] call = "backspace" ->
         {IF l.pos = 0 THEN l
          ELSE [len |-> IF l.pos <= l.len THEN l.len - 1 ELSE l.len, pos |-> l.pos - 1]}
    [] OTHER ->
         {IF l.len >= BufferSize - 1 THEN l
          ELSE [len |-> IF l.pos <= l.len THEN l.len + 1 ELSE l.len, pos |-> l.pos + 1]}

\* The calls a callback makes, none or one.
CallShell(device, calls) ==
  /\ shell' = [shell EXCEPT ![device] = @ \o calls]
  /\ IF calls = << >> THEN UNCHANGED line ELSE line' \in Editing(line, calls[1])

\* keyboard_callback: the prefix, then the arrows behind it, then the rest.
\* A prefix that is never forgotten, and what the code does with it.
ExtendedStays(byte) == extended \/ byte = 224
Prefixed(byte) == byte = 224

Arrow(byte) == extended /\ byte \in {72, 80, 75, 77}
ShiftAfter(byte) ==
  IF Arrow(byte) THEN shift_pressed
  ELSE (shift_pressed \/ byte \in {42, 54}) /\ byte \notin {170, 182}
CtrlAfter(byte) ==
  IF Arrow(byte) THEN ctrl_pressed
  ELSE (ctrl_pressed \/ byte = 29) /\ byte # 157

CallFor(byte) ==
  IF Arrow(byte)
  THEN CASE byte = 72 -> <<"up">> [] byte = 80 -> <<"down">>
         [] byte = 75 -> <<"left">> [] byte = 77 -> <<"right">>
  ELSE CASE byte \in {42, 54, 29} \/ byte > 127 -> << >>
         [] ctrl_pressed /\ byte = 38 -> <<"ctrl_l">>
         [] byte = 14 -> <<"backspace">>
         [] byte = 15 -> <<"tab">>
         [] OTHER -> IF byte \notin DOMAIN Plain THEN << >>
                     ELSE IF shift_pressed THEN <<Shifted[byte]>> ELSE <<Plain[byte]>>

\* The callback reads port 0x60; the controller shows its next byte.
KeyboardInterrupt ==
  /\ Interrupts(1)
  /\ extended' = Prefixed(Head(port))
  /\ shift_pressed' = ShiftAfter(Head(port)) /\ ctrl_pressed' = CtrlAfter(Head(port))
  /\ CallShell("keyboard", CallFor(Head(port)))
  /\ port' = Tail(port)
  /\ requested' = IF Len(port) > 1 THEN requested ELSE requested \ {1}
  /\ Wakes
  /\ UNCHANGED <<clock, setup, down, paired, uart, events, meant>>

\* serial_callback takes one byte, if there is one.  The line falls unless the
\* FIFO is still at its trigger level, and only from there it can rise again.
SerialInterrupt ==
  /\ Interrupts(4) /\ fifo # << >>
  /\ CallShell("serial", <<Head(fifo)>>)
  /\ fifo' = Tail(fifo) /\ timed_out' = FALSE
  /\ requested' = requested \ {4}
  /\ Wakes
  /\ UNCHANGED <<clock, setup, keys, events, meant, decoder>>

-----------------------------------------------------------------------------
Main == TimerInit \/ UnmaskSerial \/ Sti \/ Sleep \/ Check \/ Hlt \/ KeyboardInit \/ ShellInit
Interrupt == TimerInterrupt \/ KeyboardInterrupt \/ SerialInterrupt

InterruptNext ==
  \/ Main \/ Interrupt \/ TimerTick \/ Timeout
  \/ \E key \in Keyboard : Press(key) \/ Release(key)
  \/ \E c \in Received : Receive(c)

\* The processor runs, and the timer runs for ever; the timer's interrupts leave
\* time for those of the keyboard and the UART, which does not forget a byte.
InterruptSpec ==
  /\ InterruptInit /\ [][InterruptNext]_interruptVars
  /\ WF_interruptVars(Main) /\ WF_interruptVars(TimerTick)
  /\ WF_interruptVars(TimerInterrupt) /\ WF_interruptVars(Timeout)
  /\ SF_interruptVars(KeyboardInterrupt) /\ SF_interruptVars(SerialInterrupt)

-----------------------------------------------------------------------------
Line == [len : 0 .. (BufferSize - 1), pos : Nat]

MainTypeOK ==
  /\ test \in BOOLEAN
  /\ pc \in {"timer", "serial", "sti", "boot", "check", "hlt", "wait", "memset", "pos", "idle"}
  /\ stage \in 1 .. (Len(Sleeps) + 1)
  /\ pc \in {"check", "hlt", "wait"} => stage <= Len(Sleeps)
ClockTypeOK ==
  /\ start \in 0 .. (TickMod - 1) /\ tick \in 0 .. (TickMod - 1)
  /\ late \in 0 .. Lag /\ slept \in Nat
PicTypeOK ==
  /\ enabled \in BOOLEAN /\ masked \subseteq Lines /\ requested \subseteq Lines
  /\ \A irq \in Lines \ masked : Vector(irq) \in Gates /\ HandlerOf(irq) \in handlers
KeyTypeOK ==
  /\ port \in Seq(1 .. 255) /\ (1 \in requested) = (port # << >>)
  /\ down \subseteq Keyboard /\ paired \in BOOLEAN /\ events \in 0 .. MaxEvents
  /\ shift_pressed \in BOOLEAN /\ ctrl_pressed \in BOOLEAN /\ extended \in BOOLEAN
UartTypeOK ==
  /\ fifo \in Seq(Received) /\ Len(fifo) <= Depth /\ timed_out \in BOOLEAN
  /\ 4 \in requested => High(fifo, timed_out) /\ fifo # << >>

\* Every variable keeps its type; what a handler assumes when it runs holds: a
\* keyboard request has a byte behind it, an unmasked line has its handler.
InterruptTypeOK ==
  MainTypeOK /\ ClockTypeOK /\ PicTypeOK /\ KeyTypeOK /\ UartTypeOK /\ line \in Line

\* The shell gets what was typed, in order and once: no byte of one key is taken
\* for another's however presses, releases and serial bytes mix, also for keys
\* pressed before keyboard_init; and once all keys are up no modifier or prefix
\* is left on.  While two keys of one flag are down the flag may be off too soon,
\* which changes a call but makes none too many.
KeysReachShell ==
  /\ shell["serial"] \o fifo = meant["serial"]
  /\ Len(shell["keyboard"]) <= Len(meant["keyboard"])
  /\ ~paired => shell["keyboard"] = SubSeq(meant["keyboard"], 1, Len(shell["keyboard"]))
  /\ port = << >> => /\ Len(shell["keyboard"]) = Len(meant["keyboard"]) /\ ~extended
                     /\ shift_pressed => down \cap ShiftKeys # {}
                     /\ ctrl_pressed => down \cap CtrlKeys # {}
                     /\ ~paired => /\ shift_pressed = (down \cap ShiftKeys # {})
                                   /\ ctrl_pressed = (down \cap CtrlKeys # {})

\* shell_init runs with the handlers already calling the shell.  Whatever they
\* did to the line before it and between its assignments, it ends with the
\* position inside the line, and every later key keeps it there.
LineSettles == pc = "idle" => line.pos <= line.len

\* sleep() waits for as many ticks as it was asked to, also when tick wraps.
SleepsLongEnough == [][pc = "check" /\ pc' = "boot" => slept = Sleeps[stage]]_interruptVars

\* The boot gets through its sleeps to the end of kernel_main: a tick between
\* the look at tick and the hlt costs one more tick and never the wake-up.
BootCompletes == <>(pc = "idle")

\* A key is handled; so is a byte of the serial port, though a callback takes one
\* of several, as long as the FIFO is never filled past its trigger level: from
\* there the line does not fall and no request follows.
KeysHandled ==
  /\ port # << >> ~> port = << >>
  /\ [](Len(fifo) <= Trigger) => (fifo # << >> ~> fifo = << >>)
=============================================================================
