---------------------------- MODULE MCInterrupts ----------------------------
(***************************************************************************)
(* Five keys by their scancodes: the shift keys, right control (0xE0 0x1D), *)
(* L and up (0xE0 0x48); a FIFO of 3 bytes that asks at 2.  The tick wraps *)
(* after 4; kernel_main sleeps once, for 2 ticks.                          *)
(***************************************************************************)
EXTENDS Interrupts, TLC

MCKeyboard == {"lshift", "rshift", "ctrl", "l", "up"}
MCCode == [lshift |-> 42, rshift |-> 54, ctrl |-> 29, l |-> 38, up |-> 72]
MCExtended == {"ctrl", "up"}
MCPlain == 38 :> "l"
MCShifted == 38 :> "L"
MCSleeps == <<2>>
=============================================================================
