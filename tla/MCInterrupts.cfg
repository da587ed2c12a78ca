SPECIFICATION InterruptSpec
CONSTANTS
  TickMod = 4
  Sleeps <- MCSleeps
  Lag = 1
  MaxEvents = 3
  Keyboard <- MCKeyboard
  Code <- MCCode
  Extended <- MCExtended
  Plain <- MCPlain
  Shifted <- MCShifted
  Received = {"s", "backspace"}
  Trigger = 2
  Depth = 3
  BufferSize = 3
INVARIANTS InterruptTypeOK KeysReachShell LineSettles
PROPERTIES SleepsLongEnough BootCompletes KeysHandled
