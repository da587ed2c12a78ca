SPECIFICATION CommandsSpec
CONSTANTS
  Size = 24
  HexDigits = 2
  BufferSize = 12
  NameSize = 3
  MaxArgs = 3
  MaxDump = 12
  BitmapBytes = 10
  TicksPerSecond = 2
  Sixty = 3
  Bytes = 16
  PageSize = 16
  HeapStart = 208
  Present = {0, 8, 13}
  BadAddress = 160
  HeapBlocks = {208, 223}
  Spelling <- MCSpelling
  UserToken <- MCUserToken
  OsToken <- MCOsToken
  PromptTemplate <- MCTemplate
  DefaultUser <- MCUser
  DefaultOs <- MCOs
  Lines <- MCLines
  MaxLines = 2
  Ticks = {0, 17, 18, 99, 127, 128, 255}
INVARIANTS StringsAgree NumbersAgree
 
CHECK_DEADLOCK FALSE
