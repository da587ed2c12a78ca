SPECIFICATION LogoSpec
CONSTANTS
  Width = 3
  Height = 2
  Glyphs <- MCGlyphs
  Space = " "
  MaxParams = 2
  ParamMax = 12
  Digits <- MCDigits
  Foreground <- MCForeground
  Background <- MCBackground
  DefaultFg = 1
  DefaultBg = 3
  Moves <- MCMoves
  LineMax = 3
  logo <- MCLogo
  max_width = 3
  start_y = 1
  target_text <- MCText
  text_x = 2
  text_y = 1
  end_y = 2
  Frames = 3
  LogoColor = 10
  TextColor <- MCTextColor
  Reset = 0
INVARIANTS TerminalTypeOK MovesBack LogoStands
PROPERTIES ImplementsRoll
