SPECIFICATION Spec
CONSTANTS
  Flags = {}
  Terminfo <- Xterm
  MouseIntro <- NoMouse
  Leftover = Leftover
  Keystrokes <- Usual
  Positions <- Corner
  TypesAhead = FALSE
  BufSize = 8
  MaxTty = 5
  MaxOwed = 8
PROPERTIES KeysInOrder CallsReturn PositionReported
