SPECIFICATION WaitSpec
CONSTANTS
  Flags = {"UTF8"}
  Terminfo <- Xterm
  MouseIntro <- XtermMouse
  Leftover = 0
  Keystrokes <- Pressed
  Hasty <- TellApart
  Timely = TRUE
  FlagEintr = TRUE
  BufSize = 6
  MaxOwed = 2
PROPERTIES KeysInOrder WaitReturns EofIsLast
