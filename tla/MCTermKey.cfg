SPECIFICATION TKSpec
CONSTANTS
  Byte <- MCByte
  Junk = Junk
  Top = 4
  Sizes = {4}
  HostShrinks = FALSE
  HasFd = TRUE
  FlagEintr = FALSE
  MaxEscapes = 3
  MaxChunk = 1
  MaxReceived = 5
  Flags = {"UTF8"}
  Terminfo <- Xterm
  MouseIntro <- XtermMouse
  Leftover = 0
CONSTRAINT Bounds
INVARIANTS SameKeysHoweverDelivered CsiInterpretable
PROPERTIES BufferSpec ForceAnswers
