SPECIFICATION Spec
CONSTANTS
  a = a
  b = b
  Byte <- MCByte
  Junk = Junk
  Top = 4
  Sizes = {2, 4}
  HostShrinks = FALSE
  HasFd = TRUE
  FlagEintr = TRUE
  MaxEscapes = 1
  MaxChunk = 2
  MaxReceived = 6
SYMMETRY ByteSymmetry
INVARIANTS TypeOK WithinBuffer NothingLost
PROPERTY AgainTakesNothing
