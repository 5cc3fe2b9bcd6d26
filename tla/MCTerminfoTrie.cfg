\* The load comes to an end.
CONSTANTS
  Caps <- MCCaps
  StringsOf <- MCStringsOf
  NoString = none
  Sorted <- MCSorted
  FNumber <- MCFNumber
  AfterS <- MCAfterS
  Buffers <- MCBuffers
SPECIFICATION TrieSpec
INVARIANTS KeysOfTerminal NamesFound LoadsUnlessClash
CHECK_DEADLOCK FALSE
