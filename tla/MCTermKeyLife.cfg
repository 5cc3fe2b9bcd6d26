SPECIFICATION Spec
CONSTANTS
  Inst = {t1, t2}
  MaxTrouble = 1
  None = None
  Fds <- MCFds
  FlagSets <- MCFlagSets
INVARIANTS TypeOK TerminalRestored RawWhileStarted NothingLeaked NoCrash
SYMMETRY MCInstPermutations
CHECK_DEADLOCK FALSE
