SPECIFICATION TermSpec
CONSTANTS
  Host = "host"
  Windows = {1, 2, 3}
  Does = {}
INVARIANTS TerminalRestored SizeKnown NoCrash
