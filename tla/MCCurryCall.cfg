SPECIFICATION CallSpec
CONSTANTS
  small = small
  large = large
  Values = {small, large}
  param = large
  func = small
  Low <- MCLow
CHECK_DEADLOCK FALSE
INVARIANT FirstArguments
