SPECIFICATION Spec
CONSTANTS
  Presses <- Usual
  EditsInside = FALSE
  frl_prompt_len = 5
  Junk = Junk
  MaxInput = 6
INVARIANTS CountersRight
PROPERTIES EditsText OnlyControlFinishes
CHECK_DEADLOCK FALSE
