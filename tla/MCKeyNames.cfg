CONSTANTS
  Syms <- MCSyms
  BuiltIn <- MCBuiltIn
  NewNames <- MCNewNames
  NoName = NoName
  Char <- MCChar
  Lower <- MCLower
  Capital <- MCCapital
  Formats <- MCFormats
  TextKeys <- MCTextKeys
  Events <- MCEvents
  MaxRegistered = 2
SPECIFICATION Spec
INVARIANTS RoundTrip ComparesEvents
