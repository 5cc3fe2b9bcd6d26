SPECIFICATION StringSpec
CONSTANTS
  narrow = narrow
  wide = wide
  r1 = r1
  r2 = r2
  Ropes <- MCRopes
  Chars <- MCChars
  Size <- MCSize
  Bad = Bad
  NoRope = NoRope
  NoText = NoText
  FreeBlock = FreeBlock
  MaxChars = 4
  MaxInsert = 2
  Texts <- MCTexts
  Blocks = {1, 2, 3, 4, 5, 6, 7, 8}
  ROPE_NODE_STR_SIZE = 3
  ROPE_MAX_HEIGHT = 3
CONSTRAINT Bounds
INVARIANTS TypeOK RopeCheck OneOwner
PROPERTIES IsText SetReplaces
