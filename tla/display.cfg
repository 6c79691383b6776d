SPECIFICATION Spec
CONSTANTS
  None = None
  Terminals <- SmallAndLarge
  MaxCards = 9
  MaxArchived = 2
  MaxRows = 6
  Texts = {10, 60}
  Height = 2
  MaxLines = 4
  MaxQueue = 2
  Step = 1
  Sizes <- RowOrColumn
  Glyphs <- Cells
  Outputs <- PairsOfFragments
  MaxStack = 2
  MaxPartial = 7
  Palettes = {"dark"}
  Columns = {0, 256}
INVARIANTS
  InputIsUnderstood
  ScreensAreOfOneState
  OutputIsUnderstood
CHECK_DEADLOCK FALSE
