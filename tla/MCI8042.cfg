CONSTANTS
  DataBytes <- DataWithSetRep
  ArgBytes <- ArgSets
  CmdBytes <- CmdAll
  KeyCells <- Cells
  ConsoleSets = {1, 2, 3}
  MAX_SCAN_CODE_LEN = 4
SPECIFICATION Spec
INVARIANT TypeOK
INVARIANT OutputWithinBound
INVARIANT IrqFollowsEnirq1
INVARIANT KeyEventTranslated
