CONSTANTS
  RX_BUF_SIZE = 4
  RX_LINE_SIZE = 2
  HISTORY_SIZE = 2
  Keys <- EditKeys
  TypeAhead = FALSE
  MaxOwed = 1
  TERM_WIDTH = 5
  CommandTable <- ConsoleCommands
  DispatchLines <- DispatchSamples
SPECIFICATION Spec
INVARIANT LineWithinBuffer
