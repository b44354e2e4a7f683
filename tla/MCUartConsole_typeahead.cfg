CONSTANTS
  RX_BUF_SIZE = 4
  RX_LINE_SIZE = 3
  HISTORY_SIZE = 2
  Keys <- TypeAheadKeys
  TypeAhead = TRUE
  MaxOwed = 2
  TERM_WIDTH = 6
  CommandTable <- ConsoleCommands
  DispatchLines <- DispatchSamples
SPECIFICATION Spec
CONSTRAINT LineWithinBuffer
PROPERTY LinesDispatched
