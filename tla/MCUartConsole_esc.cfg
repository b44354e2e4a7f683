CONSTANTS
  RX_BUF_SIZE = 4
  RX_LINE_SIZE = 1
  HISTORY_SIZE = 2
  Keys <- EscKeys
  TypeAhead = FALSE
  MaxOwed = 1
  TERM_WIDTH = 4
  CommandTable <- ConsoleCommands
  DispatchLines <- DispatchSamples
SPECIFICATION Spec
INVARIANT TypeOK
INVARIANT DisplayInSyncUntilOverrun
