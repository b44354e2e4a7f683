CONSTANTS
  t1 = t1
  t2 = t2
  Tasks = {t1}
  Preemptive = FALSE
  Msgs <- TaskMsgs
  Priority <- TaskPriority
  MaxPuts = 2
  MaxRx = 1
  TX_BUF_SIZE = 4
  FIFO_DEPTH = 2
  TX_TRIGGER = 1
SPECIFICATION Spec
INVARIANT TypeOK
INVARIANT CrBeforeLf
PROPERTY WritesReachWire
PROPERTY FlushedOutputSent
