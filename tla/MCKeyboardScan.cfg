CONSTANTS
  Rows = {0, 1}
  Cols = {0, 1, 2}
  KeyMask <- AllKeys
  TIMEOUT_POLLS = 2
  KeysChangeInWindow = FALSE
SPECIFICATION Spec
INVARIANT TypeOK
INVARIANT SleepsOnlyWhenReleased
PROPERTY KeyChangesReported
