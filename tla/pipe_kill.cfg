SPECIFICATION FairSpec
CONSTANTS
  Proc = {p, q}
  None = None
  Byte = {0, 1}
  PIPESIZE = 2
  WORD = 4
  MaxN = 3
  MaxCalls = 4
  Killable = {p, q}
INVARIANT WritersAwaited
PROPERTIES ImplementsByteQueue CallsEnd
CHECK_DEADLOCK FALSE
