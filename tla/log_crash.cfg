SPECIFICATION FairSpec
CONSTANTS
  Proc = {p, q}
  Block = {a, b}
  Value = {0, 1}
  LOGSIZE = 5
  MAXOPBLOCKS = 2
  NLOG = 5
  OpBlocks = 2
  OpWrites = 2
  None = None
INVARIANTS QuietMeansDurable LoggedIsPinned
PROPERTIES ImplementsAtomicDisk SleepersWake CommitsEnd
