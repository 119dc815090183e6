SPECIFICATION Spec
CONSTANTS
  Proc = {p, q, s}
  Block = {a, b, c}
  Value = {0}
  LOGSIZE = 3
  MAXOPBLOCKS = 1
  NLOG = 3
  OpBlocks = 1
  OpWrites = 1
  None = None
INVARIANT ReservationSuffices
SYMMETRY Alike
