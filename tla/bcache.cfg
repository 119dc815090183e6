SPECIFICATION Spec
CONSTANTS
  Proc = {p, q}
  Buf = {b1, b2, b3}
  Block = {k, l, m, n}
  Value = {0, 1}
  MaxPinned = 1
  None = None
INVARIANTS CountedWhileUsed NobodySleepsInVain
PROPERTY ImplementsBlockStore
SYMMETRY Alike
