SPECIFICATION Spec
CONSTANTS
  Proc = {p, q}
  Inum = {1, 2, 3}
  doc = doc
  sub = sub
  Name = {doc, sub}
  MaxLinks = 2
  File = {f}
  Fd = {fd1, fd2}
  Calls <- CallsDir
  None = None
INVARIANTS RefsCountPointers NotFreedInUse NamesCounted AssertionsHold
SYMMETRY AlikeProc
CHECK_DEADLOCK FALSE
