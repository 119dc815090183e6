SPECIFICATION Spec
CONSTANTS
  NPROC = 4
  Cpu = {c1, c2}
  None = None
  MaxTicks = 1
  Killable = {1, 3}
  Strays = FALSE
INVARIANTS OnOneCpu ParentLives NobodyMissed
SYMMETRY AlikeCpu
