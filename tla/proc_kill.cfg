SPECIFICATION FairSpec
CONSTANTS
  NPROC = 3
  Cpu = {c1}
  None = None
  MaxTicks = 1
  Killable = {2}
  Strays = FALSE
PROPERTIES KilledExit WaitReturns
