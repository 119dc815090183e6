SPECIFICATION Spec
CONSTANTS
  NPROC = 2
  Page = {1,2,3,4,5,6,7,8,9,10,11}
  NVa = 4
  NPTE = 4
  NTLB = 1
  NKPDE = 1
  Val = {"a"}
  Calls = {"fork", "exit", "exec"}
  Pick <- LowestFree
  None = None
INVARIANTS RefCounted WritableIsExclusive TlbCoherent AssertionsHold
PROPERTY ImplementsPrivateMem
