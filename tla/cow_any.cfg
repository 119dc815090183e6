SPECIFICATION FairSpec
CONSTANTS
  NPROC = 2
  Page = {1,2,3,4,5,6,7,8,9}
  NVa = 4
  NPTE = 2
  NTLB = 1
  NKPDE = 1
  Val = {"a"}
  Calls = {"fork", "exit", "sbrk", "exec", "sbrk_all", "stray"}
  Pick <- LowestFree
  None = None
INVARIANT NothingLeaks
PROPERTY KernelPathsEnd
