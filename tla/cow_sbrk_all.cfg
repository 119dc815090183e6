SPECIFICATION Spec
CONSTANTS
  NPROC = 2
  Page = {1,2,3,4,5,6,7,8,9,10,11,12}
  NVa = 3
  NPTE = 2
  NTLB = 1
  NKPDE = 1
  Val = {"a"}
  Calls = {"fork", "sbrk", "sbrk_all"}
  Pick <- LowestFree
  None = None
INVARIANT ForkFindsEveryPage
