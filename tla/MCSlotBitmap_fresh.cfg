SPECIFICATION Spec
CONSTANTS
  Threads = {t1, t2}
  MAP_NUM = 2
  BIT_NUM = 3
  Reserved = {0}
  SIZE_MAX = 8
  Ample = FALSE
  MayFree = FALSE
INVARIANT NoDoubleAlloc
PROPERTY GivesUpOnlyWhenFull
