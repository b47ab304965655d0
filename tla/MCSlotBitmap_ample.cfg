SPECIFICATION Spec
CONSTANTS
  Threads = {t1, t2, t3}
  MAP_NUM = 1
  BIT_NUM = 6
  Reserved = {0, 1}
  SIZE_MAX = 8
  Ample = TRUE
  MayFree = TRUE
INVARIANT BitmapExact
PROPERTY PromiseKept
