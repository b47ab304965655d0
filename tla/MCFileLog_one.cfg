SPECIFICATION Spec
CONSTANTS
  Threads = {t1}
  Files = {f1}
  Slots = {s1, s2, s3, s4, s5}
  Null = Null
  NB = 2
  DB = 4
  MaxWrites = 5
  PAGE_SIZE = 100
  PM_CACHELINE_SIZE = 2
  WORD = 32
  MayRelease = TRUE
SYMMETRY SlotSymmetry
CHECK_DEADLOCK FALSE
INVARIANTS RefExact BlocksExact  
