SPECIFICATION Spec
CONSTANTS
  Threads = {t1, t2}
  Addrs = {a1, a2}
  Vals = {v1, v2}
  JSIZE = 5
  Sizes <- SomeSizes
  MAX_GEN_ID = 3
  Cleaner = cleaner
  None = none
SYMMETRY Alike
CONSTRAINT NoGap
 
PROPERTY RecoveryShrinks
