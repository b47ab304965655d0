SPECIFICATION FairSpec
CONSTANTS
  Threads = {t1, t2, t3}
  Ranges <- AllRanges
  RLOCK_NUM = 2
  None = None
INVARIANT
  TableExact
PROPERTIES
  Excludes
  KeptOnlyByConflict
