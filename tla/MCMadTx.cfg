SPECIFICATION Spec
CONSTANTS
  Threads = {t1, t2}
  BLOCK_SIZE = 2
  NUM_INLINE_TX_ENTRY = 2
  NUM_TX_ENTRY = 2
  BITMAP_CAPACITY = 4
  Groups = 4
  Calls <- SomeCalls
  MaxWrites = 3
  None = None
SYMMETRY Alike
CONSTRAINT NoGap
INVARIANTS  TableFollowsLog
 
