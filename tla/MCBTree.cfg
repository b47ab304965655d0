SPECIFICATION Spec
CONSTANTS
  BRANCH_NUM = 2
  MAX_LEVELS = 3
  Arenas <- SmallAndLarge
  n1 = n1
  n2 = n2
  n3 = n3
  n4 = n4
  n5 = n5
  Vals = {e1, e2}
  MaxKey = 4
  Null = Null
SYMMETRY Entries
CHECK_DEADLOCK FALSE
INVARIANTS
  NodesExact
  HintRight
PROPERTIES
  IsMap
