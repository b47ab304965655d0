SPECIFICATION Spec
CONSTANTS
  Dirs = {root, d1}
  Root = root
  Slots = {s1, s2, s3, s4, s5}
  Null = Null
  Names = {a, b}
  Inos = {i1}
  NoName = NoName
  NoIno = NoIno
SYMMETRY SlotSymmetry
INVARIANTS ChainIntact LogsDisjoint UsedExact
PROPERTY CommittedStays
