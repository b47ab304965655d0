SPECIFICATION Spec
CONSTANTS
  Hashes <- SomeHashes
  Readers = {r1}
  READDIR_END = 99
  MaxWatched = 5
  Null = Null
INVARIANTS
  RedBlack
  SearchTree
PROPERTY
  ScanComplete
