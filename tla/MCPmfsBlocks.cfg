SPECIFICATION Spec
CONSTANTS
  N = 9
  R = 1
  BlockSizes <- SomeSizes
  PerBlock = 2
  MaxBatch = 2
  None = none
INVARIANTS ListExact MapExact
PROPERTY IsPool
