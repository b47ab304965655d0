SPECIFICATION Spec
CONSTANTS
  i0 = i0
  i1 = i1
  i2 = i2
  i3 = i3
  s1 = s1
  s2 = s2
  s3 = s3
  s4 = s4
  s5 = s5
  Threads = {t1, t2, t3}
  Inodes = {i0, i1, i2, i3}
  Root = i0
  Dirents = {s1, s2, s3, s4, s5}
  Null = Null
  Boot = Boot
  Images <- MCImages
  ByteOf <- OwnByte
  Garbage = {0}
CHECK_DEADLOCK FALSE
INVARIANTS NoEarlyExit  
PROPERTY Termination
