SPECIFICATION Spec
CONSTANTS
  t1 = t1
  t2 = t2
  root = root
  dir = dir
  a = a
  b = b
  Threads = {t1, t2}
  Dirs = {root, dir}
  Root = root
  Files = {i1, i2}
  Objs = {o1, o2}
  Owner <- OneOwner
  Renames <- MovesUp
  JOURNAL_NUM = 2
  Null = Null
INVARIANTS NamesLive    LocksReturned
PROPERTIES NameKept 
