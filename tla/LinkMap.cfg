SPECIFICATION Spec
CONSTANTS
  main = main
  libc = libc
  Thread = {t1, t2}
  NoThread = NoThread
  Node = {main, libc, n1, n2}
  Null = Null
  HostLists <- Lists
INVARIANTS ListWhole NoStrayAccess
PROPERTY ImplementsList
