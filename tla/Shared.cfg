SPECIFICATION Spec
CONSTANTS
  main = main  libA = libA  libB = libB  libC = libC  libD = libD  libE = libE
  iMain = iMain  iA = iA  iB = iB  iC = iC  iD = iD  iE = iE
  m0 = m0
  Key = {main, libA, libB, libC, libD}
  Inode = {iMain, iA, iB, iD}
  Module = {m0, m1, m2, m3, m4, m5, m6}
  NoKey = NoKey  NoInode = NoInode  NoModule = NoModule
  NoThread = NoThread  NoHandle = NoHandle
  Pinned = {}
  Compat <- NoCompat
  CounterMod = 1
  Thread = {t1, t2}
  Handle = {h1, h2}
  Request <- SharedRequest
  Needed <- SharedNeeded
  Find <- SharedFind
  Unreadable = {}
  Faulty = {iA, iB}
  Host = {main}
  HostModule <- HostModule0
  HostFile <- HostFile0
  Main = main
SYMMETRY Symmetry
INVARIANTS TypeOK PendingOwned OneEntryPerFile HandlesResident DepsResident GlobalScope RemoveConsistent NeverAlreadyRegistered
PROPERTY FlagsHonoured
