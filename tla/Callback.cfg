SPECIFICATION ReentrantSpec
CONSTANTS
  main = main  libA = libA  libB = libB  libC = libC  libD = libD  libE = libE
  iMain = iMain  iA = iA  iB = iB  iC = iC  iD = iD  iE = iE
  m0 = m0
  Key = {main, libA}
  Inode = {iMain, iA}
  Module = {m0, m1, m2}
  NoKey = NoKey  NoInode = NoInode  NoModule = NoModule
  NoThread = NoThread  NoHandle = NoHandle
  Pinned = {}
  Compat <- NoCompat
  CounterMod = 1
  Thread = {t1}
  Handle = {h1, h2}
  Request <- SingleRequest
  Needed <- SingleNeeded
  Find <- PlainFind
  Unreadable = {}
  Faulty = {}
  Host = {main}
  HostModule <- HostModule0
  HostFile <- HostFile0
  Main = main
PROPERTY WalkReturns
CHECK_DEADLOCK FALSE
