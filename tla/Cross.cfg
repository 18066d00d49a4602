SPECIFICATION FairSpec
CONSTANTS
  main = main  libA = libA  libB = libB  libC = libC  libD = libD  libE = libE
  iMain = iMain  iA = iA  iB = iB  iC = iC  iD = iD  iE = iE
  m0 = m0
  Key = {main, libA, libB, libC, libE}
  Inode = {iMain, iA, iB, iC, iE}
  Module = {m0, m1, m2, m3, m4}
  NoKey = NoKey  NoInode = NoInode  NoModule = NoModule
  NoThread = NoThread  NoHandle = NoHandle
  Pinned = {}
  Compat <- NoCompat
  CounterMod = 1
  Thread = {t1, t2}
  Handle = {h1, h2}
  Request <- CrossRequest
  Needed <- CrossNeeded
  Find <- PlainFind
  Unreadable = {}
  Faulty = {}
  Host = {main}
  HostModule <- HostModule0
  HostFile <- HostFile0
  Main = main
PROPERTY Returns
CHECK_DEADLOCK FALSE
