SPECIFICATION ReadSpec
CONSTANTS
  main = main  libA = libA  libB = libB  libC = libC  libD = libD  libE = libE
  iMain = iMain  iA = iA  iB = iB  iC = iC  iD = iD  iE = iE
  m0 = m0
  Key = {main, libA, libB, libC, libD}
  Inode = {iMain, iA, iB, iC}
  Module = {m0, m1, m2, m3}
  NoKey = NoKey  NoInode = NoInode  NoModule = NoModule
  NoThread = NoThread  NoHandle = NoHandle
  Pinned = {libA}
  Compat <- CompatAliases
  CounterMod = 4
  Thread = {t1, t2}
  Handle = {h1, h2}
  Request <- CompatRequest
  Needed <- CompatNeeded
  Find <- PlainFind
  Unreadable = {iB}
  Faulty = {iA, iC}
  Host = {main}
  HostModule <- HostModule0
  HostFile <- HostFile0
  Main = main
INVARIANTS NamesResolve CountersBalance WalkTrue
PROPERTIES Returns VersionedListing
