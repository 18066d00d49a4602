SPECIFICATION Spec
CONSTANTS
  Info <- Segments
  ArenaSize = 11
  TcbAlign = 1
  WordAlign = 2
  MaxModules = 3
  Storage = {s1, s2}
SYMMETRY Symmetry
INVARIANTS TypeOK BlocksDisjoint StorageHoldsImages StrayOnlyIfLate FreedOnce
