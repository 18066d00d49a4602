SPECIFICATION RtldSpec
CONSTANTS
  ArgKind <- Kinds
  PhdrsAt <- Mapped
  PhdrSize = 56
  RtldDynamic = 520
  RtldBias = 503
  ExecPhdr = 701
  ExecPhent = 56
  ExecPhnum = 4
  ExecEntry = 702
  MaxArgs = 4
  MaxEnv = 1
  W = 5
  Size = 2
  RelaSize = 3
  ImageWords = 10
  MaxDyn = 9
  MaxPhdrs = 5
  MaxLoads = 2
  MaxNeeded = 2
  MaxEntries = 5
  Start <- Starts
CHECK_DEADLOCK FALSE
INVARIANTS StackAsExec ExitJustified RelocatedOnce RefusedIffUnfit Inspected
PROPERTY Ends
