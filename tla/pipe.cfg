SPECIFICATION MCSpec

CONSTANTS
  procA = procA
  procB = procB
  MaxPipes = 1
  BufSize = 2
  RefMax = 65535
  MaxFds = 2
  Procs <- Two
  Bytes = {0, 1}
  MaxLen = 2
  MaxForgotten = 1
  PoolUnits = 5
  Word = 1024
  Tasks <- Two
  MaxOpen = 1
  MaxFile = 2
  Grain = 12
  Names = {"f"}
  OpenFlags <- MCFlags
  MaxCount = 2
  Requests = {28, 1008}

INVARIANT RefsMatch
INVARIANT NobodySleepsInVain
INVARIANT HeapSound
INVARIANT BuffersOwned
INVARIANT NothingStale

PROPERTY ImplementsStream
PROPERTY FilesKept

SYMMETRY Perms
VIEW MCView

\* A process may wait for an end that only it holds.
CHECK_DEADLOCK FALSE
