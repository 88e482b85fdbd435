SPECIFICATION FairSpec

CONSTANTS
  MaxTasks = 3
  Timeslice = 2
  Wrap = 8
  MaxPid = 2
  Timeouts = {0, 2}
  FdKinds <- NoFds
  KernelOps = {"exec"}
  UserOps = {"wait", "poll", "sleep", "fork", "exit"}

INVARIANT OwnContext
INVARIANT NoMissedExit

PROPERTY ReadyRuns
PROPERTY ExitCollected
PROPERTY DeadlineWakes
