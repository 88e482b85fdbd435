SPECIFICATION Spec

CONSTANTS
  MaxTasks = 3
  Timeslice = 2
  Wrap = 8
  MaxPid = 3
  Timeouts = {0, 1}
  FdKinds <- NoFds
  KernelOps = {"exec", "sleep"}
  UserOps = {"sleep", "exit"}

INVARIANT NoLostSleeper
