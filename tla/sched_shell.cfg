SPECIFICATION CalmSpec

CONSTANTS
  MaxTasks = 3
  Timeslice = 1
  Wrap = 4
  MaxPid = 3
  Timeouts = {0}
  FdKinds <- FilePipeFile
  KernelOps = {"create", "yield", "exit", "exec", "poll", "sleep"}
  UserOps = {"poll", "fork", "open", "exit"}

INVARIANT NoFdLeak

PROPERTY OnlyZombiesFreed

VIEW NoClock

\* A dispatch without a frame stops the machine; see the README.
CHECK_DEADLOCK FALSE
