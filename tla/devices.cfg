SPECIFICATION Spec

CONSTANTS
  Drivers = {"nvme", "ahci", "ata", "usb", "hid"}
  Late = {"nvme", "ahci", "ata"}
  Callers = {"shell"}
  Lbas = {0, 2, 3}
  Cap = 3
  Lba28Max = 1
  Vals = {"a", "b"}
  MaxCalls = 3
  MaxFaults = 2
  Depth = 2
  CidMod = 16
  Buses <- MCBuses
  MaxPorts = 3
  MaxDev = 2
  RingSize = 3
  Codes = {"x", "y"}
  MaxKeys = 2
  MaxButtons = 1
  MaxResends = 1

INVARIANT SuccessMeansDone
INVARIANT InStep
INVARIANT EntriesAnswer
INVARIANT InputArrives

PROPERTY CallReturns

\* A history has MaxCalls calls.
CHECK_DEADLOCK FALSE
