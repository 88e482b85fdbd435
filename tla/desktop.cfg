SPECIFICATION Spec

CONSTANTS
  MaxWindows = 2
  Apps = {"terminal", "settings", "sysinfo"}
  Icons = {"game"}
  MaxDepth = 1

INVARIANT FocusAgrees
INVARIANT OnePerApp
INVARIANT ScreenCurrent
