SPECIFICATION Spec

CONSTANTS
  PoolPages = 10
  Firmware <- Map
  MaxProcs = 2
  VaPages = 4
  StackPages = 1
  Images <- Aligned

INVARIANT PagesAccounted
INVARIANT MapsOwnPages

PROPERTY ImplementsOwnership
