SPECIFICATION Spec

CONSTANTS
  MaxSocks = 2
  Procs = {"a", "b"}
  Clients = {"c"}
  Servers = {"s"}
  PeerIsn <- MCPeerIsn
  PeerLen <- MCPeerLen
  SendMax = 2
  Isn0 = 15
  SeqMod = 16
  RxBuf = 3
  RtxBuf = 2
  OooBuf = 2
  RtxMax = 1
  MaxOpens = 2

INVARIANT StreamIn
INVARIANT FinMeansAll
INVARIANT StreamOut
INVARIANT ParentListens

PROPERTY Settles

\* A behaviour opens at most MaxOpens sockets.
CHECK_DEADLOCK FALSE
