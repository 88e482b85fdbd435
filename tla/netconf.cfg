SPECIFICATION Spec

CONSTANTS
  Shell = "sh"
  Procs = {"a"}
  Hosts = {"g", "f"}
  OnLink = {"g"}
  Gateway = "g"
  ArpSlots = 1
  DhcpServers = {"p", "q"}
  Grant <- MCGrant
  Lease <- MCLease
  DnsOf <- MCDns
  Letters = {"x", "y", "z"}
  Names <- MCNames
  Ttl <- MCTtl
  CacheSlots = 1
  Attempts = 2
  Wrap = 32
  Start = 27
  MaxTicks = 9
  Scripts <- MCScripts

INVARIANT LeaseExpires
INVARIANT LeaseIsOneAnswer
INVARIANT AnswerIsForName
INVARIANT PingMeansReply

PROPERTY Returns

\* A behaviour has MaxTicks ticks and ends with its script.
CHECK_DEADLOCK FALSE
