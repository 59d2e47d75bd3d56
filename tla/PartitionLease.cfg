CONSTANTS
  a = a
  b = b
  Pod <- MCPods
  Caller = {"w"}
  NoPod = NoPod
  Ttl = 1
  Stall = 1
  MaxTime = 2
  MaxVersion = 3
  MaxTokens = 1
  MaxCalls = 2
  MaxRestarts = 1
SPECIFICATION Spec
SYMMETRY MCSymmetry
CHECK_DEADLOCK FALSE
INVARIANTS
  TypeOK
  TakeoverBumps
  EpochOfOnePod
  OwnershipCommitted
PROPERTIES
  DisplacedPodStops
