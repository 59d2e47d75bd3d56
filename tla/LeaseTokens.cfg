CONSTANTS
  a = a
  b = b
  Pod <- MCOnePod
  Caller = {"w"}
  NoPod = NoPod
  Ttl = 2
  Stall = 1
  MaxTime = 1
  MaxVersion = 6
  MaxTokens = 2
  MaxCalls = 2
  MaxRestarts = 1
SPECIFICATION Spec
CHECK_DEADLOCK FALSE
INVARIANT TokensUnique
