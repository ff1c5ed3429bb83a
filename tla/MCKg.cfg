SPECIFICATION KgFairSpec
CONSTANTS
  k1 = k1
  k2 = k2
  p = p
  x = x
  y = y
  Callers <- MCCallers
  Proxies <- MCProxies
  Plans <- MCPlans
  Keys <- MCKeys
  MaxEntries = 1
  URIs = 2
  None = None
  Live = Live
  Snapshot = Snapshot
INVARIANTS
  OneProducer
PROPERTIES
  WriteIsApplied
  EveryGetReturns
  Recovers
