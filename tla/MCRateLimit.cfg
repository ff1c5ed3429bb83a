SPECIFICATION Spec
CONSTANTS
  q1 = q1
  q2 = q2
  q3 = q3
  r1 = r1
  r2 = r2
  NoOne = NoOne
  Requests <- MCRequests
  Replicas <- MCReplicas
  MaxEvents = 1
  Window = 4
  Timeout = 1
  Cooldown = 3
  Skew = 1
  Horizon = 4
SYMMETRY MCSymmetry
INVARIANTS
  LimitsHold
  NoReconnectStorm
CHECK_DEADLOCK FALSE
