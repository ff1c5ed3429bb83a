SPECIFICATION Spec
CONSTANTS
  c1 = c1
  c2 = c2
  c3 = c3
  r1 = r1
  r2 = r2
  Calls <- MCCalls
  Replicas <- MCReplicas
  MemoryCap = 1
SYMMETRY MCSymmetry
INVARIANTS
  SuccessIsDurable
  OneVerdict
CHECK_DEADLOCK FALSE
