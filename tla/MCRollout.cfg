SPECIFICATION FairSpec
CONSTANT
  N = 2
INVARIANTS
  PriorsKept
  OutcomeIsWhole
PROPERTIES
  BoundaryStaysClosed
  OrdersComplete
