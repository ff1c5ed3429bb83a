SPECIFICATION RegistrySpec
CONSTANTS
  o1 = o1
  o2 = o2
  null = null
  Null = null
  Operators <- MCOperators
  Order <- MCOrder
  Category <- MCCategory
  Plans <- MCPlans
INVARIANTS
  EditsSurvive
PROPERTIES
  ReadersCatchUp
CHECK_DEADLOCK FALSE
