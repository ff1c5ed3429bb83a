SPECIFICATION Spec
CONSTANTS
  Anything = Anything
  None = None
  Ontology <- MCOntology
  Rules <- MCRules
  Events <- MCEvents
  MaxEvents = 4
INVARIANTS
  SettledIsFinal
  CollapseIsTheRule
CHECK_DEADLOCK FALSE
