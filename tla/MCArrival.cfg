SPECIFICATION BuildSpec
CONSTANTS
  Anything = Anything
  None = None
  Ontology = None
  Specs <- MCSpecs
  Facts <- MCFacts
  Emitted <- MCEmitted
  Reports <- MCReports
  Retries = 2
  MaxEdits = 2
INVARIANTS
  GreenIsBacked
  OutageIsNoMiss
  WeakeningIsSeen
CHECK_DEADLOCK FALSE
