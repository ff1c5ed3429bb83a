SPECIFICATION ReadsSpec
CONSTANTS
  a1 = a1
  a2 = a2
  i1 = i1
  i2 = i2
  i3 = i3
  k1 = k1
  k2 = k2
  r1 = r1
  s1 = s1
  s2 = s2
  t1 = t1
  t2 = t2
  Keys <- MCKeys
  CommandIds <- MCCommandIds
  Actors = {a1, a2}
  Slugs = {s1, s2}
  Titles <- MCTitles
  Texts = {x1}
  Notes = {n1}
  None = None
  Callers <- MCCallers
  Principals <- MCPrincipals
  Readers = {r1}
  Plans <- MCPlans
SYMMETRY MCSymmetry
INVARIANTS
  EditKeepsTitle
  AnswersTheRequest
  WalksMissNothing
PROPERTY
  NothingHiddenIsShown
CHECK_DEADLOCK FALSE
