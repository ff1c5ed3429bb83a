SPECIFICATION ReplicaSpec
CONSTANTS
  r1 = r1
  r2 = r2
  none = none
  null = null
  Processes <- MCProcesses
  NoReplica = none
  Repeatable = {"a", "c"}
  Null = null
  PublicIds <- MCPublicIds
  Tokens <- MCTokens
  QueryTexts <- MCQueryTexts
  Normal <- MCNormal
  StartsWith <- MCStartsWith
  Within <- MCWithin
  Rank <- MCRank
  PrivateTexts = {"/home/x"}
  ScopedNotes = {"scoped"}
  Files <- MCFiles
  Plans <- MCPlans
INVARIANTS
  NoDefaultForTheDisputed
  ClientsSeeOneRelease
  SchemaIsWhole
PROPERTIES
  FittingBecomesReady
CHECK_DEADLOCK FALSE
