SPECIFICATION Spec
CONSTANTS
  MaximumInputTokens <- MCMaximumInputTokens
  Requests <- MCRequests
  Engines <- MCEngines
INVARIANTS
  TypeOK
  BranchesAreIsolated
  DoubtfulIsReviewed
PROPERTIES
  ScoresLikeReference
  EveryCallEnds
