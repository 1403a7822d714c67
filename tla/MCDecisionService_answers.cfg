SPECIFICATION ServiceSpec
CONSTANTS
  c1 = c1
  c2 = c2
  c3 = c3
  Callers <- MCCallers
  MaximumQueueSize = 1
  MaximumInputTokens <- MCMaximumInputTokens
  Requests <- MCRequests
  Engines <- MCEngines
INVARIANTS
  OwnAnswers
PROPERTIES
  AnsweredOnce
  EveryPostAnswered
CHECK_DEADLOCK FALSE
