SPECIFICATION LoopSpec
CONSTANTS
  e1 = e1
  e2 = e2
  e3 = e3
  q1 = q1
  q2 = q2
  c1 = c1
  c2 = c2
  NoReport = NoReport
  Idle = Idle
  NoArtifact = NoArtifact
  NoCheck = NoCheck
  Dataset <- MCDataset
  Questions <- MCQuestions
  Selections <- MCSelections
  Configs = {c1, c2}
  Correct <- MCCorrect
  Accepted <- MCAccepted
  Breach <- MCBreach
  Near <- MCNear
  Dropped <- MCDropped
  AuditLimit = 2
  MinControl = 2
  DisputePercent = 50
  MaxStarts = 3
  MaxMishaps = 2
  MaxUpgrades = 1
  MaxReviews = 1
INVARIANTS
  LoopTypeOK
  EachDecisionOnce
  ReportDescribesFile
  OnlyErrorsAreQuarantined
PROPERTIES
  LosesOneRow
CHECK_DEADLOCK FALSE
