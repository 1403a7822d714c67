SPECIFICATION Spec
CONSTANTS
  Pinned <- MCPinned
  Primitives <- MCPrimitives
  Sources <- MCSources
  Grams <- MCGrams
  Inputs <- MCInputs
  Seeds = {0, 1}
  BuildSeed = 0
  ThresholdNum = 3
  ThresholdDen = 5
  None = None
  Nothing = Nothing
  Bucket <- MCBucket
  RequiredPrimitives = {"boolean", "choice"}
  MinimumDecisions = 2
  MaxBuilds = 2
  MaxMishaps = 1
INVARIANTS
  TypeOK
  DuplicatesAreExact
  SplitsDoNotLeak
  BuiltSuiteIsUsable
CHECK_DEADLOCK FALSE
