SPECIFICATION CandidateSpec
CONSTANTS
  Kinds <- MCKinds
  Budgets <- MCBudgets
  MaxMishaps = 1
  Files <- MCFiles
  Artifacts <- MCArtifacts
  Trainable <- MCTrainable
  Workload <- MCWorkload
  Questions <- MCQuestions
  MaxInputTokens = 5
  MaxSamples = 0
  Epochs = 2
  Accumulation = 2
  Configs <- MCConfigs
  Targeted <- MCTargeted
  Regression <- MCRegression
  Comparisons <- MCComparisons
  Reserved <- MCReserved
  MaximumReserved = 2
  Selections <- MCSelections
  GroupOf <- MCGroupOf
  Calibrations <- MCCalibrations
  ProfileFiles <- MCProfileFiles
  ProfileIds = {"p1", "p2"}
  Provided <- MCProvided
INVARIANTS
  CandidateTypeOK
  StepsAreWhole
  LossesStayInWindow
  AdapterIsWhole
  EquivalenceIsEarned
  ComparisonIsPaired
  CheckedEvidenceIsCurrent
  VerifiedReleaseIsServed
CHECK_DEADLOCK FALSE
