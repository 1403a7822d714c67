SPECIFICATION Spec
CONSTANTS
  e1 = e1
  e2 = e2
  e3 = e3
  q1 = q1
  q2 = q2
  w1 = w1
  w2 = w2
  support = support
  c1 = c1
  c2 = c2
  c3 = c3
  NoProfile = NoProfile
  Runs = {r1}
  Dataset <- MCDataset
  Questions <- MCQuestions
  WorkloadOf <- MCWorkloadOf
  Workloads = {w1, w2}
  SupportRouting = support
  Configs = {c1, c2}
  BackboneOf <- MCBackboneOf
  MinAccepted = 2
  FreshCache = FALSE
  MaxStarts = 3
  MaxMishaps = 0
  MaxUpgrades = 1
SYMMETRY Symmetry
INVARIANTS
  EvidenceFromServedModel
CHECK_DEADLOCK FALSE
