SPECIFICATION FairNewRunnerSpec
CONSTANTS
  a = a
  b = b
  c = c
  w = w
  x = x
  y = y
  z = z
  p1 = p1
  p2 = p2
  Name = {a, b, c}
  Op = {w, x, y, z}
  Calls <- Replicas
  InitialIndex <- BOnly
  IndexExists = TRUE
  maxETagAttempts = 2
  StoreFails = TRUE
  Process = {p1, p2}
  Environment <- MCEnvironment
  dimensionMaxLen = 4
  Config <- MCConfig
  ProcessOf <- MCProcessOf
  TheStore = "agent-registry"
  Fallback = "kvstore"
  EnvStore = Unset
  InSidecar = {"agent-registry", "kvstore"}
  Unset = Unset
INVARIANTS
  NoDuplicates
  SuccessIsVisible
  ConflictsArePaidFor
  OnlyWorkflowClientLeft
  UsageReportedOnce
PROPERTIES
  IndexMutationsSerialized
  NewRunnerReturns
CHECK_DEADLOCK FALSE
