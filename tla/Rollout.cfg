SPECIFICATION FairSpec
CONSTANTS
  a = a
  b = b
  mid = mid
  v1 = v1
  v2 = v2
  v3 = v3
  p1 = p1
  p2 = p2
  w1 = w1
  w2 = w2
  w3 = w3
  END = END
  RouteError = RouteError
  None = None
  Channel <- MCChannel
  Scalar <- MCScalar
  RouterFunc <- MCRouterFunc
  Version = {v1, v2, v3}
  Program <- MCProgram
  Output <- MCOutput
  Input <- MCInput
  Process = {p1, p2}
  Worker = {w1, w2, w3}
  ProcessOf <- MCProcessOf
  Built <- MCBuilt
  InstanceId = {i1}
  Limit = 4
  MaxAttempts = 2
  MaxStops = 1
INVARIANTS
  OneVersionPerReplay
  AloneIsUndisturbed
PROPERTIES
  RunsTerminate
CHECK_DEADLOCK FALSE
