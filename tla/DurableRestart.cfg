SPECIFICATION KilledSpec
CONSTANTS
  plan = plan
  act = act
  m1 = m1
  m2 = m2
  END = END
  RouteError = RouteError
  NoId = NoId
  Channel <- MCChannel
  Scalar <- MCScalar
  RouterFunc <- MCRouterFunc
  Graph <- MCGraph
  NodeOutputs <- MCNodeOutputs
  Inputs <- MCInputs
  DefaultMaxSteps = 5
  MaxIterations = 0
  MaxStepsOpts = {2}
  Process = {p1}
  Invocation = {c1}
  InstanceId = {i1}
  MaxAttempts = 1
  MaxStops = 1
INVARIANTS
  NoSpuriousFailure
CHECK_DEADLOCK FALSE
