SPECIFICATION Spec
CONSTANTS
  plan = plan
  act = act
  m1 = m1
  m2 = m2
  END = END
  RouteError = RouteError
  Channel <- MCChannel
  Scalar <- MCScalar
  RouterFunc <- MCRouterFunc
  Graph <- MCGraph
  NodeOutputs <- MCNodeOutputs
  Inputs <- MCInputs
  MaxStepsOpts = {0, 1, 2, 4}
  DefaultMaxSteps = 6
  Run = {r1}
INVARIANTS
  SameAsDurable
PROPERTIES
  ImplementsAgentRun
CHECK_DEADLOCK FALSE
