SPECIFICATION FairSpec
CONSTANTS
  plan = plan
  act = act
  m1 = m1
  m2 = m2
  END = END
  RouteError = RouteError
  NoId = NoId
  Channel <- MCChannel
  Scalar <- MCScalar
  RouterFunc <- MCRouterFunc
  Graph <- MCGraph
  NodeOutputs <- MCNodeOutputs
  Inputs <- MCInputs
  DefaultMaxSteps = 3
  MaxIterations = 0
  MaxStepsOpts = {0, 2}
  Process = {p1, p2}
  Invocation = {c1, c2}
  InstanceId = {i1}
  MaxAttempts = 2
  MaxStops = 1
INVARIANTS
  CheckpointsChain
  ReplayMatches
  ResumesAtFrontier
  OneDriver
  ExecutionBudget
  EndJustified
  AnswerIsFinal
PROPERTIES
  ImplementsAgentRun
  RunsTerminate
  CallsReturn
CHECK_DEADLOCK FALSE
