SPECIFICATION Spec
CONSTANTS
  a = a
  b = b
  END = END
  START = START
  EmptyName = EmptyName
  RouteError = RouteError
  RouterFunc <- MCRouterFunc
  Channel = {ch}
  Scalar = {}
  Name = {a, b}
  Mappings <- MCMappings
  Router = {r}
  MaxCalls = 5
  ReuseBuilder = FALSE
INVARIANTS
  CompiledWellFormed
  DescriptionMatchesRouting
CHECK_DEADLOCK FALSE
