SPECIFICATION RegistrySpec
CONSTANTS
  a = a
  b = b
  x = x
  y = y
  Name = {a, b}
  Op = {x, y}
  Calls <- FirstAgents
  InitialIndex <- NoIndex
  IndexExists = FALSE
  maxETagAttempts = 3
  StoreFails = FALSE
INVARIANTS
  SuccessIsVisible
CHECK_DEADLOCK FALSE
