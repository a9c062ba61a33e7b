SPECIFICATION FairGateSpec
CONSTANTS
  k1 = k1
  read = read
  write = write
  NoToken = NoToken
  NoVerifier = NoVerifier
  Custom = Custom
  Supplied = {v3}
  Verifiers = {v1, v2, v3}
  Proc = {p1, p2}
  Kid = {k1}
  Token <- Tokens
  Interval = 1
  Spellings = {"scp", "scope", "scopes"}
  Precedes <- Order
  Required = {read}
  RequireAuth = TRUE
INVARIANTS
  OneVerifier
  NotConfiguredIsCurrent
  AnswersFit
PROPERTIES
  RequestsAnswered
CHECK_DEADLOCK FALSE
