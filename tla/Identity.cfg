SPECIFICATION MCSpec
CONSTANTS
  i1 = i1
  i2 = i2
  Issuer = {i1, i2}
  IssuerScheme <- SchemeOf
  IssuerLoopback <- LoopbackOf
  Audience = {aud}
  Schemes = {"https", "http", "bad"}
  Metadata <- Blocks
  Empty = Empty
  Host = {h1, h2}
  Port = {80, 443, 8080}
  Implied = Implied
  Caller = {alice}
  Nobody = Nobody
  Stale = Stale
  maxRedirectChainWalk = 3
  MaxHops = 4
INVARIANTS
  KeysBelongToIssuer
  FirstAnswerWins
  TokenStaysHome
  StaysIdentified
SYMMETRY HostSymmetry
CHECK_DEADLOCK FALSE
