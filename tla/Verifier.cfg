SPECIFICATION FairSpec
CONSTANTS
  k1 = k1
  k2 = k2
  Verifiers = {v}
  Proc = {p1, p2}
  Kid = {k1, k2}
  Token <- Tokens
  Interval = 2
INVARIANTS
  NoStrayRefresher
  ClosedFailsClosed
  TokenFaultsOnly
PROPERTIES
  ForcedRefreshesSpaced
  RotationPickedUp
CHECK_DEADLOCK FALSE
