SPECIFICATION Spec
CONSTANTS
  s1 = s1
  s2 = s2
  t1 = t1
  t2 = t2
  Server = {s1, s2}
  Loaded <- BothLoaded
  Offers <- MCOffers
  ToolName = {t1, t2, made_up}
  HasSystem = TRUE
  maxToolTurns = 2
  MaxCalls = 2
  MaxAttempts = 2
INVARIANTS
  WellFormedConversation
  UsedInOrder
  EffectsAreCalled
CHECK_DEADLOCK FALSE
