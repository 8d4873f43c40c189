SPECIFICATION Spec
CONSTANTS
  None = None
  Sessions = {s1, s2}
  Ops = {"submit", "status", "inject", "trust"}
  Old = Old
  MaxChanges = 2
INVARIANT OnlyTrustedKeys
INVARIANT ToldTheTruth
INVARIANT InjectFresh
CHECK_DEADLOCK FALSE
SYMMETRY Symmetry
