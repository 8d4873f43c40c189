SPECIFICATION Spec
CONSTANTS
  Committers = {c1}
  Revokers = {r1}
  MaxCommits = 2
PROPERTY RevocationAborts
CHECK_DEADLOCK FALSE
