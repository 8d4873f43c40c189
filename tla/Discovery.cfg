\* Two processes run calls of two profiles while the vaults change twice; or
\* the members change an entry and its grant twice around a request.
SPECIFICATION SpecOne
CONSTANTS
  Procs = {p1, p2}
  Profiles = {f1, f2}
  Entries = {e1}
  Calls = {c1, c2}
  Kinds = {"search", "get", "inject"}
  MaxChanges = 2
  MaxAttempts = 1
  Lagging = FALSE
  None = None
  Script = script
  Login = login
SYMMETRY Symmetry
INVARIANTS ExactAtCursor AnswersFresh RevisionIsTrue
CHECK_DEADLOCK FALSE
