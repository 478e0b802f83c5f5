SPECIFICATION Spec
CONSTANTS
  Handlers = {"h1", "h2"}
  MaxChallenges = 2
INVARIANTS
  Recoverable
CHECK_DEADLOCK FALSE
