SPECIFICATION FairSpec
CONSTANTS
  Handlers = {"h1", "h2"}
  MaxChallenges = 2
CHECK_DEADLOCK FALSE
INVARIANTS ActiveIsNewest FirstUseRevokes
PROPERTIES IdenticalRetryAnswered RotationCompletes
