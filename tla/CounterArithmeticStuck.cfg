CONSTANTS
  Ids = {1, 2, 3}
  Amounts = {3, 6}
  MaxAmount = 6
  Limit = 24
  Significand = 8
  Ulps = {1, 2, 4, 8, 16, 32}
SPECIFICATION FairSpec
PROPERTIES StaleEventuallyReleased
CHECK_DEADLOCK FALSE
