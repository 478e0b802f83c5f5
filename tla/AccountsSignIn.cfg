SPECIFICATION MCSpec
CONSTANTS
  Passwords = {pw1, pw2}
  Tokens = {t1, t2}
  Sessions = {s1, s2}
  AccountRequests = {r1, r2}
  Logins = {l1}
  Checks = {c1}
  MaxResets = 1
  Nothing = Nothing
  Processes = {w1, w2}
  Points = 8
  MaxGuesses = 4
  Requests = {"heartbeat", "rotate"}
  Handlers = {"h1", "h2"}
  MaxSkew = 2
  NonceTtl = 4
  MaxPause = 1
  MaxTime = 9
  Numbers = {1, 2, 3}
  Amounts = {1, 2, 3}
  MaxAmount = 3
  Limit = 7
  Significand = 8
  Ulps = {1, 2, 4, 8, 16, 32}
SYMMETRY Symmetry
CHECK_DEADLOCK FALSE
INVARIANTS TypesOK OlderSessionsEnd GuessesBounded AtMostOnce ExactWithinPrecision
PROPERTIES PasswordNeedsToken AcceptedInWindow
