SPECIFICATION Spec
CONSTANTS
  Users = {u1, u2}
  Creator = u1
  Roles = {"owner", "admin"}
  Invitations = {i1}
  Sessions = {s1, s2}
  MaxChanges = 2
INVARIANTS
  AlwaysOwned
CHECK_DEADLOCK FALSE
