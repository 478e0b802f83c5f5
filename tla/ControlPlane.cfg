SPECIFICATION MCSpec
CONSTANTS
  Users = {u1, u2}
  Creator = u1
  Roles = {"owner", "admin"}
  Invitations = {i1, i2}
  Sessions = {s1, s2}
  MaxChanges = 2
  Commands = {"command1"}
  Workers = {i1, i2}
  Bodies = {succeeded, failed}
  Handlers = {s1, s2}
  Window = 1
  ResultTtl = 2
  MaxLifetime = 2
  MaxTime = 3
SYMMETRY Symmetry
CHECK_DEADLOCK FALSE
INVARIANTS TypesOK
PROPERTIES LastOwnerKept InvitationSettlesOnce TransferHandsOver OverwritesSeenOrAccepted ClosesOnce AcceptedIsRecorded
