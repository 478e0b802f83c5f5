CONSTANTS
  Queues = {"resource-reconciliation", "worker-cleanup"}
  Keys = {1, 2}
  Facts = {"small", "large"}
  None = None
  Machines = {m1, m2}
  Processes = {p1, p2, p3}
  MachineOf <- TwoShareOne
  p1 = p1 p2 = p2 p3 = p3 m1 = m1 m2 = m2
SPECIFICATION MCSpec
CHECK_DEADLOCK FALSE
INVARIANTS TypesOK JobsHaveDatabase ReadyIsHealthy EnrolledHoldsKey
PROPERTIES EndsWhenAsked LostReplyRecovered
