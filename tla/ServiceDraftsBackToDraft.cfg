CONSTANTS
  Manifests = {1}
  Contents = {"first", "edited"}
  Drafts = {d1}
  Tabs = {t1}
  Values = {a, b}
  MaxVersion = 1
  None = None
SPECIFICATION Spec
CHECK_DEADLOCK FALSE
INVARIANTS NeverBackToDraft
