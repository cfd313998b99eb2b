SPECIFICATION Spec

CONSTANTS
  None = None
  Requests = {w1, w2}
  Replicas = {p1, p2}
  Screens = {s1}
  QueueSize = 1

SYMMETRY Symmetry

INVARIANTS
  ScreensAreTold
  DeadlineTellsTheTruth

CHECK_DEADLOCK FALSE
