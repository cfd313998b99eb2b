SPECIFICATION Spec

CONSTANTS
  None = None
  Attempts = {p1, p2, p3, p4}
  Replicas = {r1, r2}
  Addresses = {a1, a2, a3}
  PairLimit = 1
  EmailLimit = 2
  MaxSessions = 2
  Codes <- Sent

SYMMETRY Symmetry

INVARIANTS
  LimitHolds
  CodeSignsInOnce
  SessionsWithinCap

CHECK_DEADLOCK FALSE
