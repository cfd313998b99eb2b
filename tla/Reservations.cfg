SPECIFICATION Spec

CONSTANTS
  None = None
  Bookings = {b1, b2}
  t1 = t1
  Tables = {t1}
  Entries <- Stays
  MaxLength = 2
  Requests = {r1, r2, r3}

SYMMETRY Symmetry

INVARIANTS
  OnlyEditsAndOrdersWaitInCircle

PROPERTIES
  ImplementsDiary

CHECK_DEADLOCK FALSE
