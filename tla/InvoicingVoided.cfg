SPECIFICATION Spec

CONSTANTS
  None = None
  Requests = {q1, q2}
  Orders = {o1}
  MaxInvoices = 1

SYMMETRY Symmetry

INVARIANT
  VoidedNeverValid

CHECK_DEADLOCK FALSE
