SPECIFICATION Spec

CONSTANTS
  None = None
  Requests = {q1, q2}
  Orders = {o1}
  MaxInvoices = 2

SYMMETRY Symmetry

INVARIANTS
  TypeOK
  AgreesWithSunat
  OneValidPerOrder
  NumbersRunOn
  NobodyWaitsInCircle

PROPERTIES
  ArchiveIsKept
  LivesLikeAnInvoice

CHECK_DEADLOCK FALSE
