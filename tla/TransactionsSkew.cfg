SPECIFICATION Spec

CONSTANTS
  None = None
  t1 = t1
  Attempts = {a1, a2}
  Orders = {1, 2, 3, 4}
  Tables = {t1, t2}
  Sessions = {s1, s2}
  Served = {1}
  Settled = {2}
  Seat <- SeatAtFirst
  Price = 2
  Dish = 1

INVARIANT
  InvoicedStaysPaid

CHECK_DEADLOCK FALSE
