SPECIFICATION Spec

CONSTANTS
  None = None
  Orders = {o1}
  Items = {i1, i2}
  Payments = {p1, p2, p3}
  Sessions = {s1}
  Tables = {}
  Staff = {m1, w1}
  Managers = {m1}
  Dishes = {d1}
  Recipes = {d1}
  Prices = {1}
  Quantities = {1, 3}
  Percents = {0, 40}
  WaiterLimit = 0
  Methods = {"yape"}
  Tips = {0}
  Floats = {0}
  MaxMoney = 4
  MaxRound = 2

SYMMETRY Symmetry

INVARIANTS
  TypeOK
  NeverOvercharged
  PaidIsSettled
  SplitIsSound

PROPERTIES
  NoDishPaidTwice
  PaidBillOnlyGrows

CHECK_DEADLOCK FALSE
