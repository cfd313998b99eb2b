SPECIFICATION Spec

CONSTANTS
  None = None
  Orders = {o1, o2}
  Items = {i1, i2}
  Payments = {p1}
  Sessions = {s1}
  Tables = {t1, t2}
  Staff = {w1}
  Managers = {w1}
  Dishes = {d1}
  Recipes = {d1}
  Prices = {1}
  Quantities = {1}
  Percents = {0}
  WaiterLimit = 0
  Methods = {"yape"}
  Tips = {0}
  Floats = {0}
  MaxMoney = 4
  MaxRound = 2

SYMMETRY Symmetry

INVARIANTS
  MoneyHasItsOrder
  ServedIsConsumed
  KitchenKnowsEveryDish
  TableSharedOnlyByReopening

PROPERTIES
  NeverConsumedTwice

CHECK_DEADLOCK FALSE
