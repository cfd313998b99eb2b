SPECIFICATION Spec

CONSTANTS
  None = None
  Orders = {o1}
  Items = {i1}
  Payments = {p1, p2}
  Sessions = {s1, s2}
  Tables = {}
  Staff = {w1}
  Managers = {w1}
  Dishes = {d1}
  Recipes = {d1}
  Prices = {2}
  Quantities = {1}
  Percents = {0}
  WaiterLimit = 0
  Methods = {"cash", "yape"}
  Tips = {0, 1}
  Floats = {1}
  MaxMoney = 4
  MaxRound = 2

SYMMETRY Symmetry

INVARIANTS
  SignedArqueoHolds

PROPERTIES
  ImplementsCashDesk

CHECK_DEADLOCK FALSE
