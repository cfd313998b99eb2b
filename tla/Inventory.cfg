SPECIFICATION Spec

CONSTANTS
  None = None
  i1 = i1
  i2 = i2
  Ingredients = {i1, i2}
  Supplies = {s1}
  Wastes = {w1}
  Counts = {c1, c2}
  Requests = {r1, r2}
  Quantities = {2}
  Prices = {2}
  Threshold = 1
  FirstCost = 1
  Agendas <- Days
  MaxMovements = 4

SYMMETRY Symmetry

INVARIANTS
  EachDocumentOnce
  CountedHolds
  CostIsAnAverage

CHECK_DEADLOCK FALSE
