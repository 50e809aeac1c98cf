SPECIFICATION Spec
CONSTANTS
  MaxQty = 5
  ReferenceIdWidth = 64
  EntityIdWidth = 64
  JsonEncodesUuid = TRUE
  w1 = w1
  w2 = w2
  Worker = {w1, w2}
  p1 = p1
  p2 = p2
  q1 = q1
  q2 = q2
  Item = {p1, p2, q1, q2}
  ProductOf <- MCProductOf
  Batched = {q1, q2}
  NumOrders = 4
  OrderLines <- MCOrderLines
  OpeningStock <- MCOpeningStock
  OpeningOrder <- MCOpeningOrder
  Requests <- MCRequests
  MaxRequests = 3
  MaxCopies = 2
INVARIANTS
  AvailableIsConsistent
CHECK_DEADLOCK FALSE
