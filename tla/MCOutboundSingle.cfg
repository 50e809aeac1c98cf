SPECIFICATION OutboundSpec
CONSTANTS
  MaxQty = 4
  ReferenceIdWidth = 64
  EntityIdWidth = 64
  JsonEncodesUuid = TRUE
  NumOrders = 1
  LastDay = 1
  p1 = p1
  early = early
  late = late
  stg = stg
  str = str
  pck = pck
  Product = {p1}
  Batch = {early, late}
  Location = {stg, str, pck}
  ZoneType <- MCZoneType
  Expiry <- MCExpiry
  Reference <- MCReference
  OpeningReference <- MCOpeningReference
  OpeningStock <- MCStockTwo
  OrderForm <- MCTwoOrSplit
INVARIANTS
  OutboundTypeOK
  PicksAreAccounted
  StatusAgreesWithWork
  ShipmentsAreCharged
  SlipIsChargedOnce
PROPERTIES
  EarliestExpiryFirst
  StockLeavesOnlyCharged
