SPECIFICATION OutboundSpec
CONSTANTS
  MaxQty = 2
  ReferenceIdWidth = 64
  EntityIdWidth = 64
  JsonEncodesUuid = FALSE
  NumOrders = 2
  LastDay = 0
  p1 = p1
  early = early
  late = late
  stg = stg
  str = str
  pck = pck
  Product = {p1}
  Batch = {early}
  Location = {str, pck}
  ZoneType <- MCZoneType
  Expiry <- MCExpiry
  Reference <- MCReference
  OpeningReference <- MCOpeningReference
  OpeningStock <- MCStockTwo
  OrderForm <- MCOneOrTwo
INVARIANTS
  RequestsAreAccepted
