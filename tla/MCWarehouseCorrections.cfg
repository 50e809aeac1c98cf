SPECIFICATION WarehouseSpec
CONSTANTS
  MaxQty = 2
  ReferenceIdWidth = 74
  EntityIdWidth = 74
  JsonEncodesUuid = TRUE
  LastDay = 0
  NumOrders = 1
  NumShipments = 0
  NumReturns = 1
  NumReports = 2
  MaxMoved = 0
  MaxScrapped = 1
  p1 = p1
  lot = lot
  stg = stg
  str = str
  pck = pck
  NoBatch = NoBatch
  Product = {p1}
  Batch = {NoBatch}
  Location = {str}
  ZoneType <- MCZoneType
  BatchRequired = {}
  UnitSize <- MCUnitSize
  Expiry <- MCExpiry
  Reference <- MCReference
  OpeningReference <- MCOpeningReference
  OpeningStock <- MCOneStored
  OrderForm <- MCOneEach
INVARIANTS
  AdjustmentsTypeOK
  AdjustedOnlyIfApproved
  ReturnsAreBooked
  StockIsAccountedFor
PROPERTIES
  LateApprovalKeepsMovements
