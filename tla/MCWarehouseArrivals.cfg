SPECIFICATION WarehouseSpec
CONSTANTS
  MaxQty = 2
  ReferenceIdWidth = 74
  EntityIdWidth = 74
  JsonEncodesUuid = TRUE
  LastDay = 1
  NumOrders = 1
  NumShipments = 1
  NumReturns = 0
  NumReports = 0
  MaxMoved = 1
  MaxScrapped = 0
  p1 = p1
  lot = lot
  stg = stg
  str = str
  pck = pck
  NoBatch = NoBatch
  Product = {p1}
  Batch = {NoBatch, lot}
  Location = {stg, str}
  ZoneType <- MCZoneType
  BatchRequired = {p1}
  UnitSize <- MCUnitSize
  Expiry <- MCExpiry
  Reference <- MCReference
  OpeningReference <- MCOpeningReference
  OpeningStock <- MCNoStock
  OrderForm <- MCOneEach
INVARIANTS
  InboundTypeOK
  LedgerReconciles
  ReceiptsAreBooked
  ReceivedIsCharged
  StockIsAccountedFor
PROPERTIES
  HouseKeepsPromises
