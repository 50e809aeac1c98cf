SPECIFICATION InboundSpec
CONSTANTS
  MaxQty = 2
  ReferenceIdWidth = 64
  EntityIdWidth = 64
  JsonEncodesUuid = TRUE
  LastDay = 0
  NumShipments = 1
  MaxMoved = 2
  p1 = p1
  stg = stg
  str = str
  NoBatch = NoBatch
  Product = {p1}
  Batch = {NoBatch}
  Location = {stg, str}
  ZoneType <- MCZoneType
  BatchRequired = {}
  UnitSize <- MCUnitSize
  Reference <- MCReference
INVARIANTS
  PutawayIsAccepted
