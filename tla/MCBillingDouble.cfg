SPECIFICATION BillingSpec
CONSTANTS
  Warehouse = {wh1}
  Document = {d1}
  Worker = {w1, w2}
  Rates <- MCRates
  VatPercent = 17
  LastDay = 0
  MaxQuantity = 1
  MaxLists = 1
  MaxInvoices = 2
  ServiceType <- MCServices
  Period <- MCPeriods
SYMMETRY MCSymmetry
INVARIANTS
  NoDoubleBilling
