---------------------------- MODULE WarehouseProofs ----------------------------
(***************************************************************************)
(* What holds of the whole warehouse for every number of orders,           *)
(* shipments, returns and reports, every set of items and locations and    *)
(* every opening stock.  A step of the warehouse is a step of the outbound *)
(* flow, for which OutboundProofs has the lemmas, or leaves the orders and *)
(* all that is reserved as they are (Quiet).                               *)
(***************************************************************************)
EXTENDS Warehouse, OutboundProofs

\* A step that may post and move stock and charge for it, and nothing else.
Quiet ==
  /\ Books'
  /\ \A k \in Key : balance'[k].reserved = balance[k].reserved
  /\ charge' \subseteq Charge
  /\ UNCHANGED <<today, orderVars>>

-----------------------------------------------------------------------------
(* Posts and moves leave what is reserved alone *)

LEMMA PostKeeps ==
  ASSUME Books, NEW d \in Delta, CanPost(balance, d), NEW ref \in Reference,
         balance' = Posted(balance, d), ledger' = Recorded(ledger, ref, d)
  PROVE  Books' /\ \A k \in Key : balance'[k].reserved = balance[k].reserved
<1>1. Consistent(balance')
  BY PostedConsistent DEF Books
<1>2. ledger' \in LedgerTable
  BY RecordedType DEF Books
<1>3. Books'
  BY <1>1, <1>2 DEF Books, Consistent, LedgerTable
<1> QED BY <1>3, PostedRow DEF Books

LEMMA MoveKeeps ==
  ASSUME Books, NEW k \in Key, NEW to \in Location, NEW q \in Int,
         CanMove(balance, k, to, q), NEW ref \in Reference,
         balance' = MovedBalance(balance, k, to, q),
         ledger' = MovedLedger(ledger, ref, k, to, q)
  PROVE  Books' /\ \A x \in Key : balance'[x].reserved = balance[x].reserved
<1>1. Consistent(balance')
  BY MovedConsistent DEF Books
<1>2. ledger' \in LedgerTable
  BY MovedLedgerType DEF Books
<1>3. Books'
  BY <1>1, <1>2 DEF Books, Consistent, LedgerTable
<1>4. At(k, -q) \in Delta /\ At(Moved(k, to), q) \in Delta
  BY DeltaType, MovedType
<1>5. Consistent(Posted(balance, At(k, -q)))
  BY <1>4, PostedConsistent DEF CanMove, Books
<1>6. \A x \in Key : balance'[x].reserved = balance[x].reserved
  BY <1>4, <1>5, PostedRow DEF MovedBalance, Books
<1> QED BY <1>3, <1>6

OfProduct(p) == {i \in Item : i.product = p}

LEMMA ItemsFinite == IsFiniteSet(Item) /\ \A p : IsFiniteSet(OfProduct(p))
<1> DEFINE f == [x \in Product \X Batch |-> [product |-> x[1], batch |-> x[2]]]
<1>1. IsFiniteSet(Product \X Batch)
  BY InventoryAssumption, FS_Product
<1>2. f \in Surjection(Product \X Batch, Item)
  <2>1. f \in [Product \X Batch -> Item]
    BY DEF Item
  <2>2. ASSUME NEW i \in Item PROVE \E x \in Product \X Batch : f[x] = i
    <3>1. <<i.product, i.batch>> \in Product \X Batch
      BY DEF Item
    <3>2. f[<<i.product, i.batch>>] = i
      BY <3>1 DEF Item
    <3> QED BY <3>1, <3>2
  <2> QED BY <2>1, <2>2 DEF Surjection
<1>3. IsFiniteSet(Item)
  BY <1>1, <1>2, FS_Surjection
<1>4. \A p : OfProduct(p) \subseteq Item
  BY DEF OfProduct
<1> QED BY <1>3, <1>4, FS_Subset

\* The lines of a shipment are finitely many, so their number can be charged.
LEMMA LinesAreCharged ==
  ASSUME NEW s \in Shipment, Lines(s) # {}, today \in Day
  PROVE  Event("INBOUND_LINE", InboundReference(s), Cardinality(Lines(s))) \in Charge
<1>1. IsFiniteSet(Lines(s))
  BY ItemsFinite, FS_Subset DEF Lines
<1>2. Cardinality(Lines(s)) \in Nat \ {0}
  BY <1>1, FS_CardinalityType, FS_EmptySet
<1> QED
  BY <1>2, InboundAssumption DEF Event, Charge, ChargeType

-----------------------------------------------------------------------------
(* A step of the warehouse is a step of the outbound flow or a quiet one *)

LEMMA ShipmentIsQuiet ==
  ASSUME Books, OutboundTables, NEW s \in Shipment, ShipmentRequest(s),
         UNCHANGED orderVars
  PROVE  Quiet
<1>1. InboundReference(s) \in Reference
  BY InboundAssumption
<1>2. ASSUME UNCHANGED stockVars, charge' \subseteq Charge, UNCHANGED today PROVE Quiet
  BY <1>2 DEF Quiet, Books, Consistent, LedgerTable, stockVars
<1>3. charge \subseteq Charge /\ today \in Day
  BY DEF OutboundTables
<1>4. ASSUME CreateInbound(s) \/ StartReceiving(s) PROVE Quiet
  BY <1>2, <1>3, <1>4 DEF CreateInbound, StartReceiving
<1>5. ASSUME NEW k \in Key, NEW qty \in 1 .. MaxQty, NEW unit \in Unit,
             ScanLine(s, k, qty, unit)
      PROVE  Quiet
  <2> DEFINE pieces == Pieces(k.product, qty, unit)
  <2>1. pieces \in Int
    BY InboundAssumption, SchemaAssumption DEF Pieces, Key
  <2>2. At(k, pieces) \in Delta
    BY <2>1, DeltaType
  <2>3. /\ CanPost(balance, At(k, pieces))
        /\ balance' = Posted(balance, At(k, pieces))
        /\ ledger' = Recorded(ledger, InboundReference(s), At(k, pieces))
        /\ UNCHANGED <<charge, today>>
    BY <1>5 DEF ScanLine
  <2>4. Books' /\ \A x \in Key : balance'[x].reserved = balance[x].reserved
    BY <1>1, <2>2, <2>3, PostKeeps
  <2> QED BY <1>3, <2>3, <2>4 DEF Quiet
<1>6. ASSUME CompleteInbound(s) PROVE Quiet
  <2>1. UNCHANGED stockVars /\ UNCHANGED today
    BY <1>6 DEF CompleteInbound
  <2>2. charge' \subseteq Charge
    <3>1. CASE CompleteEmpty(s)
      BY <1>3, <3>1 DEF CompleteEmpty
    <3>2. ASSUME NEW stored \in BOOLEAN, CompleteAgain(s, stored) PROVE charge' \subseteq Charge
      BY <1>3, <3>2 DEF CompleteAgain
    <3>3. ASSUME NEW stored \in BOOLEAN, CompleteAndCharge(s, stored), Lines(s) # {}
          PROVE  charge' \subseteq Charge
      BY <1>3, <3>3, LinesAreCharged DEF CompleteAndCharge, AddCharge
    <3> QED BY <1>6, <3>1, <3>2, <3>3 DEF CompleteInbound
  <2> QED BY <1>2, <2>1, <2>2
<1> QED BY <1>4, <1>5, <1>6 DEF ShipmentRequest

LEMMA MoveIsQuiet ==
  ASSUME Books, OutboundTables, MoveRequest, UNCHANGED orderVars
  PROVE  Quiet
<1>1. PICK k \in Key, to \in Location, q \in 1 .. MaxQty :
        ConfirmPutaway(k, to, q) \/ Transfer(k, to, q)
  BY DEF MoveRequest
<1>2. PICK ref \in Reference : MoveStock(k, to, q, ref)
  BY <1>1, InboundAssumption DEF ConfirmPutaway, Transfer, Key
<1>3. q \in Int
  BY SchemaAssumption
<1>4. /\ CanMove(balance, k, to, q)
      /\ balance' = MovedBalance(balance, k, to, q)
      /\ ledger' = MovedLedger(ledger, ref, k, to, q)
      /\ UNCHANGED <<charge, today>>
  BY <1>2 DEF MoveStock
<1>5. Books' /\ \A x \in Key : balance'[x].reserved = balance[x].reserved
  BY <1>3, <1>4, MoveKeeps
<1> QED BY <1>4, <1>5 DEF Quiet, OutboundTables

LEMMA ReturnIsQuiet ==
  ASSUME Books, OutboundTables, NEW r \in Return, ReturnRequest(r),
         UNCHANGED <<charge, today, orderVars>>
  PROVE  Quiet
<1>1. ReturnReference(r) \in Reference
  BY AdjustmentsAssumption
<1>2. ASSUME UNCHANGED stockVars PROVE Quiet
  BY <1>2 DEF Quiet, Books, Consistent, LedgerTable, stockVars, OutboundTables
<1>3. ASSUME NEW disposition \in Disposition, NEW k \in Key, NEW q \in 1 .. MaxQty,
             ReturnToStock(r, disposition, k, q)
      PROVE  Quiet
  <2>1. At(k, q) \in Delta
    BY DeltaType, SchemaAssumption
  <2>2. /\ CanPost(balance, At(k, q))
        /\ balance' = Posted(balance, At(k, q))
        /\ ledger' = Recorded(ledger, ReturnReference(r), At(k, q))
    BY <1>3 DEF ReturnToStock, PostReturned
  <2>3. Books' /\ \A x \in Key : balance'[x].reserved = balance[x].reserved
    BY <1>1, <2>1, <2>2, PostKeeps
  <2> QED BY <2>3 DEF Quiet, OutboundTables
<1>4. ASSUME NEW q \in 1 .. MaxQty, Scrap(r, q) PROVE Quiet
  BY <1>2, <1>4 DEF Scrap
<1>5. CASE CreateReturn(r) \/ CompleteReturn(r)
  BY <1>2, <1>5 DEF CreateReturn, CompleteReturn
<1> QED BY <1>3, <1>4, <1>5 DEF ReturnRequest

-----------------------------------------------------------------------------
(* The tables of returns and discrepancies *)

ReportStatus == {"PENDING", "APPROVED", "REJECTED"}
FiledReport == [status : ReportStatus, key : Key, system_qty : 0 .. MaxQty,
                counted_qty : 0 .. MaxQty, delta_qty : -MaxQty .. MaxQty]

AdjustmentsTables ==
  /\ returns \in [Return -> {"NONE", "RECEIVED", "CLOSED"}]
  /\ returned \in [Return -> [Disposition -> Plan]]
  /\ scrapped \in [Return -> 0 .. MaxScrapped]
  /\ report \in [Report -> {NoReport} \cup FiledReport]
  /\ \A d \in Report : report[d] # NoReport =>
       report[d].delta_qty = report[d].counted_qty - report[d].system_qty

LEMMA PendingIsFiled ==
  ASSUME AdjustmentsTables, NEW d \in Report, CanDecide(d)
  PROVE  report[d] \in FiledReport
BY DEF AdjustmentsTables, CanDecide, NoReport

LEMMA AdjustmentIsDelta ==
  ASSUME AdjustmentsTables, NEW d \in Report, CanDecide(d)
  PROVE  AdjustmentOf(d) \in Delta
<1>1. report[d].key \in Key /\ report[d].delta_qty \in Int
  BY PendingIsFiled, SchemaAssumption DEF FiledReport
<1> QED BY <1>1, DeltaType DEF AdjustmentOf

LEMMA ReportIsQuiet ==
  ASSUME Books, OutboundTables, AdjustmentsTables, NEW d \in Report, ReportRequest(d),
         UNCHANGED <<charge, today, orderVars>>
  PROVE  Quiet
<1>1. DiscrepancyReference(d) \in Reference
  BY AdjustmentsAssumption
<1>2. ASSUME UNCHANGED stockVars PROVE Quiet
  BY <1>2 DEF Quiet, Books, Consistent, LedgerTable, stockVars, OutboundTables
<1>3. CASE ApproveDiscrepancy(d)
  <2>1. AdjustmentOf(d) \in Delta
    BY <1>3, AdjustmentIsDelta DEF ApproveDiscrepancy
  <2>2. Books' /\ \A x \in Key : balance'[x].reserved = balance[x].reserved
    BY <1>1, <1>3, <2>1, PostKeeps DEF ApproveDiscrepancy
  <2> QED BY <2>2 DEF Quiet, OutboundTables
<1>4. ASSUME NEW k \in Key, NEW counted \in 0 .. MaxQty, CreateDiscrepancy(d, k, counted)
      PROVE  Quiet
  BY <1>2, <1>4 DEF CreateDiscrepancy
<1>5. CASE RejectDiscrepancy(d)
  BY <1>2, <1>5 DEF RejectDiscrepancy
<1> QED BY <1>3, <1>4, <1>5 DEF ReportRequest

LEMMA StepCases ==
  ASSUME Books, OutboundTables, AdjustmentsTables, [WarehouseNext]_warehouseVars
  PROVE  [OutboundNext]_outboundVars \/ Quiet
<1>1. ASSUME NEW o \in Order, OutboundRequest(o) PROVE OutboundNext
  BY <1>1 DEF OutboundNext
<1>2. CASE NextDay /\ UNCHANGED <<orderVars, shipmentVars, adjustVars>>
  BY <1>2 DEF OutboundNext
<1>3. CASE UNCHANGED warehouseVars
  BY <1>3 DEF warehouseVars, outboundVars
<1>4. ASSUME NEW s \in Shipment, ShipmentRequest(s) /\ UNCHANGED <<orderVars, adjustVars>>
      PROVE  Quiet
  BY <1>4, ShipmentIsQuiet
<1>5. CASE MoveRequest /\ UNCHANGED <<orderVars, shipmentVars, adjustVars>>
  BY <1>5, MoveIsQuiet
<1>6. ASSUME NEW r \in Return,
             ReturnRequest(r) /\ UNCHANGED <<charge, today, orderVars, shipmentVars>>
      PROVE  Quiet
  BY <1>6, ReturnIsQuiet
<1>7. ASSUME NEW d \in Report,
             ReportRequest(d) /\ UNCHANGED <<charge, today, orderVars, shipmentVars>>
      PROVE  Quiet
  BY <1>7, ReportIsQuiet
<1> QED BY <1>1, <1>2, <1>3, <1>4, <1>5, <1>6, <1>7 DEF WarehouseNext

-----------------------------------------------------------------------------
(* Which rows of the ledger a step may touch: those of one document *)

InboundReferences == {InboundReference(s) : s \in Shipment}
MoveReference ==
  {PutawayReference(from, to) : from, to \in Location} \cup {ManualReference}
AdjustmentReference ==
  {ReturnReference(r) : r \in Return} \cup {DiscrepancyReference(d) : d \in Report}

LEMMA ReferencesDiffer ==
  /\ \A r \in Return, d \in Report : ReturnReference(r) # DiscrepancyReference(d)
  /\ \A r, other \in Return : ReturnReference(r) = ReturnReference(other) => r = other
  /\ \A d, other \in Report : DiscrepancyReference(d) = DiscrepancyReference(other) => d = other
  /\ \A s, other \in Shipment : InboundReference(s) = InboundReference(other) => s = other
  /\ \A o \in Order : OrderReference(o) \notin AdjustmentReference \cup InboundReferences
  /\ \A s \in Shipment : InboundReference(s) \notin AdjustmentReference
  /\ \A ref \in MoveReference : ref \notin AdjustmentReference \cup InboundReferences
  /\ \A ref \in MoveReference, o \in Order : ref # OrderReference(o)
<1> USE DEF ReturnReference, DiscrepancyReference, AdjustmentReference, InboundReference,
            InboundReferences, OrderReference
<1>1. \A ref \in MoveReference : ref[1] \in {"PUTAWAY", "MANUAL"}
  BY DEF MoveReference, PutawayReference, ManualReference
<1>2. \A ref \in AdjustmentReference : ref[1] \in {"RETURN", "DISCREPANCY"}
  OBVIOUS
<1>3. \A ref \in InboundReferences : ref[1] = "INBOUND"
  OBVIOUS
<1>4. \A o \in Order : OrderReference(o)[1] = "OUTBOUND"
  OBVIOUS
<1>5. /\ \A r \in Return, d \in Report : ReturnReference(r) # DiscrepancyReference(d)
      /\ \A r, other \in Return : ReturnReference(r) = ReturnReference(other) => r = other
      /\ \A d, other \in Report :
           DiscrepancyReference(d) = DiscrepancyReference(other) => d = other
      /\ \A s, other \in Shipment : InboundReference(s) = InboundReference(other) => s = other
  OBVIOUS
<1>6. \A s \in Shipment : InboundReference(s) \in InboundReferences
  OBVIOUS
<1> HIDE DEF ReturnReference, DiscrepancyReference, AdjustmentReference, InboundReference,
             InboundReferences, OrderReference
<1> QED BY <1>1, <1>2, <1>3, <1>4, <1>5, <1>6

LEMMA ReferencesExist ==
  AdjustmentReference \cup InboundReferences \cup MoveReference \subseteq Reference
BY AdjustmentsAssumption, InboundAssumption
DEF AdjustmentReference, InboundReferences, MoveReference

\* The step writes ledger rows of document ref, or none.
OnlyFor(ref) == \A other \in Reference \ {ref} : ledger'[other] = ledger[other]

LEMMA OrderWrites ==
  ASSUME Books, NEW o \in Order, OutboundRequest(o)
  PROVE  OnlyFor(OrderReference(o))
<1>1. ledger \in LedgerTable /\ OrderReference(o) \in Reference /\ 1 .. MaxQty \subseteq Int
  BY OrderReferences, SchemaAssumption DEF Books
<1>2. UNCHANGED ledger => OnlyFor(OrderReference(o))
  BY DEF OnlyFor
<1>3. ASSUME NEW k \in Key, NEW to \in Location, NEW q \in 1 .. MaxQty, ScanPick(o, k, to, q)
      PROVE  OnlyFor(OrderReference(o))
  BY <1>1, <1>3, MovedElsewhere DEF ScanPick, OnlyFor
<1>4. ASSUME NEW loc \in Location, DispatchConfirm(o, loc)
      PROVE  OnlyFor(OrderReference(o))
  BY <1>1, <1>2, <1>4, RecordedElsewhere
  DEF DispatchConfirm, ShipAndCharge, ShipAndRollBack, OnlyFor, stockVars
<1>5. ASSUME NEW form \in OrderForm, NEW status \in {"DRAFT", "SUBMITTED"},
             CreateOutbound(o, form, status)
      PROVE  UNCHANGED ledger
  BY <1>5 DEF CreateOutbound, stockVars
<1>6. ASSUME \/ ApproveOutbound(o) \/ GeneratePicks(o) \/ StartTask(o)
             \/ CompleteTask(o) \/ PackingConfirm(o)
      PROVE  UNCHANGED ledger
  BY <1>6 DEF ApproveOutbound, GeneratePicks, StartTask, CompleteTask, PackingConfirm, stockVars
<1> QED BY <1>2, <1>3, <1>4, <1>5, <1>6 DEF OutboundRequest

LEMMA ShipmentWrites ==
  ASSUME Books, NEW s \in Shipment, ShipmentRequest(s)
  PROVE  OnlyFor(InboundReference(s))
<1>1. ledger \in LedgerTable /\ InboundReference(s) \in Reference
  BY InboundAssumption DEF Books
<1>2. ASSUME NEW k \in Key, NEW qty \in 1 .. MaxQty, NEW unit \in Unit, ScanLine(s, k, qty, unit)
      PROVE  OnlyFor(InboundReference(s))
  BY <1>1, <1>2, RecordedElsewhere DEF ScanLine, OnlyFor
<1> QED
  BY <1>2 DEF ShipmentRequest, CreateInbound, StartReceiving, CompleteInbound, OnlyFor, stockVars

LEMMA MoveWrites ==
  ASSUME Books, MoveRequest
  PROVE  \E ref \in MoveReference, k \in Key, to \in Location, q \in Nat :
           MoveStock(k, to, q, ref) /\ OnlyFor(ref)
<1>1. PICK k \in Key, to \in Location, q \in 1 .. MaxQty :
        ConfirmPutaway(k, to, q) \/ Transfer(k, to, q)
  BY DEF MoveRequest
<1>2. PICK ref \in MoveReference : MoveStock(k, to, q, ref)
  BY <1>1 DEF ConfirmPutaway, Transfer, Key, MoveReference
<1>3. q \in Nat /\ q \in Int /\ ref \in Reference /\ ledger \in LedgerTable
  BY SchemaAssumption, ReferencesExist DEF Books
<1>4. OnlyFor(ref)
  BY <1>2, <1>3, MovedElsewhere DEF MoveStock, OnlyFor
<1> QED BY <1>2, <1>3, <1>4

LEMMA ReturnWrites ==
  ASSUME Books, NEW r \in Return, ReturnRequest(r)
  PROVE  OnlyFor(ReturnReference(r))
<1>1. ledger \in LedgerTable /\ ReturnReference(r) \in Reference
  BY AdjustmentsAssumption DEF Books
<1>2. ASSUME NEW disposition \in Disposition, NEW k \in Key, NEW q \in 1 .. MaxQty,
             ReturnToStock(r, disposition, k, q)
      PROVE  OnlyFor(ReturnReference(r))
  BY <1>1, <1>2, RecordedElsewhere DEF ReturnToStock, PostReturned, OnlyFor
<1> QED
  BY <1>2 DEF ReturnRequest, CreateReturn, Scrap, CompleteReturn, OnlyFor, stockVars

LEMMA ReportWrites ==
  ASSUME Books, NEW d \in Report, ReportRequest(d)
  PROVE  OnlyFor(DiscrepancyReference(d))
<1>1. ledger \in LedgerTable /\ DiscrepancyReference(d) \in Reference
  BY AdjustmentsAssumption DEF Books
<1>2. CASE ApproveDiscrepancy(d)
  BY <1>1, <1>2, RecordedElsewhere DEF ApproveDiscrepancy, OnlyFor
<1> QED
  BY <1>2 DEF ReportRequest, CreateDiscrepancy, RejectDiscrepancy, OnlyFor, stockVars

\* Requests about orders, shipments and moves leave returns and reports alone,
\* and the ledger rows that name them.
LEMMA AdjustmentsAlone ==
  ASSUME Books, OutboundTables, [WarehouseNext]_warehouseVars,
         ~ \E r \in Return : ReturnRequest(r),
         ~ \E d \in Report : ReportRequest(d)
  PROVE  /\ UNCHANGED adjustVars
         /\ \A ref \in AdjustmentReference : ledger'[ref] = ledger[ref]
<1> DEFINE Apart == \A ref \in AdjustmentReference : ledger'[ref] = ledger[ref]
<1>1. ASSUME NEW ref, ref \notin AdjustmentReference, OnlyFor(ref) PROVE Apart
  BY <1>1, ReferencesExist DEF OnlyFor
<1>2. ASSUME NEW o \in Order, OutboundRequest(o) PROVE Apart
  BY <1>1, <1>2, OrderWrites, ReferencesDiffer
<1>3. ASSUME NEW s \in Shipment, ShipmentRequest(s) PROVE Apart
  BY <1>1, <1>3, ShipmentWrites, ReferencesDiffer
<1>4. ASSUME MoveRequest PROVE Apart
  BY <1>1, <1>4, MoveWrites, ReferencesDiffer
<1>5. CASE NextDay /\ UNCHANGED <<orderVars, shipmentVars, adjustVars>>
  BY <1>5 DEF NextDay, stockVars
<1>6. CASE UNCHANGED warehouseVars
  BY <1>6 DEF warehouseVars, adjustVars
<1> QED BY <1>2, <1>3, <1>4, <1>5, <1>6 DEF WarehouseNext

-----------------------------------------------------------------------------
(* The invariant of returns and discrepancies *)

AdjustmentsInv == AdjustmentsTables /\ AdjustedOnlyIfApproved /\ ReturnsAreBooked

LEMMA AdjustmentsInitially == Books /\ WarehouseInit => AdjustmentsInv
<1> SUFFICES ASSUME Books, WarehouseInit PROVE AdjustmentsInv
  OBVIOUS
<1>1. NothingAdjusted /\ OutboundInit
  BY DEF WarehouseInit
<1>2. AdjustmentsTables
  BY <1>1, AdjustmentsAssumption DEF NothingAdjusted, AdjustmentsTables, Plan
<1>3. \A ref \in AdjustmentReference, k \in Key : ledger[ref][k].in = 0 /\ ledger[ref][k].out = 0
  BY <1>1, WarehouseAssumption, ReferencesExist DEF OutboundInit, AdjustmentReference
<1>4. AdjustedOnlyIfApproved
  BY <1>1, <1>3 DEF NothingAdjusted, AdjustedOnlyIfApproved, AdjustmentReference
<1>5. ReturnsAreBooked
  BY <1>1, <1>3 DEF NothingAdjusted, ReturnsAreBooked, AdjustmentReference, Disposition
<1> QED BY <1>2, <1>4, <1>5 DEF AdjustmentsInv

LEMMA ReturnStep ==
  ASSUME Books, AdjustmentsInv, NEW r \in Return, ReturnRequest(r)
  PROVE  AdjustmentsInv'
<1>1. ReturnReference(r) \in Reference /\ MaxQty \in Nat
  BY AdjustmentsAssumption, SchemaAssumption
<1>2. UNCHANGED report
  BY DEF ReturnRequest, CreateReturn, ReturnToStock, Scrap, CompleteReturn
<1>3. \A d \in Report : ledger'[DiscrepancyReference(d)] = ledger[DiscrepancyReference(d)]
  <2>1. ASSUME NEW disposition \in Disposition, NEW k \in Key, NEW q \in 1 .. MaxQty,
               ReturnToStock(r, disposition, k, q), NEW d \in Report
        PROVE  ledger'[DiscrepancyReference(d)] = ledger[DiscrepancyReference(d)]
    BY <1>1, <2>1, AdjustmentsAssumption, ReferencesDiffer, RecordedElsewhere
    DEF ReturnToStock, PostReturned, Books
  <2>2. ASSUME UNCHANGED stockVars
        PROVE  \A d \in Report : ledger'[DiscrepancyReference(d)] = ledger[DiscrepancyReference(d)]
    BY <2>2 DEF stockVars
  <2> QED BY <2>1, <2>2 DEF ReturnRequest, CreateReturn, Scrap, CompleteReturn
<1>4. AdjustedOnlyIfApproved'
  BY <1>2, <1>3 DEF AdjustmentsInv, AdjustedOnlyIfApproved
<1>5. ASSUME NEW disposition \in Disposition, NEW k \in Key, NEW q \in 1 .. MaxQty,
             ReturnToStock(r, disposition, k, q)
      PROVE  returned' \in [Return -> [Disposition -> Plan]] /\ ReturnsAreBooked'
  <2>1. /\ ledger' = Recorded(ledger, ReturnReference(r), At(k, q))
        /\ returned' = [returned EXCEPT ![r][disposition][k] = @ + q]
    BY <1>5 DEF ReturnToStock, PostReturned
  <2>2. returned \in [Return -> [Disposition -> [Key -> Nat]]]
    BY DEF AdjustmentsInv, AdjustmentsTables, Plan
  <2>3. q \in Nat /\ At(k, q) \in Delta /\ ledger \in LedgerTable
    BY <1>1, DeltaType DEF Books
  <2>4. returned' \in [Return -> [Disposition -> Plan]]
    BY <2>1, <2>2, <2>3 DEF Plan
  <2>5. \A other \in Return, x \in Key :
          returned'[other]["RESTOCK"][x] + returned'[other]["QUARANTINE"][x]
            = returned[other]["RESTOCK"][x] + returned[other]["QUARANTINE"][x]
                + (IF other = r /\ x = k THEN q ELSE 0)
    BY <2>1, <2>2, <2>3 DEF Disposition
  <2>6. \A x \in Key :
          /\ ledger'[ReturnReference(r)][x].in
               = ledger[ReturnReference(r)][x].in + (IF x = k THEN q ELSE 0)
          /\ ledger'[ReturnReference(r)][x].out = ledger[ReturnReference(r)][x].out
    <3> SUFFICES ASSUME NEW x \in Key
                 PROVE  /\ ledger'[ReturnReference(r)][x].in
                             = ledger[ReturnReference(r)][x].in + (IF x = k THEN q ELSE 0)
                        /\ ledger'[ReturnReference(r)][x].out = ledger[ReturnReference(r)][x].out
      OBVIOUS
    <3>1. At(k, q)[x] = (IF x = k THEN q ELSE 0) /\ At(k, q)[x] \in Nat
      BY <2>3 DEF At
    <3>2. ledger[ReturnReference(r)][x].in \in Int /\ ledger[ReturnReference(r)][x].out \in Int
      BY <1>1, <2>3, AdjustmentsAssumption DEF LedgerTable
    <3> QED BY <1>1, <2>1, <2>3, <3>1, <3>2, RecordedRow
  <2>7. \A other \in Return \ {r} : ledger'[ReturnReference(other)] = ledger[ReturnReference(other)]
    BY <1>1, <2>1, <2>3, AdjustmentsAssumption, ReferencesDiffer, RecordedElsewhere
  <2>8. \A other \in Return, x \in Key :
          /\ ledger[ReturnReference(other)][x].in
               = returned[other]["RESTOCK"][x] + returned[other]["QUARANTINE"][x]
          /\ ledger[ReturnReference(other)][x].out = 0
          /\ returned[other]["RESTOCK"][x] \in Nat /\ returned[other]["QUARANTINE"][x] \in Nat
    BY <2>2 DEF AdjustmentsInv, ReturnsAreBooked, Disposition
  <2>9. ASSUME NEW other \in Return, NEW x \in Key
        PROVE  /\ ledger'[ReturnReference(other)][x].in
                    = returned'[other]["RESTOCK"][x] + returned'[other]["QUARANTINE"][x]
               /\ ledger'[ReturnReference(other)][x].out = 0
    <3>1. CASE other = r
      BY <2>3, <2>5, <2>6, <2>8, <3>1
    <3>2. CASE other # r
      BY <2>5, <2>7, <2>8, <3>2
    <3> QED BY <3>1, <3>2
  <2> QED BY <2>4, <2>9 DEF ReturnsAreBooked
<1>6. ASSUME UNCHANGED <<stockVars, returned>>
      PROVE  returned' \in [Return -> [Disposition -> Plan]] /\ ReturnsAreBooked'
  BY <1>6 DEF AdjustmentsInv, AdjustmentsTables, ReturnsAreBooked, stockVars
<1>7. /\ returned' \in [Return -> [Disposition -> Plan]]
      /\ ReturnsAreBooked'
  BY <1>5, <1>6 DEF ReturnRequest, CreateReturn, Scrap, CompleteReturn
<1>8. returns' \in [Return -> {"NONE", "RECEIVED", "CLOSED"}]
  BY DEF ReturnRequest, CreateReturn, ReturnToStock, Scrap, CompleteReturn,
         AdjustmentsInv, AdjustmentsTables
<1>9. scrapped' \in [Return -> 0 .. MaxScrapped]
  <2>1. scrapped \in [Return -> 0 .. MaxScrapped] /\ MaxScrapped \in Nat
    BY AdjustmentsAssumption DEF AdjustmentsInv, AdjustmentsTables
  <2>2. ASSUME NEW q \in 1 .. MaxQty, Scrap(r, q)
        PROVE  scrapped' \in [Return -> 0 .. MaxScrapped]
    BY <1>1, <2>1, <2>2 DEF Scrap
  <2> QED BY <2>1, <2>2 DEF ReturnRequest, CreateReturn, ReturnToStock, CompleteReturn
<1> QED
  BY <1>2, <1>4, <1>7, <1>8, <1>9 DEF AdjustmentsInv, AdjustmentsTables

LEMMA ReportStep ==
  ASSUME Books, AdjustmentsInv, NEW d \in Report, ReportRequest(d)
  PROVE  AdjustmentsInv'
<1>1. DiscrepancyReference(d) \in Reference /\ MaxQty \in Nat
  BY AdjustmentsAssumption, SchemaAssumption
<1>2. UNCHANGED <<returns, returned, scrapped>>
  BY DEF ReportRequest, CreateDiscrepancy, ApproveDiscrepancy, RejectDiscrepancy
<1>3. report \in [Report -> {NoReport} \cup FiledReport]
  BY DEF AdjustmentsInv, AdjustmentsTables
<1>4. \A x \in Report : report[x] # NoReport =>
        report[x].delta_qty = report[x].counted_qty - report[x].system_qty
  BY DEF AdjustmentsInv, AdjustmentsTables
<1>5. \A other \in Report, x \in Key :
        LET flow == ledger[DiscrepancyReference(other)][x]
        IN  flow.in - flow.out =
              IF report[other] # NoReport /\ report[other].status = "APPROVED"
              THEN (IF x = report[other].key THEN report[other].delta_qty ELSE 0)
              ELSE 0
  BY DEF AdjustmentsInv, AdjustedOnlyIfApproved
<1>6. CASE ApproveDiscrepancy(d)
  <2>1. report[d] \in FiledReport /\ AdjustmentOf(d) \in Delta /\ report[d].status = "PENDING"
        /\ report[d] # NoReport
    BY <1>6, PendingIsFiled, AdjustmentIsDelta
    DEF ApproveDiscrepancy, AdjustmentsInv, CanDecide, NoReport
  <2>2. /\ ledger' = Recorded(ledger, DiscrepancyReference(d), AdjustmentOf(d))
        /\ report' = [report EXCEPT ![d].status = "APPROVED"]
    BY <1>6 DEF ApproveDiscrepancy
  <2>3. /\ report'[d] \in FiledReport
        /\ report'[d].status = "APPROVED" /\ report'[d].key = report[d].key
        /\ report'[d].delta_qty = report[d].delta_qty
        /\ report'[d].counted_qty = report[d].counted_qty
        /\ report'[d].system_qty = report[d].system_qty
        /\ report'[d] # NoReport
    BY <1>3, <2>1, <2>2 DEF FiledReport, ReportStatus, NoReport
  <2>4. \A other \in Report \ {d} : report'[other] = report[other]
    BY <1>3, <2>2
  <2>5. report' \in [Report -> {NoReport} \cup FiledReport]
    BY <1>3, <2>2, <2>3
  <2>6. AdjustmentsTables'
    BY <1>2, <1>4, <2>1, <2>3, <2>4, <2>5 DEF AdjustmentsInv, AdjustmentsTables
  <2>7. ledger \in LedgerTable
    BY DEF Books
  <2>8. \A other \in Report \ {d} :
          ledger'[DiscrepancyReference(other)] = ledger[DiscrepancyReference(other)]
    BY <1>1, <2>2, <2>7, AdjustmentsAssumption, ReferencesDiffer, RecordedElsewhere
  <2>9. \A x \in Key :
          LET flow == ledger'[DiscrepancyReference(d)][x]
          IN  flow.in - flow.out = IF x = report[d].key THEN report[d].delta_qty ELSE 0
    <3>1. report[d].delta_qty \in Int
      BY <1>1, <2>1 DEF FiledReport
    <3>2. \A x \in Key :
            AdjustmentOf(d)[x] = IF x = report[d].key THEN report[d].delta_qty ELSE 0
      BY <2>1 DEF AdjustmentOf, At
    <3>3. \A x \in Key :
            ledger[DiscrepancyReference(d)][x].in - ledger[DiscrepancyReference(d)][x].out = 0
      BY <1>5, <2>1
    <3>4. \A x \in Key :
            LET flow == ledger'[DiscrepancyReference(d)][x]
            IN  flow.in - flow.out
                  = ledger[DiscrepancyReference(d)][x].in
                      - ledger[DiscrepancyReference(d)][x].out + AdjustmentOf(d)[x]
      BY <1>1, <2>1, <2>2, <2>7, RecordedRow
    <3> QED BY <3>1, <3>2, <3>3, <3>4
  <2>10. AdjustedOnlyIfApproved'
    <3> SUFFICES ASSUME NEW other \in Report, NEW x \in Key
                 PROVE  LET flow == ledger'[DiscrepancyReference(other)][x]
                        IN  flow.in - flow.out =
                              IF report'[other] # NoReport /\ report'[other].status = "APPROVED"
                              THEN (IF x = report'[other].key THEN report'[other].delta_qty ELSE 0)
                              ELSE 0
      BY DEF AdjustedOnlyIfApproved
    <3>1. CASE other = d
      BY <2>3, <2>9, <3>1
    <3>2. CASE other # d
      BY <1>5, <2>4, <2>8, <3>2
    <3> QED BY <3>1, <3>2
  <2>11. \A r \in Return : ledger'[ReturnReference(r)] = ledger[ReturnReference(r)]
    BY <1>1, <2>2, <2>7, AdjustmentsAssumption, ReferencesDiffer, RecordedElsewhere
  <2>12. ReturnsAreBooked'
    BY <1>2, <2>11 DEF AdjustmentsInv, ReturnsAreBooked
  <2> QED BY <2>6, <2>10, <2>12 DEF AdjustmentsInv
<1>7. ASSUME UNCHANGED stockVars, AdjustmentsTables',
             \A other \in Report \ {d} : report'[other] = report[other],
             report[d] = NoReport \/ report[d].status # "APPROVED",
             report'[d].status # "APPROVED"
      PROVE  AdjustmentsInv'
  <2>1. AdjustedOnlyIfApproved'
    BY <1>5, <1>7 DEF AdjustedOnlyIfApproved, stockVars
  <2>2. ReturnsAreBooked'
    BY <1>2, <1>7 DEF AdjustmentsInv, ReturnsAreBooked, stockVars
  <2> QED BY <1>7, <2>1, <2>2 DEF AdjustmentsInv
<1>8. ASSUME NEW k \in Key, NEW counted \in 0 .. MaxQty, CreateDiscrepancy(d, k, counted)
      PROVE  AdjustmentsInv'
  <2> DEFINE filed == ReportOf(k, counted, balance[k].on_hand, "PENDING")
  <2>1. balance[k].on_hand \in 0 .. MaxQty
    BY <1>1 DEF Books, Consistent, Row
  <2>2. filed \in FiledReport
    BY <1>1, <2>1 DEF ReportOf, FiledReport, ReportStatus
  <2>3. /\ filed.delta_qty = filed.counted_qty - filed.system_qty
        /\ filed.status = "PENDING"
    BY DEF ReportOf
  <2>4. report' = [report EXCEPT ![d] = filed] /\ report[d] = NoReport /\ UNCHANGED stockVars
    BY <1>8 DEF CreateDiscrepancy
  <2>5. report'[d] = filed /\ \A other \in Report \ {d} : report'[other] = report[other]
    BY <1>3, <2>4
  <2>6. AdjustmentsTables'
    BY <1>2, <1>3, <1>4, <2>2, <2>3, <2>4, <2>5 DEF AdjustmentsInv, AdjustmentsTables
  <2> QED BY <1>7, <2>3, <2>4, <2>5, <2>6
<1>9. CASE RejectDiscrepancy(d)
  <2>1. report[d] \in FiledReport /\ report[d].status = "PENDING"
    BY <1>9, PendingIsFiled DEF RejectDiscrepancy, AdjustmentsInv, CanDecide
  <2>2. report' = [report EXCEPT ![d].status = "REJECTED"] /\ UNCHANGED stockVars
    BY <1>9 DEF RejectDiscrepancy
  <2>3. /\ report'[d] \in FiledReport /\ report'[d].status = "REJECTED"
        /\ report'[d].delta_qty = report[d].delta_qty
        /\ report'[d].counted_qty = report[d].counted_qty
        /\ report'[d].system_qty = report[d].system_qty
    BY <1>3, <2>1, <2>2 DEF FiledReport, ReportStatus
  <2>4. \A other \in Report \ {d} : report'[other] = report[other]
    BY <1>3, <2>2
  <2>5. report[d] # NoReport
    BY <2>1 DEF NoReport
  <2>6. report' \in [Report -> {NoReport} \cup FiledReport]
    BY <1>3, <2>2, <2>3
  <2>7. AdjustmentsTables'
    BY <1>2, <1>4, <2>3, <2>4, <2>5, <2>6 DEF AdjustmentsInv, AdjustmentsTables
  <2> QED BY <1>7, <2>1, <2>2, <2>3, <2>4, <2>7
<1> QED BY <1>6, <1>8, <1>9 DEF ReportRequest

LEMMA AdjustmentsStep ==
  Books /\ OutboundTables /\ AdjustmentsInv /\ [WarehouseNext]_warehouseVars => AdjustmentsInv'
<1> SUFFICES ASSUME Books, OutboundTables, AdjustmentsInv, [WarehouseNext]_warehouseVars
             PROVE  AdjustmentsInv'
  OBVIOUS
<1>1. CASE \E r \in Return : ReturnRequest(r)
  BY <1>1, ReturnStep
<1>2. CASE \E d \in Report : ReportRequest(d)
  BY <1>2, ReportStep
<1>3. CASE ~ (\E r \in Return : ReturnRequest(r)) /\ ~ (\E d \in Report : ReportRequest(d))
  <2>1. UNCHANGED <<returns, returned, scrapped, report>>
    BY <1>3, AdjustmentsAlone DEF adjustVars
  <2>2. /\ \A r \in Return : ledger'[ReturnReference(r)] = ledger[ReturnReference(r)]
        /\ \A d \in Report : ledger'[DiscrepancyReference(d)] = ledger[DiscrepancyReference(d)]
    BY <1>3, AdjustmentsAlone DEF AdjustmentReference
  <2> QED
    BY <2>1, <2>2 DEF AdjustmentsInv, AdjustmentsTables, AdjustedOnlyIfApproved, ReturnsAreBooked
<1> QED BY <1>1, <1>2, <1>3

-----------------------------------------------------------------------------
(* Shipments and what is charged for them *)

ShipmentTables ==
  /\ shipment \in [Shipment -> [status : ShipmentStatus, received_at : Day \cup {NoDay},
                                pdf : BOOLEAN]]
  /\ received \in [Shipment -> [Item -> 0 .. MaxQty]]

ShipmentsInv == ShipmentTables /\ ReceivedIsCharged

LEMMA ShipmentsInitially == WarehouseInit => ShipmentsInv
<1> SUFFICES ASSUME WarehouseInit PROVE ShipmentsInv
  OBVIOUS
<1>1. /\ shipment = [s \in Shipment |-> NoShipment]
      /\ received = [s \in Shipment |-> [i \in Item |-> 0]]
  BY DEF WarehouseInit, ShipmentsInit
<1>2. NoShipment \in [status : ShipmentStatus, received_at : Day \cup {NoDay}, pdf : BOOLEAN]
      /\ NoShipment.status = "NONE"
  BY DEF NoShipment, ShipmentStatus
<1>3. ShipmentTables
  BY <1>1, <1>2, SchemaAssumption DEF ShipmentTables
<1>4. ReceivedIsCharged
  BY <1>1, <1>2 DEF ReceivedIsCharged
<1> QED BY <1>3, <1>4 DEF ShipmentsInv

\* Nothing takes a charge back.
LEMMA ChargesGrow ==
  ASSUME [WarehouseNext]_warehouseVars
  PROVE  charge \subseteq charge'
<1>1. ASSUME NEW o \in Order, OutboundRequest(o) PROVE charge \subseteq charge'
  <2>1. ASSUME NEW loc \in Location, DispatchConfirm(o, loc) PROVE charge \subseteq charge'
    BY <2>1 DEF DispatchConfirm, ShipAndCharge, ShipAndRollBack, AddCharge
  <2>2. CASE PackingConfirm(o)
    BY <2>2 DEF PackingConfirm, AddCharge
  <2> QED
    BY <1>1, <2>1, <2>2
    DEF OutboundRequest, CreateOutbound, ApproveOutbound, GeneratePicks, StartTask, ScanPick,
        CompleteTask
<1>2. ASSUME NEW s \in Shipment, ShipmentRequest(s) PROVE charge \subseteq charge'
  <2>1. CASE CompleteInbound(s)
    BY <2>1 DEF CompleteInbound, CompleteEmpty, CompleteAndCharge, CompleteAgain, AddCharge
  <2> QED BY <1>2, <2>1 DEF ShipmentRequest, CreateInbound, StartReceiving, ScanLine
<1>3. CASE MoveRequest
  BY <1>3 DEF MoveRequest, ConfirmPutaway, Transfer, MoveStock
<1> QED BY <1>1, <1>2, <1>3 DEF WarehouseNext, NextDay, warehouseVars

\* A request about shipment s: its row stays a row, the others stay as they
\* are, and s is RECEIVED afterwards only with the charge it is RECEIVED by.
LEMMA ShipmentStep ==
  ASSUME OutboundTables, ShipmentsInv, NEW s \in Shipment, ShipmentRequest(s),
         charge \subseteq charge'
  PROVE  ShipmentsInv'
<1> DEFINE ShipmentRow == [status : ShipmentStatus, received_at : Day \cup {NoDay},
                           pdf : BOOLEAN]
           CoveredBy(c) == /\ c.type = "INBOUND_LINE" /\ c.reference = InboundReference(s)
                           /\ c.date = shipment'[s].received_at
                           /\ c.quantity = Cardinality(Lines(s))
<1>1. shipment \in [Shipment -> ShipmentRow] /\ received \in [Shipment -> [Item -> 0 .. MaxQty]]
  BY DEF ShipmentsInv, ShipmentTables
<1>2. today \in Day /\ MaxQty \in Nat
  BY SchemaAssumption DEF OutboundTables
<1>3. ASSUME shipment' \in [Shipment -> ShipmentRow],
             received' \in [Shipment -> [Item -> 0 .. MaxQty]],
             \A other \in Shipment \ {s} : shipment'[other] = shipment[other]
                                         /\ received'[other] = received[other],
             \/ shipment'[s].status # "RECEIVED"
             \/ received'[s] = received[s] /\ Lines(s) = {}
             \/ received'[s] = received[s] /\ \E c \in charge' : CoveredBy(c)
      PROVE  ShipmentsInv'
  <2>1. ASSUME NEW x \in Shipment, shipment'[x].status = "RECEIVED", Lines(x)' # {}
        PROVE  \E c \in charge' : /\ c.type = "INBOUND_LINE"
                                  /\ c.reference = InboundReference(x)
                                  /\ c.date = shipment'[x].received_at
                                  /\ c.quantity = Cardinality(Lines(x)')
    <3>1. CASE x = s
      <4>1. received'[s] = received[s] => Lines(s)' = Lines(s)
        BY DEF Lines
      <4> QED BY <1>3, <2>1, <3>1, <4>1
    <3>2. CASE x # s
      <4>1. Lines(x)' = Lines(x) /\ shipment'[x] = shipment[x]
        BY <1>3, <3>2 DEF Lines
      <4>2. \E c \in charge : /\ c.type = "INBOUND_LINE"
                              /\ c.reference = InboundReference(x)
                              /\ c.date = shipment[x].received_at
                              /\ c.quantity = Cardinality(Lines(x))
        BY <2>1, <4>1 DEF ShipmentsInv, ReceivedIsCharged, ChargesFor
      <4> QED BY <4>1, <4>2
    <3> QED BY <3>1, <3>2
  <2>2. ReceivedIsCharged'
    BY <2>1 DEF ReceivedIsCharged, ChargesFor
  <2> QED BY <1>3, <2>2 DEF ShipmentsInv, ShipmentTables
<1>4. CASE CreateInbound(s) \/ StartReceiving(s)
  <2>1. PICK status \in {"DRAFT", "RECEIVING"} : shipment' = [shipment EXCEPT ![s].status = status]
    BY <1>4 DEF CreateInbound, StartReceiving
  <2>2. UNCHANGED received
    BY <1>4 DEF CreateInbound, StartReceiving
  <2> QED BY <1>1, <1>3, <2>1, <2>2 DEF ShipmentStatus
<1>5. ASSUME NEW k \in Key, NEW qty \in 1 .. MaxQty, NEW unit \in Unit,
             ScanLine(s, k, qty, unit)
      PROVE  ShipmentsInv'
  <2> DEFINE pieces == Pieces(k.product, qty, unit)
  <2>1. pieces \in Nat /\ ItemOfKey(k) \in Item
    BY <1>2, <1>5, InboundAssumption DEF Pieces, Key, Item, ItemOfKey, ScanLine
  <2>2. /\ received' = [received EXCEPT ![s][ItemOfKey(k)] = @ + pieces]
        /\ received[s][ItemOfKey(k)] + pieces <= MaxQty
        /\ shipment' = [shipment EXCEPT ![s].status = "RECEIVING"]
    BY <1>5 DEF ScanLine, LineGrows, LineHolds
  <2>3. received[s][ItemOfKey(k)] + pieces \in 0 .. MaxQty
    BY <1>1, <1>2, <2>1, <2>2
  <2>4. received' \in [Shipment -> [Item -> 0 .. MaxQty]]
    BY <1>1, <2>2, <2>3
  <2>5. /\ shipment' \in [Shipment -> ShipmentRow]
        /\ shipment'[s].status = "RECEIVING"
        /\ \A other \in Shipment \ {s} : shipment'[other] = shipment[other]
    BY <1>1, <2>2 DEF ShipmentStatus
  <2>6. \A other \in Shipment \ {s} : received'[other] = received[other]
    BY <1>1, <2>2
  <2> QED BY <1>3, <2>4, <2>5, <2>6
<1>6. CASE CompleteInbound(s)
  <2>1. UNCHANGED received
    BY <1>6 DEF CompleteInbound
  <2>2. CASE CompleteEmpty(s)
    <3>1. shipment' = [shipment EXCEPT ![s] =
                         [status |-> "RECEIVED", received_at |-> today, pdf |-> TRUE]]
          /\ Lines(s) = {}
      BY <2>2 DEF CompleteEmpty
    <3> QED BY <1>1, <1>2, <1>3, <2>1, <3>1 DEF ShipmentStatus
  <2>3. ASSUME NEW stored \in BOOLEAN, CompleteAndCharge(s, stored) PROVE ShipmentsInv'
    <3> DEFINE row == [status |-> "RECEIVED", received_at |-> today,
                       pdf |-> shipment[s].pdf \/ stored]
               e == Event("INBOUND_LINE", InboundReference(s), Cardinality(Lines(s)))
    <3>1. shipment' = [shipment EXCEPT ![s] = row] /\ e \in charge'
      BY <2>3 DEF CompleteAndCharge, AddCharge
    <3>2. row \in ShipmentRow
      BY <1>2 DEF ShipmentStatus
    <3>3. shipment' \in [Shipment -> ShipmentRow] /\ shipment'[s] = row
          /\ \A other \in Shipment \ {s} : shipment'[other] = shipment[other]
      BY <1>1, <3>1, <3>2
    <3>4. CoveredBy(e)
      BY <3>3 DEF Event
    <3> QED BY <1>1, <1>3, <2>1, <3>1, <3>3, <3>4
  <2>4. ASSUME NEW stored \in BOOLEAN, CompleteAgain(s, stored), Lines(s) # {}
        PROVE  ShipmentsInv'
    <3> DEFINE row == [shipment[s] EXCEPT !.pdf = @ \/ stored]
    <3>1. shipment' = [shipment EXCEPT ![s] = row]
      BY <1>1, <2>4 DEF CompleteAgain
    <3>2. row \in ShipmentRow /\ row.status = shipment[s].status
          /\ row.received_at = shipment[s].received_at
      BY <1>1
    <3>3. shipment' \in [Shipment -> ShipmentRow] /\ shipment'[s] = row
          /\ \A other \in Shipment \ {s} : shipment'[other] = shipment[other]
      BY <1>1, <3>1, <3>2
    <3>4. shipment[s].status = "RECEIVED" => \E c \in charge : CoveredBy(c)
      BY <2>4, <3>2, <3>3 DEF ShipmentsInv, ReceivedIsCharged, ChargesFor
    <3>5. shipment'[s].status # "RECEIVED" \/ \E c \in charge' : CoveredBy(c)
      BY <3>2, <3>3, <3>4
    <3> HIDE DEF CoveredBy, row
    <3> QED BY <1>1, <1>3, <2>1, <3>3, <3>5
  <2> QED BY <1>6, <2>2, <2>3, <2>4 DEF CompleteInbound
<1> QED BY <1>4, <1>5, <1>6 DEF ShipmentRequest

LEMMA ShipmentsStep ==
  OutboundTables /\ ShipmentsInv /\ [WarehouseNext]_warehouseVars => ShipmentsInv'
<1> SUFFICES ASSUME OutboundTables, ShipmentsInv, [WarehouseNext]_warehouseVars
             PROVE  ShipmentsInv'
  OBVIOUS
<1>1. charge \subseteq charge'
  BY ChargesGrow
<1>2. CASE \E s \in Shipment : ShipmentRequest(s)
  BY <1>1, <1>2, ShipmentStep
<1>3. CASE UNCHANGED shipmentVars
  <2>1. shipment' = shipment /\ received' = received
    BY <1>3 DEF shipmentVars
  <2>2. \A s \in Shipment : Lines(s)' = Lines(s)
    BY <2>1 DEF Lines
  <2> QED
    BY <1>1, <2>1, <2>2 DEF ShipmentsInv, ShipmentTables, ReceivedIsCharged, ChargesFor
<1>4. UNCHANGED warehouseVars => UNCHANGED shipmentVars
  BY DEF warehouseVars, shipmentVars
<1> QED BY <1>2, <1>3, <1>4 DEF WarehouseNext

-----------------------------------------------------------------------------
(* The inductive invariant of the warehouse *)

WarehouseInv == Books /\ OutboundTables /\ SumHolds /\ TasksFollow /\ AdjustmentsInv
                  /\ ShipmentsInv

LEMMA WarehouseInitially == WarehouseInit => WarehouseInv
BY OutboundBooksInit, OutboundTablesInit, SumInit, TasksInit, AdjustmentsInitially,
   ShipmentsInitially
DEF WarehouseInit, WarehouseInv

LEMMA QuietKeeps ==
  ASSUME OutboundTables, SumHolds, TasksFollow, Quiet
  PROVE  Books' /\ OutboundTables' /\ SumHolds' /\ TasksFollow'
<1>1. OutboundTables'
  BY DEF OutboundTables, Quiet, orderVars
<1>2. SumHolds'
  BY DEF SumHolds, ReservedAt, Quiet, orderVars, AddsUp, CountsUp
<1>3. TasksFollow'
  BY DEF TasksFollow, PickLinesMatchReservations, Quiet, orderVars
<1> QED BY <1>1, <1>2, <1>3 DEF Quiet

LEMMA WarehouseStep == WarehouseInv /\ [WarehouseNext]_warehouseVars => WarehouseInv'
<1> SUFFICES ASSUME WarehouseInv, [WarehouseNext]_warehouseVars PROVE WarehouseInv'
  OBVIOUS
<1> USE DEF WarehouseInv
<1>1. AdjustmentsInv' /\ ShipmentsInv'
  BY AdjustmentsStep, ShipmentsStep
<1>2. CASE [OutboundNext]_outboundVars
  <2>1. Books' /\ OutboundTables'
    BY <1>2, OutboundBooksStep, OutboundTablesStep
  <2>2. SumHolds' /\ TasksFollow'
    BY <1>2, <2>1, SumStep, TasksStep
  <2> QED BY <1>1, <2>1, <2>2
<1>3. CASE Quiet
  BY <1>1, <1>3, QuietKeeps
<1> QED BY <1>2, <1>3, StepCases DEF AdjustmentsInv

LEMMA WarehouseInvariant == WarehouseSpec => []WarehouseInv
BY WarehouseInitially, WarehouseStep, PTL DEF WarehouseSpec

-----------------------------------------------------------------------------
(* Theorems *)

\* Whatever is received, moved, returned, corrected, reserved, picked and
\* dispatched, every balance row stays consistent.
THEOREM HouseRowsStayConsistent == WarehouseSpec => []BalanceConsistent
<1>1. WarehouseInv => BalanceConsistent
  BY BooksIsBoth DEF WarehouseInv
<1> QED BY <1>1, WarehouseInvariant, PTL

\* No receipt, move, return or correction comes between the reserved_qty of a
\* balance row and the reservations of the orders that make it up.
THEOREM HouseReservedIsSum == WarehouseSpec => []ReservedIsSumOfOrders
<1>1. WarehouseInv => ReservedIsSumOfOrders
  BY SumIsProperty DEF WarehouseInv
<1> QED BY <1>1, WarehouseInvariant, PTL

\* What a task still asks for is there to be picked, whatever else the house
\* has done with the stock since it was reserved.
THEOREM HouseLinesArePickable == WarehouseSpec => []PromisedStockIsPickable
<1>1. WarehouseInv => PromisedStockIsPickable
  BY PickableFromInvariant DEF WarehouseInv
<1> QED BY <1>1, WarehouseInvariant, PTL

LEMMA HousePromiseStep ==
  WarehouseInv /\ WarehouseInv' /\ [WarehouseNext]_warehouseVars
    => [Promise!HouseNext]_(Promise!promiseVars)
<1> SUFFICES ASSUME WarehouseInv, WarehouseInv', [WarehouseNext]_warehouseVars
             PROVE  [Promise!HouseNext]_(Promise!promiseVars)
  OBVIOUS
<1>1. CASE [OutboundNext]_outboundVars
  BY <1>1, PromiseStep DEF WarehouseInv, Promise!HouseNext
<1>2. CASE Quiet
  <2>1. /\ [k \in Key |-> balance'[k].available] \in [Key -> Nat]
        /\ reservation' \in [Order -> [Key -> Nat]]
    BY DEF WarehouseInv, Books, Consistent, Row, OutboundTables, Plan
  <2>2. UNCHANGED reservation
    BY <1>2 DEF Quiet, orderVars
  <2> QED
    BY <2>1, <2>2 DEF Promise!HouseNext, Promise!PromiseTypeOK, Promise!Rearrange
<1> QED BY <1>1, <1>2, StepCases DEF WarehouseInv, AdjustmentsInv

\* The warehouse implements the house of StockPromise: stock reserved for an
\* order stays reserved until it is picked for that order.
THEOREM HouseKeepsItsPromises == WarehouseSpec => HouseKeepsPromises
<1>1. WarehouseInv /\ WarehouseInit => Promise!PromiseInit
  BY PromiseStart DEF WarehouseInv, WarehouseInit
<1> QED
  BY <1>1, WarehouseInvariant, HousePromiseStep, PTL
  DEF WarehouseSpec, HouseKeepsPromises, Promise!HouseSpec

\* The tables of returns and discrepancy reports keep their types.
THEOREM AdjustmentsTypeCorrect == WarehouseSpec => []AdjustmentsTypeOK
<1>1. WarehouseInv => AdjustmentsTypeOK
  BY BooksIsBoth
  DEF WarehouseInv, AdjustmentsInv, AdjustmentsTables, AdjustmentsTypeOK, Plan,
      FiledReport, ReportStatus
<1> QED BY <1>1, WarehouseInvariant, PTL

\* However many reports are pending for a row, and whatever else is posted to
\* it, the ledger rows of a report are its difference once, if it was approved.
THEOREM NoAdjustmentWithoutApproval == WarehouseSpec => []AdjustedOnlyIfApproved
<1>1. WarehouseInv => AdjustedOnlyIfApproved
  BY DEF WarehouseInv, AdjustmentsInv
<1> QED BY <1>1, WarehouseInvariant, PTL

\* The lines of a return and its ledger rows agree, location by location, in
\* whatever status it is scanned.
THEOREM ReturnsStayBooked == WarehouseSpec => []ReturnsAreBooked
<1>1. WarehouseInv => ReturnsAreBooked
  BY DEF WarehouseInv, AdjustmentsInv
<1> QED BY <1>1, WarehouseInvariant, PTL

LEMMA LateApprovalStep ==
  WarehouseInv /\ [WarehouseNext]_warehouseVars =>
    \A d \in Report :
      report[d] # report'[d] /\ report'[d].status = "APPROVED" =>
        LET k == report[d].key
        IN  balance'[k].on_hand - report[d].counted_qty
              = balance[k].on_hand - report[d].system_qty
<1> SUFFICES ASSUME WarehouseInv, [WarehouseNext]_warehouseVars, NEW d \in Report,
                    report[d] # report'[d], report'[d].status = "APPROVED"
             PROVE  LET k == report[d].key
                    IN  balance'[k].on_hand - report[d].counted_qty
                          = balance[k].on_hand - report[d].system_qty
  OBVIOUS
<1>1. Books /\ OutboundTables /\ AdjustmentsTables
  BY DEF WarehouseInv, AdjustmentsInv
<1>2. report \in [Report -> {NoReport} \cup FiledReport]
  BY <1>1 DEF AdjustmentsTables
<1>3. \A r \in Return : ReturnRequest(r) => UNCHANGED report
  BY DEF ReturnRequest, CreateReturn, ReturnToStock, Scrap, CompleteReturn
<1>4. PICK x \in Report : ReportRequest(x)
  BY <1>1, <1>3, AdjustmentsAlone DEF adjustVars
<1>5. ApproveDiscrepancy(d)
  <2>1. ASSUME NEW k \in Key, NEW counted \in 0 .. MaxQty, CreateDiscrepancy(x, k, counted)
        PROVE  FALSE
    <3>1. ReportOf(k, counted, balance[k].on_hand, "PENDING").status = "PENDING"
      BY DEF ReportOf
    <3>2. report' = [report EXCEPT ![x] = ReportOf(k, counted, balance[k].on_hand, "PENDING")]
      BY <2>1 DEF CreateDiscrepancy
    <3> QED BY <1>2, <3>1, <3>2
  <2>2. ASSUME RejectDiscrepancy(x) PROVE FALSE
    <3>1. report[x] \in FiledReport
      BY <1>1, <2>2, PendingIsFiled DEF RejectDiscrepancy
    <3>2. report' = [report EXCEPT ![x].status = "REJECTED"]
      BY <2>2 DEF RejectDiscrepancy
    <3>3. report'[x].status = "REJECTED"
      BY <1>2, <3>1, <3>2 DEF FiledReport
    <3> QED BY <1>2, <3>2, <3>3
  <2>3. ApproveDiscrepancy(x)
    BY <1>4, <2>1, <2>2 DEF ReportRequest
  <2>4. x = d
    BY <1>2, <2>3 DEF ApproveDiscrepancy
  <2> QED BY <2>3, <2>4
<1>6. /\ report[d] \in FiledReport /\ AdjustmentOf(d) \in Delta
      /\ report[d].delta_qty = report[d].counted_qty - report[d].system_qty
  BY <1>1, <1>5, PendingIsFiled, AdjustmentIsDelta
  DEF ApproveDiscrepancy, AdjustmentsTables, CanDecide, NoReport
<1>7. /\ report[d].key \in Key /\ report[d].counted_qty \in Int
      /\ report[d].system_qty \in Int
  BY <1>6, SchemaAssumption DEF FiledReport
<1>8. balance'[report[d].key].on_hand = balance[report[d].key].on_hand + report[d].delta_qty
  <2>1. AdjustmentOf(d)[report[d].key] = report[d].delta_qty
    BY <1>7 DEF AdjustmentOf, At
  <2> QED BY <1>1, <1>5, <1>6, <1>7, <2>1, PostedRow DEF ApproveDiscrepancy, Books
<1>9. balance[report[d].key].on_hand \in Int
  BY <1>1, <1>7 DEF Books, Consistent, Row
<1> QED BY <1>6, <1>7, <1>8, <1>9

\* An approval corrects what was counted and nothing else, however long after
\* the count it comes and whatever has moved through the row meanwhile.
THEOREM ApprovalKeepsMovements == WarehouseSpec => LateApprovalKeepsMovements
<1>1. WarehouseInv /\ [WarehouseNext]_warehouseVars =>
        [\A d \in Report :
           report[d] # report'[d] /\ report'[d].status = "APPROVED" =>
             LET k == report[d].key
             IN  balance'[k].on_hand - report[d].counted_qty
                   = balance[k].on_hand - report[d].system_qty]_adjustmentsVars
  BY LateApprovalStep
<1> QED BY <1>1, WarehouseInvariant, PTL DEF WarehouseSpec, LateApprovalKeepsMovements

\* The tables of shipments keep their types, the total of a line included.
THEOREM InboundTypeCorrect == WarehouseSpec => []InboundTypeOK
<1>1. WarehouseInv => InboundTypeOK
  BY BooksIsBoth DEF WarehouseInv, OutboundTables, ShipmentsInv, ShipmentTables, InboundTypeOK
<1> QED BY <1>1, WarehouseInvariant, PTL

\* However often a shipment is reopened and completed again, on one day or
\* several, it is RECEIVED only with a charge of its date for all its lines.
THEOREM ReceiptsAreCharged == WarehouseSpec => []ReceivedIsCharged
<1>1. WarehouseInv => ReceivedIsCharged
  BY DEF WarehouseInv, ShipmentsInv
<1> QED BY <1>1, WarehouseInvariant, PTL

-----------------------------------------------------------------------------
(* What a step does to the books and to the documents that account for them *)

Approved == [d \in Report |-> IF report[d].status = "APPROVED" THEN report[d] ELSE NoReport]
DocumentsKeep == UNCHANGED <<received, returned, Approved>>

\* A scan of q pieces at k for shipment s.
Scanned(s, k, q) ==
  /\ balance' = Posted(balance, At(k, q))
  /\ ledger' = Recorded(ledger, InboundReference(s), At(k, q))
  /\ received' = [received EXCEPT ![s][ItemOfKey(k)] = @ + q]
  /\ UNCHANGED adjustVars

LEMMA ReportsKept == UNCHANGED adjustVars => UNCHANGED <<returned, Approved>>
BY DEF adjustVars, Approved

LEMMA DocumentsStepCases ==
  ASSUME Books, OutboundTables, AdjustmentsTables, [WarehouseNext]_warehouseVars
  PROVE  \/ DocumentsKeep /\ [OutboundNext]_outboundVars
         \/ DocumentsKeep /\ UNCHANGED stockVars
         \/ DocumentsKeep /\ \E ref \in MoveReference, k \in Key, to \in Location, q \in Nat :
                               MoveStock(k, to, q, ref) /\ OnlyFor(ref)
         \/ \E s \in Shipment, k \in Key, q \in Nat :
              Scanned(s, k, q) /\ OnlyFor(InboundReference(s))
         \/ \E r \in Return, disposition \in Disposition, k \in Key, q \in Nat :
              /\ ReturnToStock(r, disposition, k, q) /\ OnlyFor(ReturnReference(r))
              /\ UNCHANGED received
         \/ \E d \in Report :
              /\ ApproveDiscrepancy(d) /\ OnlyFor(DiscrepancyReference(d))
              /\ UNCHANGED received
<1>1. ASSUME NEW o \in Order, OutboundRequest(o) /\ UNCHANGED <<shipmentVars, adjustVars>>
      PROVE  DocumentsKeep /\ [OutboundNext]_outboundVars
  BY <1>1, ReportsKept DEF OutboundNext, DocumentsKeep, shipmentVars
<1>2. CASE NextDay /\ UNCHANGED <<orderVars, shipmentVars, adjustVars>>
  BY <1>2, ReportsKept DEF OutboundNext, DocumentsKeep, shipmentVars
<1>3. CASE UNCHANGED warehouseVars
  <2>1. UNCHANGED <<received, adjustVars, stockVars>>
    BY <1>3 DEF warehouseVars, adjustVars, stockVars
  <2> QED BY <2>1, ReportsKept DEF DocumentsKeep
<1>4. CASE MoveRequest /\ UNCHANGED <<orderVars, shipmentVars, adjustVars>>
  <2>1. \E ref \in MoveReference, k \in Key, to \in Location, q \in Nat :
          MoveStock(k, to, q, ref) /\ OnlyFor(ref)
    BY <1>4, MoveWrites
  <2> QED BY <1>4, <2>1, ReportsKept DEF DocumentsKeep, shipmentVars
<1>5. ASSUME NEW s \in Shipment, ShipmentRequest(s) /\ UNCHANGED <<orderVars, adjustVars>>
      PROVE  \/ DocumentsKeep /\ UNCHANGED stockVars
             \/ \E k \in Key, q \in Nat : Scanned(s, k, q)
  <2>1. ASSUME NEW k \in Key, NEW qty \in 1 .. MaxQty, NEW unit \in Unit,
               ScanLine(s, k, qty, unit)
        PROVE  \E q \in Nat : Scanned(s, k, q)
    <3>1. Pieces(k.product, qty, unit) \in Nat
      BY InboundAssumption, SchemaAssumption DEF Pieces, Key
    <3>2. Scanned(s, k, Pieces(k.product, qty, unit))
      BY <1>5, <2>1 DEF ScanLine, LineGrows, Scanned
    <3> QED BY <3>1, <3>2
  <2>2. CASE CreateInbound(s) \/ StartReceiving(s) \/ CompleteInbound(s)
    <3>1. UNCHANGED stockVars /\ UNCHANGED received
      BY <2>2 DEF CreateInbound, StartReceiving, CompleteInbound
    <3> QED BY <1>5, <3>1, ReportsKept DEF DocumentsKeep
  <2> QED BY <1>5, <2>1, <2>2 DEF ShipmentRequest
<1>6. ASSUME NEW r \in Return,
             ReturnRequest(r) /\ UNCHANGED <<charge, today, orderVars, shipmentVars>>
      PROVE  \/ DocumentsKeep /\ UNCHANGED stockVars
             \/ \E disposition \in Disposition, k \in Key, q \in Nat :
                  ReturnToStock(r, disposition, k, q) /\ UNCHANGED received
  <2>1. 1 .. MaxQty \subseteq Nat /\ UNCHANGED received
    BY <1>6, SchemaAssumption DEF shipmentVars
  <2>2. ASSUME UNCHANGED <<stockVars, returned, report>>
        PROVE  DocumentsKeep /\ UNCHANGED stockVars
    BY <2>1, <2>2 DEF DocumentsKeep, Approved
  <2> QED
    BY <1>6, <2>1, <2>2 DEF ReturnRequest, CreateReturn, Scrap, CompleteReturn
<1>7. ASSUME NEW d \in Report,
             ReportRequest(d) /\ UNCHANGED <<charge, today, orderVars, shipmentVars>>
      PROVE  \/ DocumentsKeep /\ UNCHANGED stockVars
             \/ ApproveDiscrepancy(d) /\ UNCHANGED received
  <2>1. report \in [Report -> {NoReport} \cup FiledReport] /\ UNCHANGED received
    BY <1>7 DEF AdjustmentsTables, shipmentVars
  <2>2. ASSUME UNCHANGED <<stockVars, returned>>, report[d].status # "APPROVED",
               report'[d].status # "APPROVED",
               \A other \in Report \ {d} : report'[other] = report[other]
        PROVE  DocumentsKeep /\ UNCHANGED stockVars
    <3>1. \A x \in Report : (IF report'[x].status = "APPROVED" THEN report'[x] ELSE NoReport)
                              = (IF report[x].status = "APPROVED" THEN report[x] ELSE NoReport)
      BY <2>2
    <3> QED BY <2>1, <2>2, <3>1 DEF DocumentsKeep, Approved
  <2>3. ASSUME NEW k \in Key, NEW counted \in 0 .. MaxQty, CreateDiscrepancy(d, k, counted)
        PROVE  DocumentsKeep /\ UNCHANGED stockVars
    <3>1. /\ report' = [report EXCEPT ![d] = ReportOf(k, counted, balance[k].on_hand, "PENDING")]
          /\ UNCHANGED <<stockVars, returned>> /\ report[d].status = "NONE"
      BY <2>3 DEF CreateDiscrepancy, NoReport
    <3>2. ReportOf(k, counted, balance[k].on_hand, "PENDING").status = "PENDING"
      BY DEF ReportOf
    <3> QED BY <2>1, <2>2, <3>1, <3>2
  <2>4. CASE RejectDiscrepancy(d)
    <3>1. /\ report' = [report EXCEPT ![d].status = "REJECTED"]
          /\ UNCHANGED <<stockVars, returned>> /\ report[d].status = "PENDING"
          /\ report[d] \in FiledReport
      BY <2>4, PendingIsFiled DEF RejectDiscrepancy, CanDecide
    <3>2. report'[d].status = "REJECTED"
      BY <2>1, <3>1 DEF FiledReport
    <3> QED BY <2>1, <2>2, <3>1, <3>2
  <2> QED BY <1>7, <2>1, <2>3, <2>4 DEF ReportRequest
<1>8. /\ \A s \in Shipment : ShipmentRequest(s) => OnlyFor(InboundReference(s))
      /\ \A r \in Return : ReturnRequest(r) => OnlyFor(ReturnReference(r))
      /\ \A d \in Report : ReportRequest(d) => OnlyFor(DiscrepancyReference(d))
  BY ShipmentWrites, ReturnWrites, ReportWrites
<1> QED BY <1>1, <1>2, <1>3, <1>4, <1>5, <1>6, <1>7, <1>8 DEF WarehouseNext

-----------------------------------------------------------------------------
(* The ledger of the house adds up to its balances *)

LEMMA HouseReconcilesStep ==
  WarehouseInv /\ Reconciles(ledger, balance) /\ [WarehouseNext]_warehouseVars
    => Reconciles(ledger, balance)'
<1> SUFFICES ASSUME WarehouseInv, Reconciles(ledger, balance), [WarehouseNext]_warehouseVars
             PROVE  Reconciles(ledger', balance')
  BY DEF Reconciles, NetOf
<1>1. Books /\ OutboundTables /\ AdjustmentsTables
  BY DEF WarehouseInv, AdjustmentsInv
<1>2. Consistent(balance) /\ ledger \in LedgerTable
  BY <1>1 DEF Books
<1>3. CASE [OutboundNext]_outboundVars
  <2>1. Reconciles(ledger, balance)'
    BY <1>1, <1>3, ReconcilesStep
  <2> QED BY <2>1 DEF Reconciles, NetOf
<1>4. CASE UNCHANGED stockVars
  BY <1>4 DEF stockVars
<1>5. ASSUME NEW ref \in MoveReference, NEW k \in Key, NEW to \in Location, NEW q \in Nat,
             MoveStock(k, to, q, ref)
      PROVE  Reconciles(ledger', balance')
  BY <1>2, <1>5, ReferencesExist, MoveReconciles DEF MoveStock
<1>6. ASSUME NEW s \in Shipment, NEW k \in Key, NEW q \in Nat, Scanned(s, k, q)
      PROVE  Reconciles(ledger', balance')
  BY <1>2, <1>6, InboundAssumption, DeltaType, PostReconciles DEF Scanned
<1>7. ASSUME NEW r \in Return, NEW disposition \in Disposition, NEW k \in Key, NEW q \in Nat,
             ReturnToStock(r, disposition, k, q)
      PROVE  Reconciles(ledger', balance')
  BY <1>2, <1>7, AdjustmentsAssumption, DeltaType, PostReconciles DEF ReturnToStock, PostReturned
<1>8. ASSUME NEW d \in Report, ApproveDiscrepancy(d)
      PROVE  Reconciles(ledger', balance')
  <2>1. AdjustmentOf(d) \in Delta
    BY <1>1, <1>8, AdjustmentIsDelta DEF ApproveDiscrepancy
  <2> QED BY <1>2, <1>8, <2>1, AdjustmentsAssumption, PostReconciles DEF ApproveDiscrepancy
<1> QED BY <1>1, <1>3, <1>4, <1>5, <1>6, <1>7, <1>8, DocumentsStepCases

\* The ledger rows of all documents of the house, put-away and transfers
\* included, add up to the stored on_hand_qty of every row.
THEOREM HouseLedgerReconciles == WarehouseSpec => []LedgerReconciles
<1>1. Reconciles(ledger, balance) => LedgerReconciles
  BY ReconcilesIsProperty
<1>2. WarehouseInit => Reconciles(ledger, balance)
  BY ReconcilesInit DEF WarehouseInit
<1> QED BY <1>1, <1>2, WarehouseInvariant, HouseReconcilesStep, PTL DEF WarehouseSpec

-----------------------------------------------------------------------------
(* What the lines of a shipment say and what its ledger rows say *)

PlacesOf(i) == {k \in Key : ItemOfKey(k) = i}

LEMMA PlacesFinite == \A i : IsFiniteSet(PlacesOf(i)) /\ PlacesOf(i) \subseteq Key
BY KeyFinite, FS_Subset DEF PlacesOf

LEMMA ItemsOfKeys == \A k \in Key : ItemOfKey(k) \in Item
BY DEF Key, Item, ItemOfKey

\* A sum over the locations of an item rises by what is added at one of them.
LEMMA PlacesRaised ==
  ASSUME NEW f, NEW g, \A x \in Key : f[x] \in Int, NEW k \in Key, NEW q \in Int,
         \A x \in Key : g[x] = f[x] + (IF x = k THEN q ELSE 0), NEW i
  PROVE  SumOverLocations(g, i) = SumOverLocations(f, i) + (IF ItemOfKey(k) = i THEN q ELSE 0)
<1>1. \A x \in Key : g[x] \in Int /\ (x # k => f[x] = g[x])
  OBVIOUS
<1>2. IsFiniteSet(PlacesOf(i)) /\ PlacesOf(i) \subseteq Key
  BY PlacesFinite
<1>3. /\ SumFunctionOnSet(f, PlacesOf(i)) \in Int
      /\ SumOverLocations(f, i) = SumFunctionOnSet(f, PlacesOf(i))
      /\ SumOverLocations(g, i) = SumFunctionOnSet(g, PlacesOf(i))
  BY <1>2, SumInt DEF SumOverLocations, PlacesOf
<1>4. CASE ItemOfKey(k) = i
  <2>1. k \in PlacesOf(i)
    BY <1>4 DEF PlacesOf
  <2>2. SumFunctionOnSet(g, PlacesOf(i))
          = SumFunctionOnSet(f, PlacesOf(i)) + (g[k] - f[k])
    BY <1>1, <1>2, <2>1, SumChange
  <2>3. g[k] - f[k] = q
    OBVIOUS
  <2> QED BY <1>3, <1>4, <2>2, <2>3
<1>5. CASE ItemOfKey(k) # i
  <2>1. \A x \in PlacesOf(i) : f[x] = g[x]
    BY <1>1, <1>5 DEF PlacesOf
  <2>2. SumFunctionOnSet(f, PlacesOf(i)) = SumFunctionOnSet(g, PlacesOf(i))
    BY <1>2, <2>1, SumAgree
  <2> QED BY <1>3, <1>5, <2>2
<1> QED BY <1>4, <1>5

LEMMA ReceiptsInitially == WarehouseInit => ReceiptsAreBooked
<1> SUFFICES ASSUME WarehouseInit, NEW s \in Shipment, NEW i \in Item
             PROVE  received[s][i] = SumOverLocations(InOf(ledger, InboundReference(s)), i)
  BY DEF ReceiptsAreBooked, InOf
<1> DEFINE f == InOf(ledger, InboundReference(s))
<1>1. InboundReference(s) \in Reference \ {OpeningReference}
  BY InboundAssumption, WarehouseAssumption
<1>2. \A k \in Key : f[k] = 0
  BY <1>1 DEF WarehouseInit, OutboundInit, InOf
<1> HIDE DEF f
<1>3. SumFunctionOnSet(f, PlacesOf(i)) = 0
  BY <1>2, PlacesFinite, SumZero
<1>4. received[s][i] = 0
  BY DEF WarehouseInit, ShipmentsInit
<1> QED BY <1>3, <1>4 DEF f, SumOverLocations, PlacesOf

\* Only a scan touches the lines of shipments or the ledger rows that name one.
LEMMA ReceiptsStepCases ==
  ASSUME Books, OutboundTables, AdjustmentsTables, [WarehouseNext]_warehouseVars
  PROVE  \/ \E s \in Shipment, k \in Key, q \in Nat : Scanned(s, k, q)
         \/ /\ UNCHANGED received
            /\ \A ref \in InboundReferences : ledger'[ref] = ledger[ref]
<1> DEFINE Apart == \A ref \in InboundReferences : ledger'[ref] = ledger[ref]
<1>1. ASSUME NEW ref, ref \notin InboundReferences, OnlyFor(ref) PROVE Apart
  BY <1>1, ReferencesExist DEF OnlyFor
<1>2. ASSUME [OutboundNext]_outboundVars PROVE Apart
  <2>1. ASSUME NEW o \in Order, OutboundRequest(o) PROVE Apart
    BY <1>1, <2>1, OrderWrites, ReferencesDiffer
  <2> QED BY <1>2, <2>1 DEF OutboundNext, NextDay, stockVars, outboundVars
<1>3. ASSUME UNCHANGED stockVars PROVE Apart
  BY <1>3 DEF stockVars
<1>4. /\ \A ref \in MoveReference : ref \notin InboundReferences
      /\ \A r \in Return : ReturnReference(r) \notin InboundReferences
      /\ \A d \in Report : DiscrepancyReference(d) \notin InboundReferences
  BY ReferencesDiffer DEF AdjustmentReference, InboundReferences
<1>5. DocumentsKeep => UNCHANGED received
  BY DEF DocumentsKeep
<1> HIDE DEF Apart
<1>6. \/ \E s \in Shipment, k \in Key, q \in Nat : Scanned(s, k, q)
      \/ UNCHANGED received /\ Apart
  BY <1>1, <1>2, <1>3, <1>4, <1>5, DocumentsStepCases
<1> QED BY <1>6 DEF Apart

LEMMA ReceiptsStep ==
  WarehouseInv /\ ReceiptsAreBooked /\ [WarehouseNext]_warehouseVars => ReceiptsAreBooked'
<1> SUFFICES ASSUME WarehouseInv, ReceiptsAreBooked, [WarehouseNext]_warehouseVars,
                    NEW s \in Shipment, NEW i \in Item
             PROVE  received'[s][i] = SumOverLocations(InOf(ledger', InboundReference(s)), i)
  BY DEF ReceiptsAreBooked, InOf
<1> DEFINE ref == InboundReference(s)
<1>1. Books /\ OutboundTables /\ AdjustmentsTables
      /\ received \in [Shipment -> [Item -> 0 .. MaxQty]] /\ MaxQty \in Nat
  BY SchemaAssumption DEF WarehouseInv, AdjustmentsInv, ShipmentsInv, ShipmentTables
<1>2. ledger \in LedgerTable /\ ref \in Reference
  BY <1>1, InboundAssumption DEF Books
<1>3. received[s][i] = SumOverLocations(InOf(ledger, ref), i) /\ received[s][i] \in Int
  BY <1>1 DEF ReceiptsAreBooked, InOf
<1>4. ASSUME ledger'[ref] = ledger[ref], received'[s] = received[s]
      PROVE  received'[s][i] = SumOverLocations(InOf(ledger', ref), i)
  BY <1>3, <1>4 DEF InOf
<1>5. ASSUME NEW x \in Shipment, NEW k \in Key, NEW q \in Nat, Scanned(x, k, q)
      PROVE  received'[s][i] = SumOverLocations(InOf(ledger', ref), i)
  <2>1. /\ ledger' = Recorded(ledger, InboundReference(x), At(k, q))
        /\ received' = [received EXCEPT ![x][ItemOfKey(k)] = @ + q]
        /\ InboundReference(x) \in Reference /\ At(k, q) \in Delta
    BY <1>5, InboundAssumption, DeltaType DEF Scanned
  <2>2. CASE x # s
    BY <1>1, <1>2, <1>4, <2>1, <2>2, RecordedElsewhere, ReferencesDiffer
  <2>3. CASE x = s
    <3>1. received'[s][i] = received[s][i] + (IF ItemOfKey(k) = i THEN q ELSE 0)
      BY <1>1, <1>3, <2>1, <2>3, ItemsOfKeys
    <3>2. \A z \in Key : InOf(ledger, ref)[z] \in Int
      BY <1>2, FlowTypes
    <3>3. ASSUME NEW z \in Key
          PROVE  InOf(ledger', ref)[z] = InOf(ledger, ref)[z] + (IF z = k THEN q ELSE 0)
      <4>1. At(k, q)[z] = (IF z = k THEN q ELSE 0)
        BY DEF At
      <4>2. ledger'[ref][z].in = ledger[ref][z].in + (IF At(k, q)[z] > 0 THEN At(k, q)[z] ELSE 0)
        BY <1>2, <2>1, <2>3, RecordedRow
      <4>3. ledger[ref][z].in \in Int
        BY <3>2 DEF InOf
      <4> QED BY <4>1, <4>2, <4>3 DEF InOf
    <3> DEFINE f == InOf(ledger, ref)
               g == InOf(ledger', ref)
    <3>4. q \in Int /\ \A z \in Key : f[z] \in Int /\ g[z] = f[z] + (IF z = k THEN q ELSE 0)
      BY <3>2, <3>3
    <3> HIDE DEF f, g
    <3>5. SumOverLocations(g, i) = SumOverLocations(f, i) + (IF ItemOfKey(k) = i THEN q ELSE 0)
      BY <3>4, PlacesRaised
    <3> QED BY <1>3, <3>1, <3>5 DEF f, g
  <2> QED BY <2>2, <2>3
<1> QED BY <1>1, <1>4, <1>5, ReceiptsStepCases DEF InboundReferences

\* What the lines of a shipment say was received is what its ledger rows
\* brought into the books, whatever unit was scanned and however often the
\* shipment was reopened.
THEOREM ReceiptsStayBooked == WarehouseSpec => []ReceiptsAreBooked
BY WarehouseInvariant, ReceiptsInitially, ReceiptsStep, PTL DEF WarehouseSpec

-----------------------------------------------------------------------------
(* The stock of a product and the five sums that account for it *)

\* A post changes the total of a product by the total of its delta; at one row
\* that is the quantity, if the row is of the product.
LEMMA OnHandPosted ==
  ASSUME NEW b, Consistent(b), NEW d \in Delta, NEW p
  PROVE  Total(OnHand(Posted(b, d)), p) = Total(OnHand(b), p) + Total(d, p)
<1> DEFINE f == OnHand(b)
           g == OnHand(Posted(b, d))
<1>1. \A k \in Key : f[k] \in Int /\ d[k] \in Int /\ g[k] = f[k] + d[k]
  BY HouseType, PostedRow DEF Delta, OnHand
<1> HIDE DEF f, g
<1>2. Total(g, p) = Total(f, p) + Total(d, p)
  BY <1>1, TotalPlus
<1> QED BY <1>2 DEF f, g

LEMMA OnHandRaised ==
  ASSUME NEW b, Consistent(b), NEW k \in Key, NEW q \in Int, NEW p
  PROVE  Total(OnHand(Posted(b, At(k, q))), p)
           = Total(OnHand(b), p) + (IF k.product = p THEN q ELSE 0)
<1> DEFINE f == OnHand(b)
           g == OnHand(Posted(b, At(k, q)))
<1>1. \A x \in Key : f[x] \in Int /\ g[x] = f[x] + At(k, q)[x]
  BY HouseType, DeltaType, PostedRow DEF OnHand
<1>2. \A x \in Key : At(k, q)[x] = (IF x = k THEN q ELSE 0)
  BY DEF At
<1> HIDE DEF f, g
<1>3. \A x \in Key : g[x] = f[x] + (IF x = k THEN q ELSE 0)
  BY <1>1, <1>2
<1>4. Total(g, p) = Total(f, p) + (IF k.product = p THEN q ELSE 0)
  BY <1>1, <1>3, TotalRaised
<1> QED BY <1>4 DEF f, g

LEMMA OnHandType ==
  ASSUME NEW b, Consistent(b), NEW p
  PROVE  Total(OnHand(b), p) \in Int
BY HouseType, TotalInt

\* A move keeps the total of every product.
LEMMA OnHandMoved ==
  ASSUME NEW b, Consistent(b), NEW k \in Key, NEW to \in Location, NEW q \in Int,
         CanMove(b, k, to, q), NEW p
  PROVE  Total(OnHand(MovedBalance(b, k, to, q)), p) = Total(OnHand(b), p)
<1> DEFINE c == Posted(b, At(k, -q))
<1>1. At(k, -q) \in Delta /\ -q \in Int
  BY DeltaType
<1>2. PICK t \in Key : t = Moved(k, to) /\ t.product = k.product
  <2>1. Moved(k, to) \in Key /\ Moved(k, to).product = k.product
    BY DEF Moved, Key
  <2> QED BY <2>1
<1>3. Consistent(c)
  BY <1>1, PostedConsistent DEF CanMove
<1>4. MovedBalance(b, k, to, q) = Posted(c, At(t, q))
  BY <1>2 DEF MovedBalance
<1>5. Total(OnHand(c), p) = Total(OnHand(b), p) + (IF k.product = p THEN -q ELSE 0)
  BY <1>1, OnHandRaised
<1> HIDE DEF c
<1>6. Total(OnHand(Posted(c, At(t, q))), p)
        = Total(OnHand(c), p) + (IF t.product = p THEN q ELSE 0)
  BY <1>3, OnHandRaised
<1>7. Total(OnHand(b), p) \in Int /\ Total(OnHand(c), p) \in Int
  BY <1>3, OnHandType
<1> QED BY <1>2, <1>4, <1>5, <1>6, <1>7

\* What is received of a product, whichever shipment and batch: it rises with
\* a scan by what was scanned.
ReceivedOf(r, p) ==
  SumFunctionOnSet([s \in Shipment |-> SumFunctionOnSet(r[s], OfProduct(p))], Shipment)

LEMMA ReceivedIsSum == \A p : /\ ReceivedPieces(p) = ReceivedOf(received, p)
                              /\ ReceivedPieces(p)' = ReceivedOf(received', p)
BY DEF ReceivedPieces, ReceivedOf, SumFunction, OfProduct

LEMMA ReceivedType ==
  ASSUME NEW r \in [Shipment -> [Item -> Int]], NEW p
  PROVE  /\ \A s \in Shipment : SumFunctionOnSet(r[s], OfProduct(p)) \in Int
         /\ ReceivedOf(r, p) \in Int
<1> DEFINE f == [s \in Shipment |-> SumFunctionOnSet(r[s], OfProduct(p))]
<1>1. ASSUME NEW s \in Shipment PROVE SumFunctionOnSet(r[s], OfProduct(p)) \in Int
  <2>1. \A i \in OfProduct(p) : r[s][i] \in Int
    BY DEF OfProduct
  <2> QED BY <2>1, ItemsFinite, SumInt
<1>2. IsFiniteSet(Shipment)
  BY InboundAssumption, FS_Interval DEF Shipment
<1>3. \A s \in Shipment : f[s] \in Int
  BY <1>1
<1> HIDE DEF f
<1>4. SumFunctionOnSet(f, Shipment) \in Int
  BY <1>2, <1>3, SumInt
<1> QED BY <1>1, <1>4 DEF f, ReceivedOf

LEMMA ReceivedRaised ==
  ASSUME received \in [Shipment -> [Item -> Int]], NEW s \in Shipment, NEW k \in Key,
         NEW q \in Nat, Scanned(s, k, q), NEW p
  PROVE  ReceivedOf(received', p)
           = ReceivedOf(received, p) + (IF k.product = p THEN q ELSE 0)
<1>0. PICK r, t : r = received /\ t = received'
  OBVIOUS
<1>2. /\ r \in [Shipment -> [Item -> Int]] /\ t \in [Shipment -> [Item -> Int]]
      /\ \A z \in Shipment \ {s} : t[z] = r[z]
      /\ \A i \in Item \ {ItemOfKey(k)} : t[s][i] = r[s][i]
      /\ t[s][ItemOfKey(k)] = r[s][ItemOfKey(k)] + q
  BY <1>0, ItemsOfKeys DEF Scanned
<1> DEFINE Of(x, z) == SumFunctionOnSet(x[z], OfProduct(p))
           f == [z \in Shipment |-> Of(r, z)]
           g == [z \in Shipment |-> Of(t, z)]
<1>1. /\ IsFiniteSet(OfProduct(p)) /\ OfProduct(p) \subseteq Item
      /\ IsFiniteSet(Shipment) /\ ItemOfKey(k) \in Item
  <2>1. IsFiniteSet(Shipment)
    BY InboundAssumption, FS_Interval DEF Shipment
  <2> QED BY <2>1, ItemsFinite, ItemsOfKeys DEF OfProduct
<1>3. \A z \in Shipment : Of(r, z) \in Int /\ Of(t, z) \in Int
  BY <1>2, ReceivedType
<1>4. Of(t, s) = Of(r, s) + (IF k.product = p THEN q ELSE 0)
  <2>0. ItemOfKey(k) \in OfProduct(p) <=> k.product = p
    BY <1>1 DEF OfProduct, ItemOfKey
  <2>1. CASE k.product = p
    <3>1. /\ \A i \in OfProduct(p) : r[s][i] \in Int /\ t[s][i] \in Int
          /\ \A i \in OfProduct(p) \ {ItemOfKey(k)} : r[s][i] = t[s][i]
          /\ ItemOfKey(k) \in OfProduct(p)
      BY <1>1, <1>2, <2>0, <2>1
    <3>2. Of(t, s) = Of(r, s) + (t[s][ItemOfKey(k)] - r[s][ItemOfKey(k)])
      BY <1>1, <3>1, SumChange
    <3>3. r[s][ItemOfKey(k)] \in Int
      BY <3>1
    <3> HIDE DEF Of
    <3> QED BY <1>2, <2>1, <3>2, <3>3
  <2>2. CASE k.product # p
    <3>1. \A i \in OfProduct(p) : r[s][i] = t[s][i]
      BY <1>1, <1>2, <2>0, <2>2
    <3>2. Of(r, s) = Of(t, s)
      BY <1>1, <3>1, SumAgree
    <3>3. Of(r, s) \in Int
      BY <1>3
    <3> HIDE DEF Of
    <3> QED BY <2>2, <3>2, <3>3
  <2> QED BY <2>1, <2>2
<1>5. /\ \A z \in Shipment : f[z] \in Int /\ g[z] \in Int
      /\ \A z \in Shipment \ {s} : f[z] = g[z]
      /\ g[s] = f[s] + (IF k.product = p THEN q ELSE 0)
  BY <1>2, <1>3, <1>4
<1>6. ReceivedOf(r, p) = SumFunctionOnSet(f, Shipment)
      /\ ReceivedOf(t, p) = SumFunctionOnSet(g, Shipment)
  BY DEF ReceivedOf
<1> HIDE DEF f, g
<1>7. /\ SumFunctionOnSet(f, Shipment) \in Int
      /\ SumFunctionOnSet(g, Shipment) = SumFunctionOnSet(f, Shipment) + (g[s] - f[s])
  BY <1>1, <1>5, SumInt, SumChange
<1>8. f[s] \in Int
  BY <1>5
<1> QED BY <1>0, <1>5, <1>6, <1>7, <1>8

\* The same for what returns brought back to the shelves or to quarantine.
ReturnedOf(r, p) ==
  SumFunctionOnSet([x \in Return |-> Total(r[x]["RESTOCK"], p) + Total(r[x]["QUARANTINE"], p)],
                   Return)

LEMMA ReturnedIsSum == \A p : /\ ReturnedPieces(p) = ReturnedOf(returned, p)
                              /\ ReturnedPieces(p)' = ReturnedOf(returned', p)
BY DEF ReturnedPieces, ReturnedOf, SumFunction

LEMMA ReturnedType ==
  ASSUME NEW r \in [Return -> [Disposition -> Plan]], NEW p
  PROVE  /\ \A x \in Return, c \in Disposition : Total(r[x][c], p) \in Int
         /\ ReturnedOf(r, p) \in Int
<1> DEFINE f == [x \in Return |-> Total(r[x]["RESTOCK"], p) + Total(r[x]["QUARANTINE"], p)]
<1>1. ASSUME NEW x \in Return, NEW c \in Disposition PROVE Total(r[x][c], p) \in Int
  <2>1. \A k \in Key : r[x][c][k] \in Int
    BY DEF Plan
  <2> QED BY <2>1, TotalInt
<1>2. IsFiniteSet(Return)
  BY AdjustmentsAssumption, FS_Interval DEF Return
<1>3. \A x \in Return : f[x] \in Int
  BY <1>1 DEF Disposition
<1> HIDE DEF f
<1>4. SumFunctionOnSet(f, Return) \in Int
  BY <1>2, <1>3, SumInt
<1> QED BY <1>1, <1>4 DEF f, ReturnedOf

LEMMA ReturnedRaised ==
  ASSUME returned \in [Return -> [Disposition -> Plan]], NEW x \in Return,
         NEW disposition \in Disposition, NEW k \in Key, NEW q \in Nat,
         ReturnToStock(x, disposition, k, q), NEW p
  PROVE  ReturnedOf(returned', p)
           = ReturnedOf(returned, p) + (IF k.product = p THEN q ELSE 0)
<1>0. PICK r, t : r = returned /\ t = returned'
  OBVIOUS
<1>2. /\ r \in [Return -> [Disposition -> Plan]] /\ t \in [Return -> [Disposition -> Plan]]
      /\ \A z \in Return \ {x} : t[z] = r[z]
      /\ \A c \in Disposition \ {disposition} : t[x][c] = r[x][c]
      /\ \A y \in Key : t[x][disposition][y]
                           = r[x][disposition][y] + (IF y = k THEN q ELSE 0)
  BY <1>0 DEF Plan, ReturnToStock
<1> DEFINE Of(y, z) == Total(y[z]["RESTOCK"], p) + Total(y[z]["QUARANTINE"], p)
           f == [z \in Return |-> Of(r, z)]
           g == [z \in Return |-> Of(t, z)]
<1>1. IsFiniteSet(Return)
  BY AdjustmentsAssumption, FS_Interval DEF Return
<1>3. /\ \A c \in Disposition : Total(r[x][c], p) \in Int
      /\ \A z \in Return : Of(r, z) \in Int /\ Of(t, z) \in Int
  <2>1. /\ \A z \in Return, c \in Disposition : Total(r[z][c], p) \in Int
        /\ \A z \in Return, c \in Disposition : Total(t[z][c], p) \in Int
    BY <1>2, ReturnedType
  <2>2. "RESTOCK" \in Disposition /\ "QUARANTINE" \in Disposition
    BY DEF Disposition
  <2> QED BY <2>1, <2>2
<1>4. Total(t[x][disposition], p)
        = Total(r[x][disposition], p) + (IF k.product = p THEN q ELSE 0)
  <2>0. PICK u, v : u = r[x][disposition] /\ v = t[x][disposition]
    OBVIOUS
  <2>1. /\ \A i \in Key : u[i] \in Int
        /\ \A i \in Key : v[i] = u[i] + (IF i = k THEN q ELSE 0)
    BY <1>2, <2>0 DEF Plan
  <2>2. Total(v, p) = Total(u, p) + (IF k.product = p THEN q ELSE 0)
    BY <2>1, TotalRaised, SMTT(40)
  <2> QED BY <2>0, <2>2
<1>5. Of(t, x) = Of(r, x) + (IF k.product = p THEN q ELSE 0)
  <2>1. /\ Total(r[x]["RESTOCK"], p) \in Int /\ Total(r[x]["QUARANTINE"], p) \in Int
        /\ Disposition = {"RESTOCK", "QUARANTINE"} /\ "RESTOCK" # "QUARANTINE"
    BY <1>3 DEF Disposition
  <2>2. CASE disposition = "RESTOCK"
    <3>1. t[x]["QUARANTINE"] = r[x]["QUARANTINE"]
      BY <1>2, <2>1, <2>2
    <3> QED BY <1>4, <2>1, <2>2, <3>1
  <2>3. CASE disposition = "QUARANTINE"
    <3>1. t[x]["RESTOCK"] = r[x]["RESTOCK"]
      BY <1>2, <2>1, <2>3
    <3> QED BY <1>4, <2>1, <2>3, <3>1
  <2> QED BY <2>1, <2>2, <2>3
<1>6. \A z \in Return \ {x} : Of(t, z) = Of(r, z)
  BY <1>2
<1> HIDE DEF Of
<1>7. /\ \A z \in Return : f[z] \in Int /\ g[z] \in Int
      /\ \A z \in Return \ {x} : f[z] = g[z]
      /\ g[x] = f[x] + (IF k.product = p THEN q ELSE 0)
  BY <1>3, <1>5, <1>6
<1>8. /\ ReturnedOf(r, p) = SumFunctionOnSet(f, Return)
      /\ ReturnedOf(t, p) = SumFunctionOnSet(g, Return)
  BY DEF ReturnedOf, Of
<1> HIDE DEF f, g
<1>9. /\ SumFunctionOnSet(f, Return) \in Int
      /\ SumFunctionOnSet(g, Return) = SumFunctionOnSet(f, Return) + (g[x] - f[x])
  BY <1>1, <1>7, SumInt, SumChange
<1>10. f[x] \in Int
  BY <1>7
<1> QED BY <1>0, <1>7, <1>8, <1>9, <1>10

\* The differences of the approved reports, as a sum over all reports.
ReportTable == [Report -> {NoReport} \cup FiledReport]
Correction(r, p) ==
  [d \in Report |-> IF r[d].status = "APPROVED" /\ r[d].key.product = p
                    THEN r[d].delta_qty ELSE 0]
AdjustedOf(r, p) == SumFunctionOnSet(Correction(r, p), Report)

LEMMA CorrectionType ==
  ASSUME NEW r \in ReportTable, NEW p
  PROVE  (\A d \in Report : Correction(r, p)[d] \in Int) /\ AdjustedOf(r, p) \in Int
<1>1. IsFiniteSet(Report)
  BY AdjustmentsAssumption, FS_Interval DEF Report
<1>2. \A d \in Report : Correction(r, p)[d] \in Int
  <2> SUFFICES ASSUME NEW d \in Report PROVE Correction(r, p)[d] \in Int
    OBVIOUS
  <2>1. r[d] = NoReport \/ r[d] \in FiledReport
    BY DEF ReportTable
  <2>2. CASE r[d] = NoReport
    BY <2>2 DEF NoReport, Correction
  <2>3. CASE r[d] \in FiledReport
    BY <2>3, SchemaAssumption DEF FiledReport, Correction
  <2> QED BY <2>1, <2>2, <2>3
<1>3. SumFunctionOnSet(Correction(r, p), Report) \in Int
  BY <1>1, <1>2, SumInt
<1> QED BY <1>2, <1>3 DEF AdjustedOf

LEMMA AdjustedSum ==
  ASSUME NEW r \in ReportTable, NEW p
  PROVE  LET approved == {d \in Report : r[d].status = "APPROVED"}
         IN  SumFunction([d \in approved |-> IF r[d].key.product = p THEN r[d].delta_qty ELSE 0])
               = AdjustedOf(r, p)
<1> DEFINE approved == {d \in Report : r[d].status = "APPROVED"}
           f == [d \in approved |-> IF r[d].key.product = p THEN r[d].delta_qty ELSE 0]
           g == Correction(r, p)
<1>1. IsFiniteSet(Report) /\ approved \in SUBSET Report /\ IsFiniteSet(approved)
  <2>1. IsFiniteSet(Report)
    BY AdjustmentsAssumption, FS_Interval DEF Report
  <2> QED BY <2>1, FS_Subset
<1>2. \A d \in approved : f[d] = g[d] /\ g[d] \in Int
  BY CorrectionType DEF Correction
<1>3. \A d \in Report \ approved : g[d] = 0
  BY DEF Correction
<1>4. SumFunction(f) = SumFunctionOnSet(f, approved)
  BY DEF SumFunction
<1> HIDE DEF approved, f, g
<1>5. SumFunctionOnSet(f, approved) = SumFunctionOnSet(g, approved)
  BY <1>1, <1>2, SumAgree
<1>6. SumFunctionOnSet(g, Report) = SumFunctionOnSet(g, approved)
  BY <1>1, <1>2, <1>3, SumSupport
<1> QED BY <1>4, <1>5, <1>6 DEF approved, f, g, AdjustedOf

\* An approval adds the difference of the report it decides.
LEMMA AdjustedRaised ==
  ASSUME NEW r \in ReportTable, NEW d \in Report, r[d] \in FiledReport,
         r[d].status = "PENDING", NEW p
  PROVE  AdjustedOf([r EXCEPT ![d].status = "APPROVED"], p)
           = AdjustedOf(r, p) + (IF r[d].key.product = p THEN r[d].delta_qty ELSE 0)
<1> DEFINE t == [r EXCEPT ![d].status = "APPROVED"]
           f == Correction(r, p)
           g == Correction(t, p)
<1>1. IsFiniteSet(Report)
  BY AdjustmentsAssumption, FS_Interval DEF Report
<1>2. /\ t \in ReportTable
      /\ \A z \in Report \ {d} : t[z] = r[z]
      /\ t[d].status = "APPROVED" /\ t[d].key = r[d].key /\ t[d].delta_qty = r[d].delta_qty
  BY DEF ReportTable, FiledReport, ReportStatus
<1> HIDE DEF t
<1>3. /\ \A z \in Report : f[z] \in Int /\ g[z] \in Int
      /\ AdjustedOf(r, p) \in Int
  BY <1>2, CorrectionType
<1>4. /\ \A z \in Report \ {d} : f[z] = g[z]
      /\ f[d] = 0
      /\ g[d] = IF r[d].key.product = p THEN r[d].delta_qty ELSE 0
  BY <1>2 DEF Correction
<1> HIDE DEF f, g
<1>5. SumFunctionOnSet(g, Report) = SumFunctionOnSet(f, Report) + (g[d] - f[d])
  BY <1>1, <1>3, <1>4, SumChange
<1>6. /\ AdjustedOf(r, p) = SumFunctionOnSet(f, Report)
      /\ AdjustedOf(t, p) = SumFunctionOnSet(g, Report)
  BY DEF AdjustedOf, f, g
<1>7. g[d] - f[d] = IF r[d].key.product = p THEN r[d].delta_qty ELSE 0
  BY <1>3, <1>4
<1> QED BY <1>5, <1>6, <1>7 DEF t

\* What was dispatched for all orders together.
DispatchedTable(p) == [o \in Order |-> DispatchedPieces(o, p)]

LEMMA AllDispatchedIsSum ==
  ASSUME NEW p
  PROVE  /\ AllDispatchedPieces(p) = SumFunctionOnSet(DispatchedTable(p), Order)
         /\ AllDispatchedPieces(p)' = SumFunctionOnSet(DispatchedTable(p)', Order)
BY DEF AllDispatchedPieces, DispatchedTable, SumFunction

LEMMA DispatchedKept ==
  ASSUME NEW p, \A o \in Order : DispatchedPieces(o, p)' = DispatchedPieces(o, p)
  PROVE  AllDispatchedPieces(p)' = AllDispatchedPieces(p)
<1>1. DispatchedTable(p)' = DispatchedTable(p)
  BY DEF DispatchedTable
<1> QED BY <1>1, AllDispatchedIsSum

LEMMA DispatchedType ==
  ASSUME ledger \in LedgerTable, NEW p
  PROVE  AllDispatchedPieces(p) \in Int
<1> DEFINE f == DispatchedTable(p)
<1>1. IsFiniteSet(Order)
  BY OutboundAssumption, FS_Interval DEF Order
<1>2. \A o \in Order : f[o] \in Int
  BY PiecesType DEF DispatchedTable
<1> HIDE DEF f
<1>3. SumFunctionOnSet(f, Order) \in Int
  BY <1>1, <1>2, SumInt
<1> QED BY <1>3, AllDispatchedIsSum DEF f

LEMMA DispatchedRaised ==
  ASSUME Books, NEW o \in Order, NEW loc \in Location, ShipAndCharge(o, loc), NEW p
  PROVE  AllDispatchedPieces(p)' = AllDispatchedPieces(p) + Total(PickedInto(o, loc), p)
<1> DEFINE f == DispatchedTable(p)
           g == DispatchedTable(p)'
           n == Total(PickedInto(o, loc), p)
<1>1. IsFiniteSet(Order)
  BY OutboundAssumption, FS_Interval DEF Order
<1>2. n \in Int
  <2>1. \A k \in Key : PickedInto(o, loc)[k] \in Int
    BY PickedIntoType DEF Books, Plan
  <2> QED BY <2>1, TotalInt
<1>3. \A x \in Order : f[x] \in Int
  BY PiecesType DEF DispatchedTable, Books
<1>4. \A x \in Order : g[x] = f[x] + (IF x = o THEN n ELSE 0)
  BY ShipFlows DEF DispatchedTable
<1> HIDE DEF f, g, n
<1>5. /\ \A x \in Order : f[x] \in Int /\ g[x] \in Int
      /\ \A x \in Order \ {o} : f[x] = g[x]
      /\ g[o] = f[o] + n
  BY <1>2, <1>3, <1>4
<1>6. /\ SumFunctionOnSet(f, Order) \in Int
      /\ SumFunctionOnSet(g, Order) = SumFunctionOnSet(f, Order) + (g[o] - f[o])
  BY <1>1, <1>5, SumInt, SumChange
<1>7. g[o] - f[o] = n
  BY <1>2, <1>5
<1> QED BY <1>6, <1>7, AllDispatchedIsSum DEF f, g, n

\* The equation of StockIsAccountedFor, of the sums above.
Accounted(b, r, back, rep, gone, p) ==
  Total(OnHand(b), p)
    = Opening(p) + ReceivedOf(r, p) + ReturnedOf(back, p) + AdjustedOf(rep, p) - gone

LEMMA AccountedIsProperty ==
  ASSUME AdjustmentsTables, NEW p
  PROVE  (Total([k \in Key |-> balance[k].on_hand], p)
            = Opening(p) + ReceivedPieces(p) + ReturnedPieces(p) + AdjustedPieces(p)
                - AllDispatchedPieces(p))
           <=> Accounted(balance, received, returned, report, AllDispatchedPieces(p), p)
<1>1. AdjustedPieces(p) = AdjustedOf(report, p)
  BY AdjustedSum DEF AdjustmentsTables, ReportTable, AdjustedPieces
<1> QED BY <1>1, ReceivedIsSum, ReturnedIsSum DEF Accounted, OnHand

\* The equation, for every product.
HouseAccounts ==
  \A p \in Product :
    Accounted(balance, received, returned, report, AllDispatchedPieces(p), p)

LEMMA AccountsInitially == WarehouseInv /\ WarehouseInit => HouseAccounts
<1> SUFFICES ASSUME WarehouseInv, WarehouseInit, NEW p \in Product
             PROVE  Accounted(balance, received, returned, report, AllDispatchedPieces(p), p)
  BY DEF HouseAccounts
<1>1. Total(OnHand(balance), p) = Opening(p)
  <2>1. \A k \in Key : OnHand(balance)[k] = OpeningStock[k]
    BY DEF WarehouseInit, OutboundInit, Recalculated, OnHand
  <2> QED BY <2>1, TotalAgree DEF Opening
<1>2. Opening(p) \in Int
  <2>1. Consistent(balance)
    BY DEF WarehouseInv, Books
  <2> QED BY <1>1, <2>1, OnHandType
<1>3. ReceivedOf(received, p) = 0
  <2> DEFINE f == [s \in Shipment |-> SumFunctionOnSet(received[s], OfProduct(p))]
  <2>1. \A s \in Shipment : f[s] = 0
    <3> SUFFICES ASSUME NEW s \in Shipment
                 PROVE  SumFunctionOnSet(received[s], OfProduct(p)) = 0
      OBVIOUS
    <3>1. \A i \in OfProduct(p) : received[s][i] = 0
      BY DEF WarehouseInit, ShipmentsInit, OfProduct
    <3> QED BY <3>1, ItemsFinite, SumZero
  <2>2. IsFiniteSet(Shipment)
    BY InboundAssumption, FS_Interval DEF Shipment
  <2>3. ReceivedOf(received, p) = SumFunctionOnSet(f, Shipment)
    BY DEF ReceivedOf
  <2> HIDE DEF f
  <2> QED BY <2>1, <2>2, <2>3, SumZero
<1>4. ReturnedOf(returned, p) = 0
  <2> DEFINE f == [x \in Return |-> Total(returned[x]["RESTOCK"], p)
                                      + Total(returned[x]["QUARANTINE"], p)]
  <2>1. \A x \in Return : f[x] = 0
    <3> SUFFICES ASSUME NEW x \in Return
                 PROVE  /\ Total(returned[x]["RESTOCK"], p) = 0
                        /\ Total(returned[x]["QUARANTINE"], p) = 0
      OBVIOUS
    <3>1. /\ returned[x]["RESTOCK"] = [k \in Key |-> 0]
          /\ returned[x]["QUARANTINE"] = [k \in Key |-> 0]
      BY DEF WarehouseInit, NothingAdjusted, Disposition
    <3>2. Total([k \in Key |-> 0], p) = 0
      BY NothingIsZero DEF Nothing
    <3> QED BY <3>1, <3>2
  <2>2. IsFiniteSet(Return)
    BY AdjustmentsAssumption, FS_Interval DEF Return
  <2>3. ReturnedOf(returned, p) = SumFunctionOnSet(f, Return)
    BY DEF ReturnedOf
  <2> HIDE DEF f
  <2> QED BY <2>1, <2>2, <2>3, SumZero
<1>5. AdjustedOf(report, p) = 0
  <2>1. \A d \in Report : Correction(report, p)[d] = 0
    BY DEF WarehouseInit, NothingAdjusted, Correction, NoReport
  <2>2. IsFiniteSet(Report)
    BY AdjustmentsAssumption, FS_Interval DEF Report
  <2> QED BY <2>1, <2>2, SumZero DEF AdjustedOf
<1>6. AllDispatchedPieces(p) = 0
  <2>1. ASSUME NEW o \in Order PROVE DispatchedPieces(o, p) = 0
    <3>1. OrderReference(o) \in Reference \ {OpeningReference}
      BY OutboundAssumption
    <3> DEFINE f == InOf(ledger, OrderReference(o))
               g == OutOf(ledger, OrderReference(o))
    <3>2. \A k \in Key : f[k] = 0 /\ g[k] = 0
      BY <3>1 DEF WarehouseInit, OutboundInit, InOf, OutOf
    <3> HIDE DEF f, g
    <3>3. Total(f, p) = 0 /\ Total(g, p) = 0
      BY <3>2, TotalZero
    <3> QED BY <3>3 DEF f, g, InOf, OutOf, PickedPieces, DispatchedPieces
  <2> DEFINE f == DispatchedTable(p)
  <2>2. \A o \in Order : f[o] = 0
    BY <2>1 DEF DispatchedTable
  <2>3. IsFiniteSet(Order)
    BY OutboundAssumption, FS_Interval DEF Order
  <2> HIDE DEF f
  <2>4. SumFunctionOnSet(f, Order) = 0
    BY <2>2, <2>3, SumZero
  <2> QED BY <2>4, AllDispatchedIsSum DEF f
<1> QED BY <1>1, <1>2, <1>3, <1>4, <1>5, <1>6 DEF Accounted

\* A step that keeps the documents keeps what they say.
LEMMA DocumentsSay ==
  ASSUME DocumentsKeep, NEW p
  PROVE  /\ ReceivedOf(received', p) = ReceivedOf(received, p)
         /\ ReturnedOf(returned', p) = ReturnedOf(returned, p)
         /\ AdjustedOf(report', p) = AdjustedOf(report, p)
<1>1. received' = received /\ returned' = returned
  BY DEF DocumentsKeep
<1>2. \A d \in Report : (IF report'[d].status = "APPROVED" THEN report'[d] ELSE NoReport)
                          = (IF report[d].status = "APPROVED" THEN report[d] ELSE NoReport)
  <2>1. Approved' = Approved
    BY DEF DocumentsKeep
  <2>2. \A d \in Report :
          /\ Approved[d] = IF report[d].status = "APPROVED" THEN report[d] ELSE NoReport
          /\ Approved'[d] = IF report'[d].status = "APPROVED" THEN report'[d] ELSE NoReport
    BY DEF Approved
  <2> QED BY <2>1, <2>2
<1>3. \A d \in Report :
        \/ report'[d] = report[d]
        \/ report'[d].status # "APPROVED" /\ report[d].status # "APPROVED"
  <2>1. NoReport.status # "APPROVED"
    BY DEF NoReport
  <2> QED BY <1>2, <2>1
<1>4. Correction(report', p) = Correction(report, p)
  BY <1>3 DEF Correction
<1> QED BY <1>1, <1>4 DEF AdjustedOf

\* Requests about other documents ship nothing.
LEMMA NothingShipped ==
  ASSUME NEW ref, \A o \in Order : OrderReference(o) # ref, OnlyFor(ref), NEW p
  PROVE  AllDispatchedPieces(p)' = AllDispatchedPieces(p)
<1>1. \A o \in Order : ledger'[OrderReference(o)] = ledger[OrderReference(o)]
  BY OrderReferences DEF OnlyFor
<1>2. \A o \in Order : DispatchedPieces(o, p)' = DispatchedPieces(o, p)
  BY <1>1 DEF DispatchedPieces, PickedPieces
<1> QED BY <1>2, DispatchedKept

LEMMA AccountsStep ==
  WarehouseInv /\ WarehouseInv' /\ HouseAccounts /\ [WarehouseNext]_warehouseVars
    => HouseAccounts'
<1> SUFFICES ASSUME WarehouseInv, WarehouseInv', HouseAccounts,
                    [WarehouseNext]_warehouseVars, NEW p \in Product
             PROVE  Accounted(balance', received', returned', report',
                              AllDispatchedPieces(p)', p)
  BY DEF HouseAccounts, Accounted
<1>1. Books /\ OutboundTables /\ AdjustmentsTables
  BY DEF WarehouseInv, AdjustmentsInv
<1>2. Consistent(balance) /\ ledger \in LedgerTable /\ Consistent(balance)'
  BY <1>1 DEF Books, WarehouseInv
<1>3. /\ received \in [Shipment -> [Item -> Int]]
      /\ returned \in [Return -> [Disposition -> Plan]]
      /\ report \in ReportTable
  <2>1. received \in [Shipment -> [Item -> 0 .. MaxQty]] /\ 0 .. MaxQty \subseteq Int
    BY SchemaAssumption DEF WarehouseInv, ShipmentsInv, ShipmentTables
  <2> QED BY <1>1, <2>1 DEF AdjustmentsTables, ReportTable
<1> DEFINE H == Total(OnHand(balance), p)
           R == ReceivedOf(received, p)
           B == ReturnedOf(returned, p)
           A == AdjustedOf(report, p)
           D == AllDispatchedPieces(p)
           O == Opening(p)
<1>4. /\ H \in Int /\ R \in Int /\ B \in Int /\ A \in Int /\ D \in Int /\ O \in Int
      /\ H = O + R + B + A - D
  <2>1. H \in Int
    BY <1>2, OnHandType
  <2>2. R \in Int /\ B \in Int /\ A \in Int
    BY <1>3, ReceivedType, ReturnedType, CorrectionType
  <2>3. D \in Int
    BY <1>2, DispatchedType
  <2>4. O \in Int
    <3>1. \A k \in Key : OpeningStock[k] \in Int
      BY OutboundAssumption, SchemaAssumption
    <3> QED BY <3>1, TotalInt DEF Opening
  <2>5. H = O + R + B + A - D
    BY DEF HouseAccounts, Accounted
  <2> QED BY <2>1, <2>2, <2>3, <2>4, <2>5
<1> HIDE DEF H, R, B, A, D, O
<1> DEFINE H1 == Total(OnHand(balance'), p)
           R1 == ReceivedOf(received', p)
           B1 == ReturnedOf(returned', p)
           A1 == AdjustedOf(report', p)
           D1 == AllDispatchedPieces(p)'
<1>5. SUFFICES H1 = O + R1 + B1 + A1 - D1
  BY DEF Accounted, O
<1> HIDE DEF H1, R1, B1, A1, D1
<1>6. DocumentsKeep => R1 = R /\ B1 = B /\ A1 = A
  BY DocumentsSay DEF R, B, A, R1, B1, A1
<1>7. \A ref : (\A o \in Order : OrderReference(o) # ref) /\ OnlyFor(ref) => D1 = D
  BY NothingShipped DEF D, D1
<1>8. ASSUME BooksKeep PROVE H1 = H /\ D1 = D
  <2>1. \A k \in Key : OnHand(balance')[k] = OnHand(balance)[k]
    BY <1>8 DEF BooksKeep, OnHand
  <2>2. H1 = H
    BY <2>1, TotalAgree DEF H, H1
  <2>3. \A o \in Order : DispatchedPieces(o, p)' = DispatchedPieces(o, p)
    BY <1>8 DEF BooksKeep, DispatchedPieces, PickedPieces
  <2>4. D1 = D
    BY <2>3, DispatchedKept DEF D, D1
  <2> QED BY <2>2, <2>4
<1>9. ASSUME DocumentsKeep, [OutboundNext]_outboundVars PROVE H1 = O + R1 + B1 + A1 - D1
  <2>1. ASSUME NEW o \in Order, NEW k \in Key, NEW to \in Location, NEW q \in Nat,
               ScanPick(o, k, to, q)
        PROVE  H1 = H /\ D1 = D
    <3>1. \A x \in Order : DispatchedPieces(x, p)' = DispatchedPieces(x, p)
      BY <1>1, <2>1, PickFlows
    <3>2. D1 = D
      BY <3>1, DispatchedKept DEF D, D1
    <3>3. H1 = H
      <4> DEFINE b == Released(k, q)
      <4>1. At(k, -q) \in Delta
        BY DeltaType
      <4>2. Consistent(b) /\ CanMove(b, k, to, q) /\ balance' = MovedBalance(b, k, to, q)
        BY <1>2, <2>1, <4>1, ReleasedConsistent DEF ScanPick, CanPick
      <4>3. \A x \in Key : OnHand(b)[x] = OnHand(balance)[x]
        BY <1>2, <4>1, AdjustReservedRow DEF Released, OnHand
      <4> HIDE DEF b
      <4>4. Total(OnHand(b), p) = Total(OnHand(balance), p)
        BY <4>3, TotalAgree
      <4>5. Total(OnHand(MovedBalance(b, k, to, q)), p) = Total(OnHand(b), p)
        BY <4>2, OnHandMoved
      <4> QED BY <4>2, <4>4, <4>5 DEF H, H1
    <3> QED BY <3>2, <3>3
  <2>2. ASSUME NEW o \in Order, NEW loc \in Location, ShipAndCharge(o, loc)
        PROVE  H1 - H = D - D1 /\ D1 \in Int /\ H1 \in Int
    <3> DEFINE out == PickedInto(o, loc)
               d == Minus(PickedInto(o, loc))
    <3>1. /\ d \in Delta /\ balance' = Posted(balance, d)
          /\ \A k \in Key : out[k] \in Int
          /\ \A k \in Key : d[k] \in Int
          /\ \A k \in Key : d[k] + out[k] = 0
      BY <1>2, <2>2, PickedIntoType DEF Minus, Plan, ShipAndCharge
    <3>2. H1 = H + Total(d, p)
      BY <1>2, <3>1, OnHandPosted DEF H, H1
    <3>3. D1 = D + Total(out, p)
      BY <1>1, <2>2, DispatchedRaised DEF D, D1
    <3> HIDE DEF out, d
    <3>4. Total(d, p) + Total(out, p) = 0 /\ Total(d, p) \in Int /\ Total(out, p) \in Int
      <4>1. Total(Nothing, p) = Total(d, p) + Total(out, p)
        <5>1. \A k \in Key : Nothing[k] = d[k] + out[k]
          BY <3>1 DEF Nothing
        <5> QED BY <3>1, <5>1, TotalPlus
      <4> QED BY <3>1, <4>1, NothingIsZero, TotalInt
    <3> QED BY <1>4, <3>2, <3>3, <3>4
  <2>3. \/ H1 = H /\ D1 = D
        \/ H1 - H = D - D1 /\ D1 \in Int /\ H1 \in Int
    BY <1>1, <1>8, <1>9, <2>1, <2>2, BooksStepCases
  <2> QED BY <1>4, <1>6, <1>9, <2>3
<1>10. ASSUME DocumentsKeep, UNCHANGED stockVars PROVE H1 = O + R1 + B1 + A1 - D1
  <2>1. BooksKeep
    BY <1>10 DEF BooksKeep, stockVars
  <2> QED BY <1>4, <1>6, <1>8, <1>10, <2>1
<1>11. ASSUME DocumentsKeep, NEW ref \in MoveReference, NEW k \in Key, NEW to \in Location,
              NEW q \in Nat, MoveStock(k, to, q, ref), OnlyFor(ref)
       PROVE  H1 = O + R1 + B1 + A1 - D1
  <2>1. D1 = D
    BY <1>7, <1>11, ReferencesDiffer
  <2>2. H1 = H
    BY <1>2, <1>11, OnHandMoved DEF H, H1, MoveStock
  <2> QED BY <1>4, <1>6, <1>11, <2>1, <2>2
<1>12. ASSUME NEW s \in Shipment, NEW k \in Key, NEW q \in Nat, Scanned(s, k, q),
              OnlyFor(InboundReference(s))
       PROVE  H1 = O + R1 + B1 + A1 - D1
  <2> DEFINE n == IF k.product = p THEN q ELSE 0
  <2>0. n \in Int /\ q \in Int
    OBVIOUS
  <2>1. D1 = D
    BY <1>7, <1>12, ReferencesDiffer DEF InboundReferences
  <2>2. H1 = H + n
    BY <1>2, <1>12, OnHandRaised DEF H, H1, Scanned
  <2>3. R1 = R + n
    BY <1>3, <1>12, ReceivedRaised DEF R, R1
  <2>4. B1 = B /\ A1 = A
    BY <1>12 DEF B, B1, A, A1, Scanned, adjustVars
  <2> HIDE DEF n
  <2> QED BY <1>4, <2>1, <2>2, <2>3, <2>4, <2>0
<1>13. ASSUME NEW r \in Return, NEW disposition \in Disposition, NEW k \in Key, NEW q \in Nat,
              ReturnToStock(r, disposition, k, q), OnlyFor(ReturnReference(r)),
              UNCHANGED received
       PROVE  H1 = O + R1 + B1 + A1 - D1
  <2> DEFINE n == IF k.product = p THEN q ELSE 0
  <2>0. n \in Int /\ q \in Int
    OBVIOUS
  <2>1. D1 = D
    BY <1>7, <1>13, ReferencesDiffer DEF AdjustmentReference
  <2>2. H1 = H + n
    BY <1>2, <1>13, OnHandRaised DEF H, H1, ReturnToStock, PostReturned
  <2>3. B1 = B + n
    BY <1>3, <1>13, ReturnedRaised DEF B, B1
  <2>4. R1 = R /\ A1 = A
    BY <1>13 DEF R, R1, A, A1, ReturnToStock
  <2> HIDE DEF n
  <2> QED BY <1>4, <2>1, <2>2, <2>3, <2>4, <2>0
<1>14. ASSUME NEW d \in Report, ApproveDiscrepancy(d), OnlyFor(DiscrepancyReference(d)),
              UNCHANGED received
       PROVE  H1 = O + R1 + B1 + A1 - D1
  <2> DEFINE n == IF report[d].key.product = p THEN report[d].delta_qty ELSE 0
  <2>1. D1 = D
    BY <1>7, <1>14, ReferencesDiffer DEF AdjustmentReference
  <2>2. /\ report[d] \in FiledReport /\ report[d].status = "PENDING"
        /\ report[d].key \in Key /\ report[d].delta_qty \in Int
    BY <1>1, <1>14, PendingIsFiled, SchemaAssumption
    DEF ApproveDiscrepancy, CanDecide, FiledReport
  <2>3. H1 = H + n
    BY <1>2, <1>14, <2>2, OnHandRaised DEF H, H1, ApproveDiscrepancy, AdjustmentOf
  <2>4. A1 = A + n
    BY <1>3, <1>14, <2>2, AdjustedRaised DEF A, A1, ApproveDiscrepancy
  <2>5. R1 = R /\ B1 = B
    BY <1>14 DEF R, R1, B, B1, ApproveDiscrepancy
  <2>6. n \in Int
    BY <2>2
  <2> HIDE DEF n
  <2> QED BY <1>4, <2>1, <2>3, <2>4, <2>5, <2>6
<1> QED BY <1>1, <1>9, <1>10, <1>11, <1>12, <1>13, <1>14, DocumentsStepCases

LEMMA AccountsAreProperty == WarehouseInv /\ HouseAccounts => StockIsAccountedFor
BY AccountedIsProperty
DEF WarehouseInv, AdjustmentsInv, HouseAccounts, StockIsAccountedFor

\* The stock of the house is what its documents say, of every product and
\* after any interleaving of shipments, moves, orders, returns and reports:
\* what was there, received, returned and corrected, less what was dispatched.
THEOREM HouseStockIsAccountedFor == WarehouseSpec => []StockIsAccountedFor
BY WarehouseInvariant, AccountsInitially, AccountsStep, AccountsAreProperty, PTL
DEF WarehouseSpec

==============================================================================
