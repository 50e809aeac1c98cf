-------------------------------- MODULE Inbound --------------------------------
(***************************************************************************)
(* Stock on its way in: shipments (routes_inbound.py), put-away from        *)
(* staging into storage (routes_putaway.py) and manual transfers            *)
(* (routes_inventory.py).  An action is one request, as in Outbound.        *)
(***************************************************************************)
EXTENDS Charges

CONSTANTS
  NumShipments,
  NoBatch,        \* the batch of stock without batch_id
  BatchRequired,  \* products with lot or expiry tracking
  UnitSize,       \* [Product -> [unit of measure -> pieces]]; 0: not configured
  MaxMoved        \* bound: what moves of one reference may bring to one row

Shipment == 1 .. NumShipments
Item == [product : Product, batch : Batch]
Unit == {"piece", "carton", "pallet"}

InboundReference(s) == <<"INBOUND", s>>
PutawayReference(from, to) == <<"PUTAWAY", from, to>>
ManualReference == <<"MANUAL">>   \* all transfers of one user

ASSUME InboundAssumption ==
  /\ NumShipments \in Nat
  /\ MaxMoved \in Nat
  /\ NoBatch \in Batch
  /\ BatchRequired \subseteq Product
  /\ UnitSize \in [Product -> [Unit -> Nat]]
  /\ \A p \in Product : UnitSize[p]["piece"] = 1
  /\ \A s \in Shipment : InboundReference(s) \in Reference
  /\ \A from, to \in Location : PutawayReference(from, to) \in Reference
  /\ ManualReference \in Reference

VARIABLES
  shipment,   \* inbound_shipments: status and what complete_inbound stamps on it
  received    \* inbound_lines: [Shipment -> [Item -> received_qty]]; 0 is no line

shipmentVars == <<shipment, received>>
inboundVars == <<balance, ledger, charge, today, shipment, received>>

NoShipment == [status |-> "NONE", received_at |-> NoDay, pdf |-> FALSE]
ShipmentStatus == {"NONE", "DRAFT", "RECEIVING", "RECEIVED"}

ItemOfKey(k) == [product |-> k.product, batch |-> k.batch]
Lines(s) == {i \in Item : received[s][i] > 0}

-----------------------------------------------------------------------------
(* uom_service.py and routes_inbound.py *)

\* qty_to_pieces; a unit the product does not have is refused, which is 0 here.
Pieces(p, qty, unit) == qty * UnitSize[p][unit]

CreateInbound(s) ==
  /\ shipment[s].status = "NONE"
  /\ DumpIsEncodable
  /\ shipment' = [shipment EXCEPT ![s].status = "DRAFT"]
  /\ UNCHANGED <<stockVars, charge, today, received>>

\* start_receiving: in any status, RECEIVED included.
StartReceiving(s) ==
  /\ shipment[s].status # "NONE"
  /\ shipment' = [shipment EXCEPT ![s].status = "RECEIVING"]
  /\ UNCHANGED <<stockVars, charge, today, received>>

\* What a scan of scan_line may name: a batch if and only if the product is
\* tracked, and a location in a STAGING zone.
CanScan(k) ==
  /\ ZoneType[k.location] = "STAGING"
  /\ k.batch = NoBatch <=> k.product \notin BatchRequired

\* Mutant: received_qty is kept in a wider column than the stock.
LineHolds_Wider(s, k, pieces) == TRUE

LineHolds(s, k, pieces) == received[s][ItemOfKey(k)] + pieces <= MaxQty

\* Mutant: the line counts cartons as pieces, the books do not.
LineGrows_InUnits(s, k, qty, unit) ==
  received' = [received EXCEPT ![s][ItemOfKey(k)] = @ + qty]

LineGrows(s, k, qty, unit) ==
  received' = [received EXCEPT ![s][ItemOfKey(k)] = @ + Pieces(k.product, qty, unit)]

\* scan_line: the line of the item grows, and the stock appears in staging.
ScanLine(s, k, qty, unit) ==
  LET pieces == Pieces(k.product, qty, unit)
  IN  /\ shipment[s].status \in {"RECEIVING", "DRAFT"}
      /\ CanScan(k)
      /\ pieces > 0
      /\ LineHolds(s, k, pieces)
      /\ LineGrows(s, k, qty, unit)
      /\ CanPost(balance, At(k, pieces))
      /\ balance' = Posted(balance, At(k, pieces))
      /\ ledger' = Recorded(ledger, InboundReference(s), At(k, pieces))
      /\ shipment' = [shipment EXCEPT ![s].status = "RECEIVING"]
      /\ UNCHANGED <<charge, today>>

\* complete_inbound of a shipment without lines: nothing to charge, so one
\* commit at the end takes status, date and document.
CompleteEmpty(s) ==
  /\ Lines(s) = {}
  /\ shipment' = [shipment EXCEPT ![s] =
                    [status |-> "RECEIVED", received_at |-> today, pdf |-> TRUE]]
  /\ UNCHANGED charge

\* complete_inbound when its lines were charged today already: the rollback
\* takes status and date along, and the handler goes on to the document.
CompleteAgain(s, stored) ==
  /\ Charged("INBOUND_LINE", InboundReference(s))
  /\ shipment' = [shipment EXCEPT ![s].pdf = @ \/ stored]
  /\ UNCHANGED charge

\* Mutant: the key of the charge does not name the date.
CompleteAndCharge_OncePerShipment(s, stored) ==
  /\ IF ChargesFor("INBOUND_LINE", InboundReference(s)) = {}
     THEN AddCharge("INBOUND_LINE", InboundReference(s), Cardinality(Lines(s)))
     ELSE UNCHANGED charge
  /\ shipment' = [shipment EXCEPT ![s] =
                    [status |-> "RECEIVED", received_at |-> today, pdf |-> @.pdf \/ stored]]

\* complete_inbound commits status and date with the charge for its lines; the
\* document is a commit of its own that may fail.
CompleteAndCharge(s, stored) ==
  /\ AddCharge("INBOUND_LINE", InboundReference(s), Cardinality(Lines(s)))
  /\ shipment' = [shipment EXCEPT ![s] =
                    [status |-> "RECEIVED", received_at |-> today, pdf |-> @.pdf \/ stored]]

\* complete_inbound: in any status.
CompleteInbound(s) ==
  /\ shipment[s].status # "NONE"
  /\ \/ CompleteEmpty(s)
     \/ /\ Lines(s) # {}
        /\ \E stored \in BOOLEAN : CompleteAndCharge(s, stored) \/ CompleteAgain(s, stored)
  /\ UNCHANGED <<stockVars, today, received>>

-----------------------------------------------------------------------------
(* routes_putaway.py and routes_inventory.py *)

\* The common end of the two handlers: the move, and its audit row, whose
\* entity_id names both locations.
MoveStock(k, to, q, ref) ==
  /\ FitsEntityId(PairIdLength)
  /\ CanMove(balance, k, to, q)
  /\ balance' = MovedBalance(balance, k, to, q)
  /\ ledger' = MovedLedger(ledger, ref, k, to, q)
  /\ ledger'[ref][Moved(k, to)].in <= MaxMoved
  /\ UNCHANGED <<charge, today>>

\* confirm_putaway: the ledger rows name both locations, too.
ConfirmPutaway(k, to, q) ==
  /\ ZoneType[k.location] = "STAGING" /\ ZoneType[to] = "STORAGE"
  /\ FitsReferenceId(PairIdLength)
  /\ MoveStock(k, to, q, PutawayReference(k.location, to))

\* transfer: between any two locations of the warehouse.
Transfer(k, to, q) == MoveStock(k, to, q, ManualReference)

-----------------------------------------------------------------------------

ShipmentsInit ==
  /\ shipment = [s \in Shipment |-> NoShipment]
  /\ received = [s \in Shipment |-> [i \in Item |-> 0]]

EmptyBooks ==
  /\ balance = [k \in Key |-> ZeroRow]
  /\ ledger = [ref \in Reference |-> [k \in Key |-> NoFlow]]
  /\ charge = {}
  /\ today = 0

InboundInit == EmptyBooks /\ ShipmentsInit

ShipmentRequest(s) ==
  \/ CreateInbound(s)
  \/ StartReceiving(s)
  \/ \E k \in Key, qty \in 1 .. MaxQty, unit \in Unit : ScanLine(s, k, qty, unit)
  \/ CompleteInbound(s)

MoveRequest ==
  \E k \in Key, to \in Location, q \in 1 .. MaxQty :
    ConfirmPutaway(k, to, q) \/ Transfer(k, to, q)

InboundNext ==
  \/ NextDay /\ UNCHANGED shipmentVars
  \/ MoveRequest /\ UNCHANGED shipmentVars
  \/ \E s \in Shipment : ShipmentRequest(s)

InboundSpec == InboundInit /\ [][InboundNext]_inboundVars

-----------------------------------------------------------------------------
(* Invariants *)

InboundTypeOK ==
  /\ StockTypeOK
  /\ shipment \in [Shipment -> [status : ShipmentStatus, received_at : Day \cup {NoDay},
                                pdf : BOOLEAN]]
  /\ received \in [Shipment -> [Item -> 0 .. MaxQty]]
  /\ charge \subseteq Charge
  /\ today \in Day

SumOverLocations(f, i) == SumFunctionOnSet(f, {k \in Key : ItemOfKey(k) = i})

\* What the lines of a shipment say was received is what its ledger rows
\* brought into the books, item by item, whatever unit it was scanned in.
ReceiptsAreBooked ==
  \A s \in Shipment, i \in Item :
    received[s][i] = SumOverLocations([k \in Key |-> ledger[InboundReference(s)][k].in], i)

\* A shipment that is RECEIVED was charged on the day it was received for
\* exactly the lines it has: reopening it, scanning more lines and completing
\* it again, on that day or a later one, never leaves it RECEIVED with lines
\* that no charge of its date counts.
ReceivedIsCharged ==
  \A s \in Shipment :
    shipment[s].status = "RECEIVED" /\ Lines(s) # {} =>
      \E c \in ChargesFor("INBOUND_LINE", InboundReference(s)) :
        c.date = shipment[s].received_at /\ c.quantity = Cardinality(Lines(s))

-----------------------------------------------------------------------------
(* What the documentation says, and the code does not do *)

\* test_inbound_flow: what lies in staging can be put away (200).
PutawayIsAccepted ==
  \A k \in Key, to \in Location :
    /\ ZoneType[k.location] = "STAGING" /\ ZoneType[to] = "STORAGE"
    /\ CanMove(balance, k, to, 1)
    /\ ledger[PutawayReference(k.location, to)][Moved(k, to)].in < MaxMoved
    => ENABLED ConfirmPutaway(k, to, 1)

=============================================================================
