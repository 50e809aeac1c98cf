------------------------------- MODULE Warehouse -------------------------------
(***************************************************************************)
(* The whole warehouse: shipments, put-away, transfers, orders, returns    *)
(* and discrepancies work on the same books, in any order of requests.     *)
(***************************************************************************)
EXTENDS Outbound, Inbound, Adjustments

\* The stock there was before was not brought by a document of the house.
ASSUME WarehouseAssumption ==
  OpeningReference \notin
    {InboundReference(s) : s \in Shipment} \cup {ReturnReference(r) : r \in Return}
      \cup {DiscrepancyReference(d) : d \in Report}

warehouseVars == <<balance, ledger, charge, today, order, line, reservation, task,
                   shipment, received, returns, returned, scrapped, report>>

WarehouseInit == OutboundInit /\ ShipmentsInit /\ NothingAdjusted

WarehouseNext ==
  \/ NextDay /\ UNCHANGED <<orderVars, shipmentVars, adjustVars>>
  \/ \E o \in Order : OutboundRequest(o) /\ UNCHANGED <<shipmentVars, adjustVars>>
  \/ \E s \in Shipment : ShipmentRequest(s) /\ UNCHANGED <<orderVars, adjustVars>>
  \/ MoveRequest /\ UNCHANGED <<orderVars, shipmentVars, adjustVars>>
  \/ \E r \in Return :
       ReturnRequest(r) /\ UNCHANGED <<charge, today, orderVars, shipmentVars>>
  \/ \E d \in Report :
       ReportRequest(d) /\ UNCHANGED <<charge, today, orderVars, shipmentVars>>

WarehouseSpec == WarehouseInit /\ [][WarehouseNext]_warehouseVars

-----------------------------------------------------------------------------

Opening(p) == Total(OpeningStock, p)
ReceivedPieces(p) ==
  SumFunction([s \in Shipment |->
    SumFunctionOnSet(received[s], {i \in Item : i.product = p})])
ReturnedPieces(p) ==
  SumFunction([r \in Return |->
    Total(returned[r]["RESTOCK"], p) + Total(returned[r]["QUARANTINE"], p)])
AdjustedPieces(p) ==
  LET approved == {d \in Report : report[d].status = "APPROVED"}
  IN  SumFunction([d \in approved |->
        IF report[d].key.product = p THEN report[d].delta_qty ELSE 0])
AllDispatchedPieces(p) == SumFunction([o \in Order |-> DispatchedPieces(o, p)])

\* The stock of the house is what the documents say: of every product there is
\* what was there, plus what shipments and returns brought, plus the approved
\* differences, less what orders took out, through whatever puts, moves, picks
\* and repetitions it went.
StockIsAccountedFor ==
  \A p \in Product :
    Total([k \in Key |-> balance[k].on_hand], p)
      = Opening(p) + ReceivedPieces(p) + ReturnedPieces(p) + AdjustedPieces(p)
          - AllDispatchedPieces(p)

\* Whatever is received, moved, returned or corrected, stock reserved for an
\* order stays reserved until it is picked for that order.
HouseKeepsPromises == Promise!HouseSpec

=============================================================================
