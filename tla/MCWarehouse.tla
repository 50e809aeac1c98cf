------------------------------ MODULE MCWarehouse ------------------------------
(* The instances of Warehouse: one product, with or without a lot, that      *)
(* comes in pieces or in cartons of two.                                     *)
EXTENDS Warehouse, TLC

CONSTANTS p1, lot, stg, str, pck

MCZoneType ==
  [l \in Location |-> CASE l = stg -> "STAGING" [] l = str -> "STORAGE" [] OTHER -> "PACKING"]
MCExpiry == [b \in Batch |-> 0]
MCUnitSize == [p \in Product |-> [u \in Unit |->
     CASE u = "piece" -> 1 [] u = "carton" -> 2 [] OTHER -> 0]]
MCOpeningReference == <<"OPENING">>
MCReference ==
  {MCOpeningReference, <<"MANUAL">>}
    \cup {<<"OUTBOUND", o>> : o \in 1 .. NumOrders}
    \cup {<<"INBOUND", s>> : s \in 1 .. NumShipments}
    \cup {<<"PUTAWAY", from, to>> : from, to \in Location}
    \cup {<<"RETURN", r>> : r \in 1 .. NumReturns}
    \cup {<<"DISCREPANCY", d>> : d \in 1 .. NumReports}

MCNoStock == [k \in Key |-> 0]
MCStored(q) == [k \in Key |-> IF k.location = str THEN q ELSE 0]
MCOneStored == MCStored(1)
MCOneEach == {<<[product |-> p1, qty |-> 1]>>}
=============================================================================
