------------------------------- MODULE MCInbound -------------------------------
(* The instance of Inbound that a test of put-away is held against.          *)
EXTENDS Inbound, TLC

CONSTANTS p1, stg, str

MCZoneType == [l \in Location |-> IF l = stg THEN "STAGING" ELSE "STORAGE"]
MCUnitSize ==
  [p \in Product |-> [u \in Unit |->
     CASE u = "piece" -> 1 [] u = "carton" -> 2 [] OTHER -> 0]]
MCReference ==
  {<<"INBOUND", s>> : s \in 1 .. NumShipments} \cup {<<"MANUAL">>}
    \cup {<<"PUTAWAY", from, to>> : from, to \in Location}
=============================================================================
