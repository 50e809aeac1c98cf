------------------------------ MODULE MCOutbound ------------------------------
(* The instances of Outbound.  Competing: two orders for one item, which may *)
(* not both be served and may reserve what the other has packed.  Redispatch:*)
(* two orders over two days.  Single: one order that takes from two batches, *)
(* beside stock in staging.  (Orders are numbers, so there is no symmetry.)  *)
EXTENDS Outbound, TLC

CONSTANTS p1, early, late, stg, str, pck

MCZoneType ==
  [l \in Location |-> CASE l = stg -> "STAGING" [] l = str -> "STORAGE" [] OTHER -> "PACKING"]
MCExpiry == [b \in Batch |-> IF b = early THEN 10 ELSE 20]
MCOpeningReference == <<"RETURN", 1>>
MCReference == {MCOpeningReference} \cup {<<"OUTBOUND", o>> : o \in 1 .. NumOrders}

\* q pieces of every batch in storage, and one of the early one in staging.
Stocked(q) ==
  [k \in Key |-> CASE k.location = str -> q
                   [] k.location = stg /\ k.batch = early -> 1
                   [] OTHER -> 0]
MCStockOne == Stocked(1)
MCStockTwo == Stocked(2)

Want(q) == [product |-> p1, qty |-> q]
MCOneOrTwo == {<<Want(1)>>, <<Want(1), Want(1)>>}
MCOneEach == {<<Want(1)>>}
MCTwoOrSplit == {<<Want(2)>>, <<Want(1), Want(2)>>}
=============================================================================
