------------------------------- MODULE MCBilling -------------------------------
(* The instances of Billing: one document, one service beside storage, and     *)
(* prices that round: half a cent and nearly a cent and a half.               *)
EXTENDS Billing, TLC

MCServices == {"DISPATCH_ORDER"}
MCPeriods == {<<0, 0>>, <<0, LastDay>>}
MCRates == {[type \in EventType |-> IF type = "STORAGE_DAY" THEN 50 ELSE 149]}
MCSymmetry == Permutations(Worker) \cup Permutations(Warehouse)
=============================================================================
