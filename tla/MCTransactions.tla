---------------------------- MODULE MCTransactions ----------------------------
(* Product P without batches, on hand at p1 and movable to p2, product Q in *)
(* a batch, on hand at q1 and movable to q2.  Orders 1 and 2 name both in   *)
(* opposite order; orders 3 and 4 are approved, and order 3 may be picked.  *)
EXTENDS Transactions

CONSTANTS w1, w2, p1, p2, q1, q2

MCProductOf == [i \in Item |-> IF i \in Batched THEN "Q" ELSE "P"]
P1 == [product |-> "P", qty |-> 1]
Q1 == [product |-> "Q", qty |-> 1]
MCOrderLines == <<<<P1, Q1>>, <<Q1, P1>>, <<[product |-> "P", qty |-> 2]>>, <<P1>>>>
MCOpeningStock == [i \in {p1, q1} |-> IF i = p1 THEN [on_hand |-> 5, reserved |-> 3]
                                    ELSE [on_hand |-> 2, reserved |-> 0]]
MCOpeningOrder == 
  [o \in Order |-> [i \in Item |-> IF i # p1 \/ o < 3 THEN 0 ELSE IF o = 3 THEN 2 ELSE 1]]

MCRequests ==
  {[kind |-> "approve", order |-> 1], [kind |-> "approve", order |-> 2],
   [kind |-> "generate", order |-> 3],
   [kind |-> "receive", item |-> p2, qty |-> 1],
   [kind |-> "transfer", item |-> p1, to |-> p2, qty |-> 2],
   [kind |-> "transfer", item |-> q1, to |-> q2, qty |-> 1]}
  \cup {[kind |-> "pick", order |-> 3, task |-> t, item |-> p1, to |-> p2, qty |-> 1] : t \in 1 .. 2}
  \cup {[kind |-> "pick", order |-> 3, task |-> 1, item |-> p1, to |-> p2, qty |-> 2]}
=============================================================================
