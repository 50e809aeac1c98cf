----------------------------- MODULE StockPromise -----------------------------
(***************************************************************************)
(* What a reservation promises.  Stock lies in bins, one item to a bin,    *)
(* and is either free or held for one order.  Free stock may become held,  *)
(* or leave; held stock leaves the hold of its order only by being fetched *)
(* for that order, which makes it free stock in the bin it was brought to. *)
(* Nothing is held that was not free, and nothing held leaves the house.   *)
(***************************************************************************)
EXTENDS Integers

CONSTANTS
  Order, Bin,
  ItemOf    \* [Bin -> the item that lies in it]

VARIABLES
  free,     \* [Bin -> quantity promised to nobody]
  held      \* [Order -> [Bin -> quantity held for the order]]

promiseVars == <<free, held>>

PromiseTypeOK ==
  /\ free \in [Bin -> Nat]
  /\ held \in [Order -> [Bin -> Nat]]

PromiseInit ==
  /\ free \in [Bin -> Nat]
  /\ held = [o \in Order |-> [b \in Bin |-> 0]]

\* Free stock, in any number of bins, becomes held for o.
Hold(o) ==
  /\ \A b \in Bin :
       /\ free'[b] <= free[b]
       /\ held'[o][b] = held[o][b] + (free[b] - free'[b])
  /\ \A other \in Order \ {o} : held'[other] = held[other]

\* q pieces held for o in bin `from' are fetched to bin `to', where they are free.
Fetch(o, from, to, q) ==
  /\ ItemOf[from] = ItemOf[to]
  /\ 0 < q /\ q <= held[o][from]
  /\ held' = [held EXCEPT ![o][from] = @ - q]
  /\ free' = [free EXCEPT ![to] = @ + q]

\* Free stock leaves.
Ship ==
  /\ \A b \in Bin : free'[b] <= free[b]
  /\ UNCHANGED held

PromiseNext ==
  /\ PromiseTypeOK'
  /\ \/ \E o \in Order : Hold(o)
     \/ \E o \in Order, from, to \in Bin :
          \E q \in 1 .. held[o][from] : Fetch(o, from, to, q)
     \/ Ship

PromiseSpec == PromiseInit /\ [][PromiseNext]_promiseVars

\* In a house where stock also arrives, is moved and is corrected, all of it
\* concerns free stock only.
Rearrange == UNCHANGED held

HouseNext == PromiseNext \/ (PromiseTypeOK' /\ Rearrange)

HouseSpec == PromiseInit /\ [][HouseNext]_promiseVars

=============================================================================
