------------------------------- MODULE Inventory -------------------------------
(***************************************************************************)
(* The stock books of the warehouse: the tables inventory_balances and     *)
(* inventory_ledger and the functions of services/inventory_service.py.    *)
(*                                                                         *)
(* A balance row is identified by product, batch and location ("no batch"  *)
(* is a batch of its own); a row that has not been inserted yet reads as   *)
(* the zero row get_or_create_balance would insert.  The ledger is kept as *)
(* the total quantity in and out per reference document and balance key,   *)
(* which is all any query of the handlers asks of it.                      *)
(*                                                                         *)
(* A service function is a guard (what it raises on) and a table-valued    *)
(* operator (what it leaves in the session), so that a handler that calls  *)
(* several of them in one transaction is their composition.  Quantities    *)
(* come as deltas in [Key -> Int]; At(k, q) is the delta of one call.      *)
(* All rows belong to one tenant, one client and one warehouse.            *)
(***************************************************************************)
EXTENDS Schema, FiniteSets, Functions

CONSTANTS
  Product, Batch, Location,
  ZoneType,     \* [Location -> zone_type of the location's zone]
  Reference     \* documents a ledger row may name as its reference

ASSUME InventoryAssumption ==
  /\ IsFiniteSet(Product) /\ IsFiniteSet(Batch) /\ IsFiniteSet(Location)
  /\ IsFiniteSet(Reference)
  /\ ZoneType \in [Location -> {"STAGING", "STORAGE", "PACKING", "RETURNS", "QUARANTINE"}]

VARIABLES
  balance,      \* inventory_balances: [Key -> Row]
  ledger        \* inventory_ledger: [Reference -> [Key -> [in, out]]]

stockVars == <<balance, ledger>>

Key == [product : Product, batch : Batch, location : Location]
Row == [on_hand : Int, reserved : Int, available : Int]
Delta == [Key -> Int]

ZeroRow == [on_hand |-> 0, reserved |-> 0, available |-> 0]
NoFlow == [in |-> 0, out |-> 0]

At(k, q) == [x \in Key |-> IF x = k THEN q ELSE 0]
Moved(k, to) == [k EXCEPT !.location = to]

-----------------------------------------------------------------------------
(* inventory_service.py *)

Recalculated(on_hand, reserved) ==
  [on_hand |-> on_hand, reserved |-> reserved, available |-> on_hand - reserved]

\* adjust_reserved: neither a negative reservation nor one beyond on_hand.
CanAdjustReserved(b, d) ==
  \A k \in Key : d[k] # 0 =>
    /\ b[k].reserved + d[k] >= 0
    /\ b[k].on_hand - (b[k].reserved + d[k]) >= 0

\* Mutant: available_qty is not recalculated.
AdjustReserved_StaleAvailable(b, d) ==
  [k \in Key |-> [b[k] EXCEPT !.reserved = @ + d[k]]]

AdjustReserved(b, d) ==
  [k \in Key |-> IF d[k] = 0 THEN b[k]
                 ELSE Recalculated(b[k].on_hand, b[k].reserved + d[k])]

\* Mutant: the check against reserved_qty is missing.
CanPost_IgnoresReserved(b, d) ==
  \A k \in Key :
    /\ d[k] > 0 => b[k].on_hand + d[k] <= MaxQty
    /\ d[k] < 0 => b[k].on_hand + d[k] >= 0

\* add_ledger_and_apply_on_hand: stock may not go below what is reserved,
\* and the new quantity has to fit its column.
CanPost(b, d) ==
  \A k \in Key :
    /\ d[k] > 0 => b[k].on_hand + d[k] <= MaxQty
    /\ d[k] < 0 => /\ b[k].on_hand + d[k] >= 0
                   /\ b[k].on_hand + d[k] >= b[k].reserved

\* Mutant: available_qty is not recalculated.
Posted_StaleAvailable(b, d) ==
  [k \in Key |-> [b[k] EXCEPT !.on_hand = @ + d[k]]]

Posted(b, d) ==
  [k \in Key |-> IF d[k] = 0 THEN b[k]
                 ELSE Recalculated(b[k].on_hand + d[k], b[k].reserved)]

\* The ledger rows of one post.
Positive(n) == IF n > 0 THEN n ELSE 0

\* Mutant: the quantity out keeps the sign of the delta.
Recorded_Signed(l, ref, d) ==
  [l EXCEPT ![ref] =
     [k \in Key |-> [in |-> l[ref][k].in + Positive(d[k]),
                     out |-> l[ref][k].out - Positive(-d[k])]]]

Recorded(l, ref, d) ==
  [l EXCEPT ![ref] =
     [k \in Key |-> [in |-> l[ref][k].in + Positive(d[k]),
                     out |-> l[ref][k].out + Positive(-d[k])]]]

\* move_on_hand: one post out of k, then one into the same item at `to'.
CanMove(b, k, to, q) ==
  /\ q > 0
  /\ CanPost(b, At(k, -q))
  /\ CanPost(Posted(b, At(k, -q)), At(Moved(k, to), q))

\* Mutant: the target row is read before the source row is written.
MovedBalance_StaleTarget(b, k, to, q) ==
  [Posted(b, At(k, -q)) EXCEPT ![Moved(k, to)] = Posted(b, At(Moved(k, to), q))[Moved(k, to)]]

MovedBalance(b, k, to, q) == Posted(Posted(b, At(k, -q)), At(Moved(k, to), q))

\* Mutant: a move writes the incoming row only.
MovedLedger_OneLeg(l, ref, k, to, q) == Recorded(l, ref, At(Moved(k, to), q))

MovedLedger(l, ref, k, to, q) ==
  Recorded(Recorded(l, ref, At(k, -q)), ref, At(Moved(k, to), q))

-----------------------------------------------------------------------------
(* Queries and invariants of the books *)

\* Stock an order may be promised: everything that is not in a STAGING zone.
Promisable(k) == ZoneType[k.location] # "STAGING"

AvailableSum(b, p) ==
  SumFunctionOnSet([k \in Key |-> b[k].available],
                   {k \in Key : k.product = p /\ Promisable(k)})

LedgerNet(k) ==
  SumFunction([ref \in Reference |-> ledger[ref][k].in - ledger[ref][k].out])

\* get_or_create_balance has inserted the row: something was posted to it.
HasRow(k) == \E ref \in Reference : ledger[ref][k] # NoFlow

StockTypeOK ==
  /\ balance \in [Key -> Row]
  /\ ledger \in [Reference -> [Key -> [in : Nat, out : Nat]]]

\* Every balance row is consistent: nothing negative, no more reserved than
\* there is, the stored available_qty equal to on_hand - reserved, and all
\* three within their columns, whatever sequence of calls led here.
BalanceConsistent ==
  \A k \in Key :
    /\ 0 <= balance[k].reserved
    /\ balance[k].reserved <= balance[k].on_hand
    /\ balance[k].on_hand <= MaxQty
    /\ balance[k].available = balance[k].on_hand - balance[k].reserved

\* The books reconcile: for every item and location the ledger rows of all
\* documents add up to the stored on_hand_qty.
LedgerReconciles == \A k \in Key : LedgerNet(k) = balance[k].on_hand

=============================================================================
