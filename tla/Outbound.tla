------------------------------- MODULE Outbound -------------------------------
(***************************************************************************)
(* Outbound orders from creation to dispatch: routes_outbound.py,          *)
(* routes_outbound_generate_picks.py, routes_picking.py,                   *)
(* routes_packing_dispatch.py, and reservation_service.py under them.      *)
(*                                                                         *)
(* Requests are served one at a time; an action is one request from its    *)
(* first query to its last commit.  A request that raises before its first *)
(* commit changes nothing and is not a step.  create_billing_event commits *)
(* in the middle of a handler: what can still fail behind that commit is a *)
(* choice of the action.                                                   *)
(***************************************************************************)
EXTENDS Charges, Sequences

CONSTANTS
  NumOrders,         \* orders are numbered in the order of no particular event
  OrderForm,         \* the line lists a request may ask for: sequences of [product, qty]
  Expiry,            \* [Batch -> day]; a batch without expiry date sorts last
  OpeningStock,      \* [Key -> quantity] in the books before the first order
  OpeningReference   \* the document that brought it

Order == 1 .. NumOrders
OrderReference(o) == <<"OUTBOUND", o>>

ASSUME OutboundAssumption ==
  /\ NumOrders \in Nat
  /\ Expiry \in [Batch -> Int]
  /\ OpeningStock \in [Key -> 0 .. MaxQty]
  /\ OrderForm \subseteq Seq([product : Product, qty : 1 .. MaxQty]) \ {<<>>}
  /\ OpeningReference \in Reference
  /\ \A o \in Order : OrderReference(o) \in Reference \ {OpeningReference}

VARIABLES
  order,        \* outbound_orders: status and what the handlers stamp on it
  line,         \* outbound_lines: [Order -> sequence of lines]
  reservation,  \* inventory_reservations: [Order -> [Key -> qty_reserved]]
  task          \* picking_tasks with their lines: one per order

orderVars == <<order, line, reservation, task>>
outboundVars == <<balance, ledger, charge, today, order, line, reservation, task>>

Nothing == [k \in Key |-> 0]
NoTask == [status |-> "NONE", to_pick |-> Nothing, picked |-> Nothing]
NoOrder == [status |-> "NONE", slip |-> FALSE, pdf |-> FALSE, dispatched_at |-> NoDay]

OrderStatus == {"NONE", "DRAFT", "SUBMITTED", "APPROVED", "PICKING", "PACKING",
                "PACKED", "DISPATCHED"}
Line == [product : Product, requested : Nat, reserved : Nat, picked : Nat]

-----------------------------------------------------------------------------
(* reservation_service.py *)

\* _candidate_balances_stmt
Candidates(b, p) ==
  {k \in Key : k.product = p /\ Promisable(k) /\ b[k].available > 0}

\* Mutant: the latest expiry date comes first.
InExpiryOrder_Descending(b, t) ==
  \A j, k \in DOMAIN t :
    t[k] > 0 /\ Expiry[j.batch] > Expiry[k.batch] => t[j] = b[j].available

\* Nothing is taken from a row while an earlier-expiring one has some left.
InExpiryOrder(b, t) ==
  \A j, k \in DOMAIN t :
    t[k] > 0 /\ Expiry[j.batch] < Expiry[k.batch] => t[j] = b[j].available

\* reserve_for_outbound_line takes q pieces of p row by row, earliest expiry
\* first; rows that expire together come in the order of their last update,
\* which is left open.  Such a pass empties every row it touches but one.
Takings(b, p, q) ==
  LET cand == Candidates(b, p)
      Broken(t, k) == 0 < t[k] /\ t[k] < b[k].available
      Greedy(t) ==
        /\ SumFunction(t) = q
        /\ \A k \in cand : t[k] <= b[k].available
        /\ \A j, k \in cand : Broken(t, j) /\ Broken(t, k) => j = k
        /\ InExpiryOrder(b, t)
  IN  {[k \in Key |-> IF k \in cand THEN t[k] ELSE 0] :
         t \in {f \in [cand -> 0 .. q] : Greedy(f)}}

Plus(d, e) == [k \in Key |-> d[k] + e[k]]
Minus(d) == [k \in Key |-> -d[k]]
StillNeeded(l) == l.requested - l.reserved

\* What the lines of order o can take together, one line after the other;
\* a line that already has its quantity reserved is passed over.
OrderTakings(o) ==
  LET next(t, l) ==
        IF StillNeeded(l) <= 0 THEN {t}
        ELSE {Plus(t, u) : u \in Takings(AdjustReserved(balance, t),
                                         l.product, StillNeeded(l))}
      upTo[i \in 0 .. Len(line[o])] ==
        IF i = 0 THEN {Nothing} ELSE UNION {next(t, line[o][i]) : t \in upTo[i - 1]}
  IN  upTo[Len(line[o])]

-----------------------------------------------------------------------------
(* routes_outbound.py *)

\* Every line on its own finds its quantity available.
EachLineAvailable(form) ==
  \A i \in DOMAIN form : AvailableSum(balance, form[i].product) >= form[i].qty

\* create_outbound: a client user's order starts SUBMITTED, a staff user's DRAFT.
CreateOutbound(o, form, status) ==
  /\ order[o].status = "NONE"
  /\ EachLineAvailable(form)
  /\ DumpIsEncodable
  /\ order' = [order EXCEPT ![o].status = status]
  /\ line' = [line EXCEPT ![o] = [i \in DOMAIN form |->
                [product |-> form[i].product, requested |-> form[i].qty,
                 reserved |-> 0, picked |-> 0]]]
  /\ UNCHANGED <<stockVars, reservation, task, charge, today>>

\* approve_outbound: reserve what every line still needs, or nothing at all.
ApproveOutbound(o) ==
  /\ order[o].status \in {"SUBMITTED", "DRAFT"}
  /\ \E taken \in OrderTakings(o) :
       /\ taken \in [Key -> Nat]
       /\ CanAdjustReserved(balance, taken)
       /\ balance' = AdjustReserved(balance, taken)
       /\ reservation' = [reservation EXCEPT ![o] = Plus(@, taken)]
  /\ line' = [line EXCEPT ![o] = [i \in DOMAIN line[o] |->
                [line[o][i] EXCEPT !.reserved = @ + Positive(StillNeeded(line[o][i]))]]]
  /\ order' = [order EXCEPT ![o].status = "APPROVED"]
  /\ UNCHANGED <<ledger, task, charge, today>>

(* routes_outbound_generate_picks.py *)

\* generate_picks: one task line per reservation row.
GeneratePicks(o) ==
  /\ order[o].status = "APPROVED"
  /\ task[o].status = "NONE"
  /\ \E k \in Key : reservation[o][k] > 0
  /\ task' = [task EXCEPT ![o] = [status |-> "OPEN", to_pick |-> reservation[o],
                                  picked |-> Nothing]]
  /\ order' = [order EXCEPT ![o].status = "PICKING"]
  /\ UNCHANGED <<stockVars, line, reservation, charge, today>>

-----------------------------------------------------------------------------
(* routes_picking.py *)

\* Mutant: starting a task starts it over.
StartTask_StartsOver(o) ==
  /\ task[o].status # "NONE"
  /\ task' = [task EXCEPT ![o].status = "IN_PROGRESS", ![o].picked = Nothing]
  /\ UNCHANGED <<stockVars, order, line, reservation, charge, today>>

\* start_task: no matter what state the task is in.
StartTask(o) ==
  /\ task[o].status # "NONE"
  /\ task' = [task EXCEPT ![o].status = "IN_PROGRESS"]
  /\ UNCHANGED <<stockVars, order, line, reservation, charge, today>>

\* Mutant: the aggregate on the balance row is forgotten.
Released_KeepsAggregate(k, q) == balance

\* consume_reservation releases q pieces of the balance row to the picker.
Released(k, q) == AdjustReserved(balance, At(k, -q))

\* What scan_pick checks before it touches anything but the stock itself.
CanPick(o, k, q) ==
  /\ task[o].to_pick[k] > 0
  /\ task[o].picked[k] + q <= task[o].to_pick[k]
  /\ reservation[o][k] >= q
  /\ CanAdjustReserved(balance, At(k, -q))

\* Mutant: every line of the product counts the pick.
CountPick_EveryLine(o, k, q) ==
  line' = [line EXCEPT ![o] = [i \in DOMAIN line[o] |->
             IF line[o][i].product = k.product THEN [line[o][i] EXCEPT !.picked = @ + q]
             ELSE line[o][i]]]

\* The first outbound line of the product counts the pick; which one the
\* unordered query finds first is left open.
CountPick(o, k, q) ==
  \E i \in DOMAIN line[o] :
    /\ line[o][i].product = k.product
    /\ line[o][i].picked + q <= MaxQty
    /\ line' = [line EXCEPT ![o][i].picked = @ + q]

\* scan_pick: q pieces of task line k go to location `to', whichever the
\* worker scanned.
ScanPick(o, k, to, q) ==
  /\ CanPick(o, k, q)
  /\ CanMove(Released(k, q), k, to, q)
  /\ balance' = MovedBalance(Released(k, q), k, to, q)
  /\ ledger' = MovedLedger(ledger, OrderReference(o), k, to, q)
  /\ reservation' = [reservation EXCEPT ![o][k] = @ - q]
  /\ task' = [task EXCEPT ![o].picked[k] = @ + q]
  /\ CountPick(o, k, q)
  /\ UNCHANGED <<order, charge, today>>

\* Mutant: the order gets the status of the task.
CompleteTask_CopiesStatus(o) ==
  /\ task[o].status # "NONE"
  /\ \A k \in Key : task[o].picked[k] >= task[o].to_pick[k]
  /\ task' = [task EXCEPT ![o].status = "DONE"]
  /\ order' = [order EXCEPT ![o].status = task'[o].status]
  /\ UNCHANGED <<stockVars, line, reservation, charge, today>>

\* Mutant: a task may be completed with lines still to pick.
CompleteTask_Unchecked(o) ==
  /\ task[o].status # "NONE"
  /\ task' = [task EXCEPT ![o].status = "DONE"]
  /\ order' = [order EXCEPT ![o].status = "PACKING"]
  /\ UNCHANGED <<stockVars, line, reservation, charge, today>>

\* complete_task: the order goes to PACKING, wherever it was.
CompleteTask(o) ==
  /\ task[o].status # "NONE"
  /\ \A k \in Key : task[o].picked[k] >= task[o].to_pick[k]
  /\ task' = [task EXCEPT ![o].status = "DONE"]
  /\ order' = [order EXCEPT ![o].status = "PACKING"]
  /\ UNCHANGED <<stockVars, line, reservation, charge, today>>

-----------------------------------------------------------------------------
(* routes_packing_dispatch.py *)

\* Mutant: every confirmation prints and charges a slip.
PackingConfirm_AlwaysCharges(o) ==
  /\ task[o].status = "DONE"
  /\ order' = [order EXCEPT ![o].status = "PACKED", ![o].slip = TRUE]
  /\ charge' = charge \cup {Event("PRINT_LABEL", OrderReference(o), 1)}
  /\ UNCHANGED <<stockVars, line, reservation, task, today>>

\* packing_confirm: the order is PACKED, wherever it was, once its task is
\* DONE.  The first confirmation stores the slip and charges the label;
\* had the charge existed, its rollback would have taken the status along.
PackingConfirm(o) ==
  /\ task[o].status = "DONE"
  /\ IF order[o].slip
     THEN /\ order' = [order EXCEPT ![o].status = "PACKED"]
          /\ UNCHANGED charge
     ELSE /\ AddCharge("PRINT_LABEL", OrderReference(o), 1)
          /\ order' = [order EXCEPT ![o].status = "PACKED", ![o].slip = TRUE]
  /\ UNCHANGED <<stockVars, line, reservation, task, today>>

\* What the ledger says was picked for o into location loc.
PickedInto(o, loc) ==
  [k \in Key |-> IF k.location = loc THEN ledger[OrderReference(o)][k].in ELSE 0]

\* There is something to dispatch, and the books let it go.
CanDispatch(o, loc) ==
  /\ \E k \in Key : PickedInto(o, loc)[k] > 0
  /\ CanPost(balance, Minus(PickedInto(o, loc)))

\* Mutant: a charge that exists is accepted, and the shipment with it.
ShipAndCharge_Tolerant(o, loc) ==
  /\ balance' = Posted(balance, Minus(PickedInto(o, loc)))
  /\ ledger' = Recorded(ledger, OrderReference(o), Minus(PickedInto(o, loc)))
  /\ charge' = charge \cup {Event("DISPATCH_ORDER", OrderReference(o), 1)}

\* Mutant: a later shipment of an order that was charged is free.
ShipAndCharge_OncePerOrder(o, loc) ==
  /\ ~Charged("DISPATCH_ORDER", OrderReference(o))
  /\ balance' = Posted(balance, Minus(PickedInto(o, loc)))
  /\ ledger' = Recorded(ledger, OrderReference(o), Minus(PickedInto(o, loc)))
  /\ charge' = IF ChargesFor("DISPATCH_ORDER", OrderReference(o)) # {} THEN charge
               ELSE charge \cup {Event("DISPATCH_ORDER", OrderReference(o), 1)}

\* Mutant: the balance is decremented without a ledger row.
ShipAndCharge_NoLedger(o, loc) ==
  /\ balance' = Posted(balance, Minus(PickedInto(o, loc)))
  /\ AddCharge("DISPATCH_ORDER", OrderReference(o), 1)
  /\ UNCHANGED ledger

\* dispatch_confirm up to its billing commit: everything ever picked into
\* loc leaves the books, whatever the status of the order.
ShipAndCharge(o, loc) ==
  /\ balance' = Posted(balance, Minus(PickedInto(o, loc)))
  /\ ledger' = Recorded(ledger, OrderReference(o), Minus(PickedInto(o, loc)))
  /\ AddCharge("DISPATCH_ORDER", OrderReference(o), 1)

\* The same when the order was charged today already: the unique key of
\* the billing event fails the commit and the rollback undoes the shipping.
ShipAndRollBack(o) ==
  /\ Charged("DISPATCH_ORDER", OrderReference(o))
  /\ UNCHANGED <<stockVars, charge>>

\* dispatch_confirm: behind the billing commit the document is stored and
\* committed, or that part fails and only the first commit remains.
DispatchConfirm(o, loc) ==
  /\ order[o].status # "NONE"
  /\ CanDispatch(o, loc)
  /\ \E stored \in BOOLEAN :
       \/ /\ ShipAndCharge(o, loc)
          /\ order' = [order EXCEPT ![o].status = "DISPATCHED",
                                    ![o].dispatched_at = today,
                                    ![o].pdf = @ \/ stored]
       \/ /\ ShipAndRollBack(o)
          /\ order' = [order EXCEPT ![o].pdf = @ \/ stored]
  /\ UNCHANGED <<line, reservation, task, today>>

-----------------------------------------------------------------------------

OutboundInit ==
  /\ balance = [k \in Key |-> Recalculated(OpeningStock[k], 0)]
  /\ ledger = [ref \in Reference |-> [k \in Key |->
                [in |-> IF ref = OpeningReference THEN OpeningStock[k] ELSE 0, out |-> 0]]]
  /\ order = [o \in Order |-> NoOrder]
  /\ line = [o \in Order |-> <<>>]
  /\ reservation = [o \in Order |-> Nothing]
  /\ task = [o \in Order |-> NoTask]
  /\ charge = {}
  /\ today = 0

OutboundRequest(o) ==
  \/ \E form \in OrderForm, status \in {"DRAFT", "SUBMITTED"} :
       CreateOutbound(o, form, status)
  \/ ApproveOutbound(o)
  \/ GeneratePicks(o)
  \/ StartTask(o)
  \/ \E k \in Key, to \in Location, q \in 1 .. MaxQty : ScanPick(o, k, to, q)
  \/ CompleteTask(o)
  \/ PackingConfirm(o)
  \/ \E loc \in Location : DispatchConfirm(o, loc)

OutboundNext ==
  \/ NextDay /\ UNCHANGED orderVars
  \/ \E o \in Order : OutboundRequest(o)

OutboundSpec == OutboundInit /\ [][OutboundNext]_outboundVars

-----------------------------------------------------------------------------
(* What is picked, what is gone *)

Total(f, p) == SumFunctionOnSet(f, {k \in Key : k.product = p})

\* Pieces of p that scan_pick booked for o, and that dispatch_confirm took out.
PickedPieces(o, p) == Total([k \in Key |-> ledger[OrderReference(o)][k].in], p)
DispatchedPieces(o, p) ==
  Total([k \in Key |-> ledger[OrderReference(o)][k].out], p) - PickedPieces(o, p)

LineTotal(o, p, field) ==
  SumFunction([i \in DOMAIN line[o] |->
                 IF line[o][i].product = p THEN line[o][i][field] ELSE 0])

-----------------------------------------------------------------------------
(* Invariants *)

OutboundTypeOK ==
  /\ StockTypeOK
  /\ order \in [Order -> [status : OrderStatus, slip : BOOLEAN, pdf : BOOLEAN,
                          dispatched_at : Day \cup {NoDay}]]
  /\ line \in [Order -> Seq(Line)]
  /\ reservation \in [Order -> [Key -> Nat]]
  /\ task \in [Order -> [status : {"NONE", "OPEN", "IN_PROGRESS", "DONE"},
                         to_pick : [Key -> Nat], picked : [Key -> Nat]]]
  /\ charge \subseteq Charge
  /\ today \in Day

\* t counts up what the orders 1, 2, ... have reserved at k.
RunningTotal(t, k) ==
  /\ t[0] = 0
  /\ \A o \in Order : t[o] = t[o - 1] + reservation[o][k]
  /\ \A i, j \in 0 .. NumOrders : i <= j => t[i] <= t[j]

\* The aggregate reserved_qty of a balance row is the sum of the reservation
\* rows of all orders at that item and location: approve_outbound and
\* scan_pick change the two tables separately, row by row.
ReservedIsSumOfOrders ==
  \A k \in Key : \E t \in [0 .. NumOrders -> 0 .. MaxQty] :
    RunningTotal(t, k) /\ t[NumOrders] = balance[k].reserved

\* Once a picking task exists, its lines still ask for exactly what the order
\* has reserved there: the task is a copy generate_picks took of the
\* reservations, and both go down with every scan.
PickLinesMatchReservations ==
  \A o \in Order, k \in Key :
    task[o].status # "NONE" =>
      task[o].to_pick[k] - task[o].picked[k] = reservation[o][k]

\* A worker is never refused what the task list asks for: everything left on
\* a task line can be scanned in one go, whatever other orders did meanwhile.
PromisedStockIsPickable ==
  \A o \in Order, k \in Key :
    LET q == task[o].to_pick[k] - task[o].picked[k]
    IN  q > 0 => CanPick(o, k, q) /\ CanMove(Released(k, q), k, k.location, q)

\* Three records of the same picks agree for every order and product: the
\* picked_qty of the outbound lines, that of the task lines, and the ledger.
PicksAreAccounted ==
  \A o \in Order, p \in Product :
    /\ LineTotal(o, p, "picked") = Total(task[o].picked, p)
    /\ LineTotal(o, p, "picked") = PickedPieces(o, p)

\* The status of an order says what has been done for it: nothing is reserved
\* before approval, an approved order has all it asked for reserved, and an
\* order that was packed has all it asked for picked.
StatusAgreesWithWork ==
  \A o \in Order : \A p \in Product :
    LET asked == LineTotal(o, p, "requested")
        held == Total(reservation[o], p)
        picked == LineTotal(o, p, "picked")
    IN  /\ order[o].status \in {"NONE", "DRAFT", "SUBMITTED"} =>
             held = 0 /\ picked = 0 /\ task[o].status = "NONE"
        /\ order[o].status = "APPROVED" => held = asked /\ task[o].status = "NONE"
        /\ order[o].status = "PICKING" => held + picked = asked
        /\ order[o].status \in {"PACKING", "PACKED"} => held = 0 /\ picked = asked

\* Stock was shipped for an order if and only if the shipment was charged, and
\* the order carries the date of its latest charge: the commit inside
\* create_billing_event either takes the decrement along or undoes it.
ShipmentsAreCharged ==
  \A o \in Order :
    LET charges == ChargesFor("DISPATCH_ORDER", OrderReference(o))
    IN  /\ (\E p \in Product : DispatchedPieces(o, p) > 0) <=> charges # {}
        /\ order[o].dispatched_at = IF charges = {} THEN NoDay
                                    ELSE CHOOSE d \in {c.date : c \in charges} :
                                           \A c \in charges : c.date <= d

\* A packing slip is charged exactly once, on whatever days it is confirmed.
SlipIsChargedOnce ==
  \A o \in Order :
    Cardinality(ChargesFor("PRINT_LABEL", OrderReference(o))) = IF order[o].slip THEN 1 ELSE 0

-----------------------------------------------------------------------------
(* Action properties and the abstract specification *)

StockInHouse(b) == SumFunction([k \in Key |-> b[k].on_hand])

\* Stock leaves the building only in a step that charges a dispatch, and no
\* step of the outbound flow brings any in.
StockLeavesOnlyCharged ==
  [][ /\ StockInHouse(balance') <= StockInHouse(balance)
      /\ StockInHouse(balance') < StockInHouse(balance) =>
           \E c \in charge' \ charge : c.type = "DISPATCH_ORDER" ]_outboundVars

\* First expired, first out, over all lines of an order together: approval
\* leaves nothing available that expires before anything it reserved.
EarliestExpiryFirst ==
  [][ \A o \in Order : \A j, k \in Key :
        /\ reservation'[o][k] > reservation[o][k]
        /\ Promisable(j) /\ j.product = k.product
        /\ Expiry[j.batch] < Expiry[k.batch]
        => balance'[j].available = 0 ]_outboundVars

\* The reservations keep the promise of StockPromise.
Promise == INSTANCE StockPromise WITH
  Bin <- Key,
  ItemOf <- [k \in Key |-> <<k.product, k.batch>>],
  free <- [k \in Key |-> balance[k].available],
  held <- reservation

\* Every step of the outbound flow is a step of the abstract promise: what is
\* reserved for an order stays reserved until it is picked for that order.
ReservationsArePromises == Promise!PromiseSpec

-----------------------------------------------------------------------------
(* What the documentation says, and the code does not do *)

\* test_outbound_flow: a request for stock that is available is created (201).
RequestsAreAccepted ==
  \A o \in Order, form \in OrderForm :
    order[o].status = "NONE" /\ EachLineAvailable(form) =>
      ENABLED CreateOutbound(o, form, "DRAFT")

=============================================================================
