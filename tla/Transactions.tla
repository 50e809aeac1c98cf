----------------------------- MODULE Transactions -----------------------------
(***************************************************************************)
(* Requests as the database runs them: each is a transaction at READ       *)
(* COMMITTED, its queries and its flushes interleave with those of other   *)
(* requests, and no query locks a row.  Modelled are the requests that     *)
(* meet at the rows of inventory_balances: approve_outbound,               *)
(* generate_picks, scan_pick, scan_line of a shipment and transfer, with   *)
(* the service functions under them (inventory_service.py,                 *)
(* reservation_service.py) cut into their SELECT and their flush.          *)
(*                                                                         *)
(* What a session has flushed and not committed is its writes; a row with  *)
(* such a write is locked.  An object the ORM has loaded is not refreshed  *)
(* by a later SELECT while the handler still holds it.                     *)
(***************************************************************************)
EXTENDS Schema, Sequences, FiniteSets, Functions

CONSTANTS
  Worker,        \* threads that serve requests
  Item,          \* product, batch and location together, the key of a balance row
  ProductOf,     \* [Item -> product]
  Batched,       \* items with a batch_id: only these does the unique key cover
  NumOrders,
  OrderLines,    \* [Order -> sequence of [product, qty]]
  OpeningStock,  \* [items that have a row -> [on_hand, reserved]]
  OpeningOrder,  \* [Order -> [Item -> quantity reserved]]: approved before if it has any
  Requests,      \* the requests users may send
  MaxRequests,   \* bound: requests sent in a behaviour
  MaxCopies      \* bound: rows of one item

Order == 1 .. NumOrders
Copy == 1 .. MaxCopies
RowId == Item \X Copy
Col == {"on_hand", "reserved", "available"}
Qty == Nat \ {0}
OrderLine == [product : {ProductOf[i] : i \in Item}, qty : Qty]
Request ==
  [kind : {"approve", "generate"}, order : Order]
    \cup [kind : {"pick"}, order : Order, task : Nat, item : Item, to : Item, qty : Qty]
    \cup [kind : {"receive"}, item : Item, qty : Qty]
    \cup [kind : {"transfer"}, item : Item, to : Item, qty : Qty]

ASSUME TransactionsAssumption ==
  /\ NumOrders \in Nat /\ MaxRequests \in Nat /\ MaxCopies \in Qty
  /\ DOMAIN ProductOf = Item /\ Batched \subseteq Item
  /\ OrderLines \in [Order -> Seq(OrderLine)]
  /\ Requests \subseteq Request
  /\ DOMAIN OpeningStock \subseteq Item
  /\ OpeningStock \in [DOMAIN OpeningStock -> [on_hand : Nat, reserved : Nat]]
  /\ OpeningOrder \in [Order -> [Item -> Nat]]
  /\ Item \cap Order = {} /\ IsFiniteSet(Item)

\* The opening stock is reserved for the opening orders.
ASSUME OpeningBooksAssumption ==
  \A i \in Item :
    SumFunction([o \in Order |-> OpeningOrder[o][i]])
      = IF i \in DOMAIN OpeningStock THEN OpeningStock[i].reserved ELSE 0

\* What is counted of a product over the items, and what an order asks for.
OrderTotal(f, p) ==
  SumFunctionOnSet(f, {i \in Item : ProductOf[i] = p})
Requested(o, p) ==
  SumFunctionOnSet([n \in DOMAIN OrderLines[o] |-> OrderLines[o][n].qty],
                   {n \in DOMAIN OrderLines[o] : OrderLines[o][n].product = p})

\* An opening order was approved as a whole, or not at all.
ASSUME OpeningOrdersAssumption ==
  \A o \in Order :
    \/ \A i \in Item : OpeningOrder[o][i] = 0
    \/ \A p \in {ProductOf[i] : i \in Item} : OrderTotal(OpeningOrder[o], p) = Requested(o, p)

VARIABLES
  rows,    \* inventory_balances as committed: [row ids that exist -> columns]
  ledger,  \* inventory_ledger as committed: sum of qty_delta per item
  order,   \* order with its reservations and picking tasks, as committed
  tx,      \* what every worker's session holds
  asked,   \* requests sent so far
  missed,  \* history: items and orders others have written since a worker's request began
  raced    \* history: items and orders that two overlapping requests have written

database == <<rows, ledger, order>>
vars == <<rows, ledger, order, tx, asked, missed, raced>>

\* A balance row.
Row(on_hand, reserved) ==
  [on_hand |-> on_hand, reserved |-> reserved, available |-> on_hand - reserved]
NoRequest == [kind |-> "none"]
NoRow == <<>>
NoCall == [col |-> "none"]
NoObject == [row |-> NoRow, call |-> NoCall]
Empty == [x \in {} |-> 0]
NewOrder == [status |-> "SUBMITTED", reserved |-> [i \in Item |-> 0], tasks |-> <<>>]

\* A session: the lines still to reserve, for the line at hand the candidates
\* still to take from and the quantity still short, the service calls still to
\* make and what those made have added, the objects the handler holds, the call
\* under way with its object, what is flushed, and the order as it was read.
Idle == [request |-> NoRequest, lines |-> <<>>, todo |-> {}, short |-> 0,
         calls |-> <<>>, made |-> [x \in {"on_hand", "reserved"} \X Item |-> 0],
         held |-> Empty, object |-> NoObject, writes |-> Empty, saw |-> NewOrder]

Missing(w) == tx[w].object.row = NoRow /\ tx[w].object # NoObject
Loads(w) == tx[w].object.row # NoRow
Active(w) == tx[w].request # NoRequest
Locked(w) == {x[1] : x \in DOMAIN tx[w].writes}

\* A SELECT of w sees what is committed and what w has flushed itself.
Cell(w, r, c) == IF <<r, c>> \in DOMAIN tx[w].writes THEN tx[w].writes[<<r, c>>] ELSE rows[r][c]
Visible(w) ==
  [r \in DOMAIN rows \cup Locked(w) |->
    [on_hand |-> Cell(w, r, "on_hand"), reserved |-> Cell(w, r, "reserved"),
     available |-> Cell(w, r, "available")]]

RowsOf(w, i) == {r \in DOMAIN rows \cup Locked(w) : r[1] = i}

\* The object a SELECT yields for a row.
Loaded(w, r) == IF r \in DOMAIN tx[w].held THEN tx[w].held[r] ELSE Visible(w)[r]

-----------------------------------------------------------------------------
(* inventory_service.py: one call, its checks and what it assigns *)

Reserve(i, q) == [col |-> "reserved", item |-> i, qty |-> q]
Post(i, q) == [col |-> "on_hand", item |-> i, qty |-> q]

\* The two counts as the call leaves them.
OnHand(image, call) == image.on_hand + (IF call.col = "on_hand" THEN call.qty ELSE 0)
Reserved(image, call) == image.reserved + (IF call.col = "reserved" THEN call.qty ELSE 0)

\* Mutant: the check that a reservation is there to release is missing.
Refused_NotReserved(image, call) ==
  /\ call.col = "on_hand" => call.qty < 0
  /\ OnHand(image, call) < Reserved(image, call)

\* The checks of adjust_reserved and add_ledger_and_apply_on_hand.
Refused(image, call) ==
  /\ call.col = "on_hand" => call.qty < 0
  /\ Reserved(image, call) < 0 \/ OnHand(image, call) < Reserved(image, call)

\* The assignments, to the object as it was loaded.
Assigned(image, call) == Row(OnHand(image, call), Reserved(image, call))

-----------------------------------------------------------------------------
(* The first queries of each handler *)

Start(w, request) ==
  /\ ~Active(w)
  /\ request \in Requests
  /\ asked < MaxRequests
  /\ asked' = asked + 1
  /\ UNCHANGED <<database, missed, raced>>

\* Mutant: the status is not checked.
BeginApprove_Always(w, o) ==
  LET request == [kind |-> "approve", order |-> o]
  IN  /\ Start(w, request)
      /\ tx' = [tx EXCEPT ![w] = [tx[w] EXCEPT !.request = request,
                                           !.lines = OrderLines[o], !.saw = order[o]]]

\* approve_outbound reads the order and its lines.
BeginApprove(w, o) ==
  LET request == [kind |-> "approve", order |-> o]
  IN  /\ Start(w, request)
      /\ order[o].status = "SUBMITTED"
      /\ tx' = [tx EXCEPT ![w] = [tx[w] EXCEPT !.request = request,
                                           !.lines = OrderLines[o], !.saw = order[o]]]

\* generate_picks reads the order, looks for a task and reads the reservations.
BeginGenerate(w, o) ==
  LET request == [kind |-> "generate", order |-> o]
  IN  /\ Start(w, request)
      /\ order[o].status = "APPROVED"
      /\ order[o].tasks = <<>>
      /\ \E i \in Item : order[o].reserved[i] > 0
      /\ tx' = [tx EXCEPT ![w] = [tx[w] EXCEPT !.request = request, !.saw = order[o]]]

\* scan_pick reads the task line and the reservation and checks both.
BeginPick(w, o, t, i, to, q) ==
  LET request == [kind |-> "pick", order |-> o, task |-> t, item |-> i, to |-> to, qty |-> q]
  IN  /\ Start(w, request)
      /\ t \in DOMAIN order[o].tasks
      /\ order[o].tasks[t][i].picked + q <= order[o].tasks[t][i].to_pick
      /\ q <= order[o].reserved[i]
      /\ tx' = [tx EXCEPT ![w] = [tx[w] EXCEPT !.request = request, !.saw = order[o],
                  !.calls = <<Reserve(i, -q), Post(i, -q), Post(to, q)>>]]

\* scan_line of a shipment: one receipt.
BeginReceive(w, i, q) ==
  LET request == [kind |-> "receive", item |-> i, qty |-> q]
  IN  /\ Start(w, request)
      /\ tx' = [tx EXCEPT ![w] = [tx[w] EXCEPT !.request = request, !.calls = <<Post(i, q)>>]]

\* transfer loads the source row and holds it.
BeginTransfer(w, i, to, q) ==
  LET request == [kind |-> "transfer", item |-> i, to |-> to, qty |-> q]
  IN  /\ Start(w, request)
      /\ \E r \in RowsOf(w, i) :
           tx' = [tx EXCEPT ![w] = [tx[w] EXCEPT !.request = request,
                    !.held = [x \in {r} |-> Loaded(w, r)],
                    !.calls = <<Post(i, -q), Post(to, q)>>]]

-----------------------------------------------------------------------------
(* reservation_service.py *)

\* reserve_for_outbound_line selects the rows with stock available and holds
\* them; their order, by expiry and by the time of the last update, is left
\* open here.
ReadCandidates(w) ==
  /\ tx[w].lines # <<>> /\ tx[w].short = 0 /\ tx[w].object = NoObject
  /\ LET line == Head(tx[w].lines)
         seen == Visible(w)
         cand == {r \in DOMAIN seen : /\ ProductOf[r[1]] = line.product
                                      /\ seen[r].available > 0}
     IN  tx' = [tx EXCEPT ![w].lines = Tail(@),
                          ![w].todo = cand,
                          ![w].short = line.qty,
                          ![w].held = [r \in cand |-> seen[r]]]
  /\ UNCHANGED <<database, asked, missed, raced>>

-----------------------------------------------------------------------------
(* One service call: SELECT, then flush *)

\* get_or_create_balance finds a row of the item, whichever comes first, or none.
Find(w, call, session) ==
  LET found == RowsOf(w, call.item)
  IN  IF found = {}
      THEN tx' = [tx EXCEPT ![w] = [session EXCEPT !.object = [row |-> NoRow, call |-> call]]]
      ELSE \E r \in found :
             tx' = [tx EXCEPT ![w] = [session EXCEPT
                      !.object = [row |-> r, call |-> call, image |-> Loaded(w, r)]]]

\* The reservation's loop skips candidates it has emptied, through another row
\* of the item.
Left(w) == {r \in tx[w].todo : tx[w].held[r].available > 0}

\* The next call reserves what the next candidate has available or what is
\* still short.
NextReserve(w) ==
  /\ tx[w].short > 0 /\ tx[w].object = NoObject
  /\ \E r \in Left(w) :
       LET available == tx[w].held[r].available
           take == IF tx[w].short < available THEN tx[w].short ELSE available
       IN  Find(w, Reserve(r[1], take),
                [tx[w] EXCEPT !.todo = @ \ {r}, !.short = @ - take])
  /\ UNCHANGED <<database, asked, missed, raced>>

NextCall(w) ==
  /\ tx[w].calls # <<>> /\ tx[w].object = NoObject
  /\ Find(w, Head(tx[w].calls), [tx[w] EXCEPT !.calls = Tail(@)])
  /\ UNCHANGED <<database, asked, missed, raced>>

\* The row a session is about to write, or NoRow while it has none.
Wanted(w) ==
  LET object == tx[w].object
  IN  CASE object = NoObject -> NoRow
        [] Missing(w) -> IF object.call.item \in Batched THEN <<object.call.item, 1>> ELSE NoRow
        [] OTHER -> IF Refused(object.image, object.call) THEN NoRow ELSE object.row

WaitsFor(w, v) == v # w /\ Wanted(w) # NoRow /\ Wanted(w) \in Locked(v)
Blocked(w) == \E v \in Worker : WaitsFor(w, v)

\* The INSERT of get_or_create_balance.  A NULL in the unique key lets a row
\* without batch be inserted beside another one.
InsertRow(w) ==
  /\ Missing(w)
  /\ ~Blocked(w)
  /\ \E c \in Copy :
       LET session == tx[w]
           call == session.object.call
           r == <<call.item, c>>
           taken(d) == <<call.item, d>> \in DOMAIN rows \cup UNION {Locked(v) : v \in Worker}
       IN  /\ ~taken(c) /\ \A d \in 1 .. c - 1 : taken(d)
           /\ call.item \in Batched => c = 1
           /\ tx' = [tx EXCEPT ![w] = [session EXCEPT
                !.object = [row |-> r, call |-> call, image |-> Row(0, 0)],
                !.writes = [x \in DOMAIN session.writes \cup ({r} \X Col) |->
                              IF x[1] = r THEN 0 ELSE session.writes[x]]]]
  /\ UNCHANGED <<database, asked, missed, raced>>

\* The UPDATE of the flush waits for the lock of the row, and then overwrites
\* the columns the object changed with the values computed before.
UpdateRow(w) ==
  LET session == tx[w]
      object == session.object
      new == Assigned(object.image, object.call)
      cells == {object.row} \X {c \in Col : new[c] # object.image[c]}
  IN  /\ Loads(w)
      /\ ~Refused(object.image, object.call)
      /\ ~Blocked(w)
      /\ tx' = [tx EXCEPT ![w] = [session EXCEPT
           !.writes = [x \in DOMAIN session.writes \cup cells |->
                         IF x \in cells THEN new[x[2]] ELSE session.writes[x]],
           !.held = [r \in DOMAIN session.held |->
                       IF r = object.row THEN new ELSE session.held[r]],
           !.made[<<object.call.col, object.call.item>>] = @ + object.call.qty,
           !.object = NoObject]]
      /\ UNCHANGED <<database, asked, missed, raced>>

-----------------------------------------------------------------------------
(* The end of a request *)

Touched(w) ==
  {r[1] : r \in Locked(w)} \cup (IF "order" \in DOMAIN tx[w].request
                                 THEN {tx[w].request.order} ELSE {})

\* approve_outbound adds to reservation rows it reads under the lock of the
\* balance row.
OrderApproved(w) ==
  [order[tx[w].request.order] EXCEPT
     !.status = "APPROVED",
     !.reserved = [i \in Item |-> @[i] + tx[w].made[<<"reserved", i>>]]]

\* generate_picks makes a task of the reservations it has read.
\* Mutant: the order takes the status of the task.
OrderTasked_TaskStatus(w) ==
  [order[tx[w].request.order] EXCEPT
     !.status = "OPEN",
     !.tasks = Append(@, [i \in Item |-> [to_pick |-> tx[w].saw.reserved[i], picked |-> 0]])]

OrderTasked(w) ==
  [order[tx[w].request.order] EXCEPT
     !.status = "PICKING",
     !.tasks = Append(@, [i \in Item |-> [to_pick |-> tx[w].saw.reserved[i], picked |-> 0]])]

\* scan_pick overwrites what it has read at the start.
OrderPicked(w) ==
  LET q == tx[w].request
  IN  [order[q.order] EXCEPT
         !.reserved[q.item] = tx[w].saw.reserved[q.item] - q.qty,
         !.tasks[q.task][q.item].picked = tx[w].saw.tasks[q.task][q.item].picked + q.qty]

\* The order as the handler leaves it.
OrderAfter(w) ==
  CASE tx[w].request.kind = "approve"  -> OrderApproved(w)
    [] tx[w].request.kind = "generate" -> OrderTasked(w)
    [] OTHER                           -> OrderPicked(w)

\* An UPDATE of a reservation row that is gone raises StaleDataError.
ReservationGone(w) ==
  LET q == tx[w].request
  IN  /\ q.kind = "pick"
      /\ order[q.order].reserved[q.item] = 0
      /\ tx[w].saw.reserved[q.item] > q.qty

Finished(w) ==
  /\ Active(w) /\ tx[w].object = NoObject
  /\ tx[w].lines = <<>> /\ tx[w].short = 0 /\ tx[w].calls = <<>>

\* The audit row of transfer names both locations, every other one a single id.
AuditFits(w) == tx[w].request.kind = "transfer" => FitsEntityId(PairIdLength)

\* Mutants: one session serves every request of a thread, and keeps the objects
\* it has loaded, or what a request that failed has flushed.
Closed_KeepsObjects(w) == [Idle EXCEPT !.held = tx[w].held]
Closed_KeepsWrites(w) == [Idle EXCEPT !.writes = tx[w].writes]

\* get_db closes the session when the request has ended.
Closed(w) == Idle

Commit(w) ==
  /\ Finished(w)
  /\ ~ReservationGone(w) /\ AuditFits(w)
  /\ rows' = Visible(w)
  /\ ledger' = [i \in Item |-> ledger[i] + tx[w].made[<<"on_hand", i>>]]
  /\ order' = [o \in Order |-> IF o \in Touched(w) THEN OrderAfter(w) ELSE order[o]]
  /\ missed' = [v \in Worker |-> IF v = w THEN {}
                                 ELSE IF Active(v) THEN missed[v] \cup Touched(w) ELSE {}]
  /\ raced' = raced \cup (Touched(w) \cap missed[w])
  /\ tx' = [tx EXCEPT ![w] = Closed(w)]
  /\ UNCHANGED asked

\* Closing the session of a request that raised rolls back and releases the locks.
Rollback(w) ==
  /\ tx' = [tx EXCEPT ![w] = Closed(w)]
  /\ missed' = [missed EXCEPT ![w] = {}]
  /\ UNCHANGED <<database, asked, raced>>

\* What makes a handler raise: a check of the service function, too little to
\* reserve, a unique key, a row that is gone, an audit row that does not fit.
Raises(w) ==
  \/ Loads(w) /\ Refused(tx[w].object.image, tx[w].object.call)
  \/ tx[w].object = NoObject /\ tx[w].short > 0 /\ Left(w) = {}
  \/ /\ Missing(w) /\ tx[w].object.call.item \in Batched
     /\ <<tx[w].object.call.item, 1>> \in DOMAIN rows
  \/ Finished(w) /\ (ReservationGone(w) \/ ~AuditFits(w))

Fail(w) == Raises(w) /\ Rollback(w)

\* The database finds sessions that wait for each other and cancels one.
InCycle(w) ==
  \E s \in SUBSET Worker : w \in s /\ \A v \in s : \E u \in s : WaitsFor(v, u)

CancelDeadlock == \E w \in Worker : InCycle(w) /\ Rollback(w)

\* The process dies, or its connection does.
Crash(w) == Active(w) /\ Rollback(w)

-----------------------------------------------------------------------------

Init ==
  /\ order = [o \in Order |->
               [status |-> IF \E i \in Item : OpeningOrder[o][i] > 0 THEN "APPROVED" ELSE "SUBMITTED",
                reserved |-> OpeningOrder[o], tasks |-> <<>>]]
  /\ rows = [r \in (DOMAIN OpeningStock) \X {1} |->
              Row(OpeningStock[r[1]].on_hand, OpeningStock[r[1]].reserved)]
  /\ ledger = [i \in Item |-> IF i \in DOMAIN OpeningStock THEN OpeningStock[i].on_hand ELSE 0]
  /\ tx = [w \in Worker |-> Idle]
  /\ asked = 0
  /\ missed = [w \in Worker |-> {}]
  /\ raced = {}

Begin(w) ==
  \E q \in Requests :
    \/ q.kind = "approve" /\ BeginApprove(w, q.order)
    \/ q.kind = "generate" /\ BeginGenerate(w, q.order)
    \/ q.kind = "pick" /\ BeginPick(w, q.order, q.task, q.item, q.to, q.qty)
    \/ q.kind = "receive" /\ BeginReceive(w, q.item, q.qty)
    \/ q.kind = "transfer" /\ BeginTransfer(w, q.item, q.to, q.qty)

\* What a request that has begun does next of its own accord.
Proceed(w) ==
  \/ ReadCandidates(w)
  \/ NextReserve(w)
  \/ NextCall(w)
  \/ InsertRow(w)
  \/ UpdateRow(w)
  \/ Commit(w)
  \/ Fail(w)

Next ==
  \/ \E w \in Worker : Begin(w) \/ Proceed(w) \/ Crash(w)
  \/ CancelDeadlock

\* Threads run and the deadlock detector of the database does; nobody has to
\* send a request.
Spec ==
  /\ Init /\ [][Next]_vars
  /\ \A w \in Worker : WF_vars(Proceed(w))
  /\ WF_vars(CancelDeadlock)

-----------------------------------------------------------------------------
(* Properties *)

TransactionsTypeOK ==
  /\ DOMAIN rows \subseteq RowId
  /\ \A r \in DOMAIN rows : rows[r] \in [on_hand : Int, reserved : Int, available : Int]
  /\ ledger \in [Item -> Int]
  /\ order \in [Order -> [status : {"SUBMITTED", "APPROVED", "PICKING"},
                          reserved : [Item -> Nat],
                          tasks : Seq([Item -> [to_pick : Nat, picked : Nat]])]]

\* However requests race, neither count of a row falls below zero: the checks
\* are made on the values that are written.
NeverBelowZero ==
  \A r \in DOMAIN rows : rows[r].on_hand >= 0 /\ rows[r].reserved >= 0

ReservedFor(i) == SumFunction([o \in Order |-> order[o].reserved[i]])
CommittedRows(i) == {r \in DOMAIN rows : r[1] = i}

\* Item i has one row, with what the ledger booked on hand and the rest of
\* what is reserved available, or none if nothing was ever booked.
RowAgrees(i) ==
  /\ \A r, s \in CommittedRows(i) : r = s
  /\ CommittedRows(i) = {} => ledger[i] = 0
  /\ \A r \in CommittedRows(i) :
       /\ rows[r].on_hand = ledger[i]
       /\ rows[r].available = rows[r].on_hand - rows[r].reserved

\* Whatever is in flight, crashes or is cancelled, the row of an item goes
\* wrong against the ledger only when two requests that both change it overlap.
BooksWrongOnlyByOverlap == \A i \in Item \ raced : RowAgrees(i)

\* What a row reserves is what the orders hold.
ReservedAgrees(i) ==
  /\ CommittedRows(i) = {} => ReservedFor(i) = 0
  /\ \A r \in CommittedRows(i) : rows[r].reserved = ReservedFor(i)

\* An order holds and is picked exactly what it asked for, by one task, unless
\* two of its own requests overlapped.
OrderAgrees(o) ==
  LET q == order[o]
  IN  /\ Len(q.tasks) <= 1
      /\ \A t \in DOMAIN q.tasks, i \in Item :
           q.tasks[t][i].to_pick - q.tasks[t][i].picked = q.reserved[i]
      /\ \A p \in {ProductOf[i] : i \in Item} :
           LET picked(t) == OrderTotal([i \in Item |-> q.tasks[t][i].picked], p)
           IN  OrderTotal(q.reserved, p) + (IF q.tasks = <<>> THEN 0 ELSE picked(1))
                 = IF q.status = "SUBMITTED" THEN 0 ELSE Requested(o, p)

\* Neither an order nor what is reserved for the orders goes wrong but by an
\* overlap of requests that change it.
OrdersWrongOnlyByOverlap ==
  /\ \A o \in Order \ raced : OrderAgrees(o)
  /\ \A i \in Item \ raced : ReservedAgrees(i)

\* Every request comes to an end, though requests wait for each other's locks
\* and may do so in a circle.
EveryRequestEnds == \A w \in Worker : Active(w) ~> ~Active(w)

\* checklist.md: "Available = on_hand - reserved (consistent)".
AvailableIsConsistent ==
  \A r \in DOMAIN rows : rows[r].available = rows[r].on_hand - rows[r].reserved

=============================================================================
