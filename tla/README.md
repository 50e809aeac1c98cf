# A TLA+ model of SystemECOM

SystemECOM is a warehouse management system for third-party logistics: a
FastAPI backend over PostgreSQL (`src/wlms-backend`, called *the backend*) and
a Next.js front end (`src/wlms-frontend`).  This directory models the core of
the backend, the stock books and what the request handlers do to them, checks
it with TLC and proves its safety properties with TLAPS.  Paths below
are relative to `src/wlms-backend/app` unless they start with `src/`.

## 1. Inventory of the system

Every operation is an HTTP request.  A request opens one SQLAlchemy session
(`db/session.py`), runs to its end in one thread and normally commits once,
just before it answers; an exception before that leaves nothing behind.
PostgreSQL runs at its default isolation level, no query locks a row
(`FOR UPDATE` occurs nowhere), and nothing runs in the background: the
components interact only by calling each other inside a request and through
the tables they share.

| Component | State | Operations | Hard behaviour | What makes it correct |
|---|---|---|---|---|
| Stock books (`services/inventory_service.py`) | `inventory_balances` (on hand, reserved, available per item and location), `inventory_ledger` | adjust_reserved, get_or_create_balance, add_ledger_and_apply_on_hand, move_on_hand | stored aggregate beside its sources; 32-bit columns; unlocked read-modify-write | rows consistent; ledger reconciles with balances |
| Reservations (`services/reservation_service.py`) | `inventory_reservations` per order and row | reserve_for_outbound_line (FEFO), consume_reservation | two tables for one quantity; several rows and lines at once | aggregate = sum of orders; reserved stock goes to nobody else; earliest expiry first |
| Outbound orders (`api/v1/routes_outbound*.py`) | orders, lines | create, approve, generate_picks | check at creation, reservation at approval | no order gets more than there is |
| Picking (`routes_picking.py`) | tasks, task lines | start, scan, complete | task is a copy of the reservations; operations repeatable in any state | the copies agree; the worker is never refused listed work |
| Packing, dispatch (`routes_packing_dispatch.py`) | order status, slip and document, ledger | packing confirm, dispatch confirm | commit in the middle of the handler; repeated confirmation; no status guard | stock leaves exactly with its charge |
| Billing (`services/billing_service.py`, `routes_billing.py`) | price lists, events, invoices | create event, daily storage, generate, issue, mark paid | commit and rollback of the caller's work; concurrent invoicing | every event charged and invoiced once; every line traceable to its events |
| Inbound, put-away, transfers | shipments, lines, ledger | create, start, scan, complete; confirm; transfer | repeated completion; column widths | receipts reach the books and are charged once |
| Returns, discrepancies | returns, reports | create, scan, complete; report, approve, reject | scan after close; stale difference applied late | an approved report applies the difference that was counted, once; a rejected one applies nothing |
| Sessions and tokens (`routes_auth.py`, `routes_invites.py`, `api/v1/deps.py`) | token_version, reset and invite tokens | login, refresh, logout, forgot, reset, invite, accept | one-time tokens used twice; old sessions after a reset | a reset or invite token works once; a logout, and nothing else, ends every session |
| Rate limiter (`core/rate_limit.py`) | Redis buckets, in-memory windows | rate_limit | INCR and EXPIRE are two commands; fallback between the two stores | a refused key is served again after its window |
| Audit log (`services/audit_service.py`) | `audit_logs` | audit_log | its insert can fail the whole request | a request that is valid is accepted |
| Master data, reports, documents, notifications, HTTP plumbing | plain rows, files | create, read, update; render | unique keys; orphan files | tenant and client scoping |
| Front end | forms, tokens in local storage | pages over the HTTP interface | a double click sends a request twice | none of its own |

`PROJECT.json` lists these components with their status and, under `hazards`,
every behaviour that is hard to test, each at its line.

## 2. Modules

    Schema ── Inventory ─┬─ InventoryProofs (TLAPS: lemmas on the service functions)
                         ├─ Charges ─┬─ Outbound ── MCOutbound (TLC), OutboundProofs (TLAPS)
                         │           └─ Inbound ── MCInbound (TLC)
                         └─ Adjustments
    Warehouse = Outbound + Inbound + Adjustments ── MCWarehouse (TLC), WarehouseProofs (TLAPS)
         └─ INSTANCE StockPromise (abstract specification, also of Outbound alone)
    Billing ── MCBilling (TLC), BillingProofs (TLAPS)
    Schema ── Transactions ── MCTransactions (TLC), TransactionsProofs (TLAPS)
    Sessions ── MCSessions (TLC), SessionsProofs (TLAPS)
    RateLimit ── MCRateLimit (TLC), RateLimitProofs (TLAPS)
    SumProofs (TLAPS: lemmas on sums over finite sets) is extended by
         InventoryProofs, BillingProofs and TransactionsProofs

**Schema** holds what the database and its driver accept, as constants: the
largest quantity of a column, the widths of two VARCHAR columns, and whether
the JSON encoder takes a UUID.  A statement the database refuses raises in the
handler, and the request is not a step.

**Inventory** is the pair of tables `balance` and `ledger` and one guard
(`CanPost`, `CanAdjustReserved`, `CanMove`: what the function raises on) and
one table-valued operator (`Posted`, `AdjustReserved`, `MovedBalance`,
`MovedLedger`, `Recorded`: what it leaves in the session) for every function
of `inventory_service.py`.  A handler that calls several functions in one
transaction is their composition.  A balance row that does not exist reads as
the zero row `get_or_create_balance` would insert.  The ledger is kept as the
total in and out per reference document, item and location: every query of the
handlers asks for such a total.  All rows belong to one tenant, client and
warehouse; every query of the handlers modelled filters by these.

**Charges** is `create_billing_event` as the handlers of the warehouse meet it:
a new key commits what the session holds (`AddCharge`), a key that is taken
rolls it back (`Charged`); the date is part of the key.

**Outbound** has one action per handler, from creation to dispatch:

| Action | Handler | Note |
|---|---|---|
| `CreateOutbound` | create_outbound | each line is checked alone; the audit row must be encodable |
| `ApproveOutbound` | approve_outbound | all lines reserved in turn, or nothing; `Takings` is the greedy FEFO pass |
| `GeneratePicks` | generate_picks | copies the reservations; with an existing task it answers ok and changes nothing |
| `StartTask`, `CompleteTask` | start_task, complete_task | any state of the order |
| `ScanPick` | scan_pick | reservation, aggregate, move, task line and one outbound line in one commit |
| `PackingConfirm` | packing_confirm | the slip and its charge once |
| `DispatchConfirm` | dispatch_confirm | commit inside the billing call; what follows it may fail (`stored`); same-day repetition rolls back |
| `NextDay` | the clock | the date is part of the billing key |

`reserve_for_outbound_line` orders rows by expiry date and then by
`updated_at`.  The second key is left open: among rows that expire together
any order is allowed, so `Takings` returns a set.  `CountPick` likewise leaves
open which line of a product the unordered query finds.

**Inbound** is stock on its way in and between locations:

| Action | Handler | Note |
|---|---|---|
| `CreateInbound`, `StartReceiving` | create_inbound, start_receiving | a received shipment can be reopened |
| `ScanLine` | scan_line | `Pieces` converts the unit of measure; line, balance and ledger in one commit |
| `CompleteInbound` | complete_inbound | `CompleteEmpty`: no lines, no charge; `CompleteAndCharge`: status committed with the charge, document after it; `CompleteAgain`: lines charged today already, status rolled back, document stored all the same |
| `ConfirmPutaway` | confirm_putaway | staging to storage; both ids go into two narrow columns |
| `Transfer` | transfer | any two locations; both ids go into the audit row |

`received` keeps one quantity per shipment and item, as `scan_line` merges the
scans of an item into one line.

**Adjustments** is stock that changes without a shipment or an order:
`CreateReturn`, `ReturnToStock` and `Scrap` (the two outcomes of the scan),
`CompleteReturn`; `CreateDiscrepancy`, `ApproveDiscrepancy`,
`RejectDiscrepancy`.  A report keeps the difference it was created with.

**Warehouse** interleaves all of these over the same books.

**StockPromise** is the abstract specification: stock in bins is free or held
for an order; held stock leaves its hold only by being fetched for that order.
Outbound implements it with `free` = `available_qty` and `held` = the
reservation rows (property `ReservationsArePromises`, theorem
`OutboundKeepsPromises`).  `HouseSpec` of the same module lets free stock
appear, vanish and move as well; Warehouse implements it (property
`HouseKeepsPromises`).

**Billing** is the money side, for one client.  Its requests run concurrently:
what a request reads and what it commits are separate steps wherever it
decides by what it has read, with `session` holding what it has read.

| Action | Code | Note |
|---|---|---|
| `UpsertPriceList` | upsert of a price list, validate_price_list_rules | lists are never changed; any effective date |
| `ChargeService` | create_billing_event for a document | a key that is taken leaves the event as it is |
| `RunDailyStorage` | run_daily_storage | for any date; the key has no warehouse in it |
| `ReadUninvoiced`, `CommitInvoice` | generate_invoice | the select, then invoice, lines and links in one commit |
| `ReadStatus`, `AssignStatus` | issue_invoice, mark_paid | the check and the update |
| `NextDay` | the clock | |

Prices and event totals are integers in hundredths of a cent, amounts of an
invoice in cents, as their columns are. The links that GET
`/invoices/{id}/events` follows are `event[k].invoice`; `billed` and `after` of
an invoice are history variables: the events it summed up, and the number of
invoices when it read them. The `drilldown_query_json` of a line names only
client, type and period and is returned as it was stored, so it is left out.
Billing stands alone: the handlers of the warehouse reach it only through the
key, date and quantity of a charge, which Charges models from their side and
`ChargeService` from this one.

**Transactions** takes five of the handlers apart again: `approve_outbound`,
`generate_picks`, `scan_pick`, `scan_line` of a shipment and `transfer`, all of
which read and write rows of `inventory_balances`.  `rows`, `ledger` and `order`
are what is committed; `tx` is what the session of every worker holds: the
lines and candidates it still has to go through, the service calls it still has
to make, the ORM objects the handler holds (`held`), the call under way with
the values it has loaded (`object`), and what is flushed and not committed
(`writes`), which also locks its rows.

| Action | Code | Note |
|---|---|---|
| `BeginApprove`, `BeginGenerate`, `BeginPick`, `BeginReceive`, `BeginTransfer` | the queries and checks of each handler up to its first service call | one step |
| `ReadCandidates`, `NextReserve` | the query and the loop of reserve_for_outbound_line | the loop takes from the objects as they were loaded |
| `NextCall` | the next service call, its SELECT in get_or_create_balance | any row of the item, as the query has no order |
| `InsertRow` | the INSERT of get_or_create_balance | waits for, then fails on, the unique key, which a row without batch does not have |
| `UpdateRow` | checks, assignments and flush of adjust_reserved and add_ledger_and_apply_on_hand | waits for the row lock, then overwrites the columns that changed |
| `Commit` | the handler's commit | reservations, tasks and status with it (`OrderApproved`, `OrderTasked`, `OrderPicked`); not if the audit row does not fit (`AuditFits`) |
| `Fail`, `Crash`, `CancelDeadlock` | an exception, the end of the process, the database's deadlock detector | all roll back |

An object the ORM holds is not refreshed by a later query; `get_db` gives every
request a new session (`Closed`).  Each SELECT sees what is committed when it
runs and what its own session has flushed, as READ COMMITTED does.  The order
of the candidates is left open.  `missed` and `raced` are history variables:
the items and orders others have committed since a request began, and those
that two overlapping requests have both written.

**Sessions** is `users`, the JWTs issued, `password_reset_tokens` and
`user_invites`.

| Action | Code | Note |
|---|---|---|
| `Login`, `Refresh` | login, refresh | issue two tokens of the version the account has |
| `BeginLogout`, `CommitLogout` | get_current_user; logout | the version is read in one step and its successor written in another |
| `BeginUpdateMe`, `CommitUpdateMe` | update_me | writes the column that changed and no other |
| `ForgotPassword`, `BeginReset`, `CommitReset` | forgot_password, reset_password | `uses` counts the passwords a token has set |
| `InviteUser`, `BeginAcceptInvite`, `CommitAcceptInvite` | invite_user, accept_invite | the unique key on the e-mail decides at the flush |
| `CreateUser` | create_user | check and commit of the administrator's two requests are one step |
| `Abort` | an exception or a crash | nothing is committed |

Flush and commit are one step: what waits for the row lock in between commits
after it and overwrites its columns.  Time does not appear, as an expired token
is one that nobody presents.

**RateLimit** is `rate_limit` for one key: a bucket in Redis that all processes
share and a window in the memory of each.  `Incr`, `Expire`, `LookUp`,
`OpenWindow` and `CountHit` are its statements, `Unreachable`, `IncrFails` and
`ExpireFails` the ways Redis fails (before the command, or with the reply
lost), `Crash` the end of a process and `Tick` the clock.  Times are counted
down and counts above the limit are all alike, which keeps the model finite
without a bound on requests.

## 3. Runs

| Run | Instance | Shows |
|---|---|---|
| competing | two orders, one item, two pieces, one day; orders of 1 or 1+1 pieces (189,262 states) | reservations, aggregates and task lines agree and are kept as promises, also when one order reserves what the other packed |
| single | one order of 2 or of 1+2 pieces, two batches of two, stock in staging, two days (31,776) | FEFO across the lines of an order, the pick counters, status against work done; with packing and dispatch repeated on either day, stock leaves only in a step that charges it and the slip is charged once |
| arrivals | one shipment and one order, one product with a lot that comes in pieces or cartons of two, two locations, two days (43,510) | stock received, completed, reopened, put away, transferred, reserved and picked in any order: lines are what the ledger brought in, a received shipment is charged for the lines it has, the ledger reconciles, promises are kept, stock is accounted for |
| corrections | one return, two reports and one order on one row (469,422) | adjustments happen once and only when approved, with the difference that was counted, and never against reserved stock |
| invoicing | two concurrent requests, one service and storage, two days, two invoices (2,030,770) | the linked events amount to the lines of an invoice until an overlapping invoice takes over links; charges final, prices of the day, amounts add up, events billed twice only by overlapping requests |
| concurrent | two workers and three requests, four orders, two products (one in batches) at two locations each (33,690) | counts never below zero; books and orders go wrong only where two requests that change them overlap; every request ends, deadlocks included |
| sessions | an administrator and a user, two concurrent requests, three logouts, one reset, two invites (260,513) | a logout lasts and nothing else ends a session, a reset token sets one password unless uses overlap; an invite is accepted just when the account is its own |
| ratelimit | two threads of one process, limit 2, window 3, three failures (60,004) | a bucket without expiry is being attended to or was orphaned by a failure; a window in memory admits no more than the limit unless threads overlap; a refused key is admitted again |
| encoding | as competing, `JsonEncodesUuid = FALSE` | *violated*: no order can be created, the audit row cannot be encoded |
| putaway | one shipment, columns of 64 characters | *violated*: a put-away is refused, its reference has 74 characters |
| doublebilling | two concurrent requests, one day | *violated*: two invoices generated at once both bill the same event |
| lostupdate | as concurrent, columns of 64 characters | *violated*: two transactions on one row, an approval and a pick or a receipt, leave an available quantity that is not on hand less reserved |

The last four are the findings of `PROJECT.json`: each checks one sentence of
the documentation, a comment or a test against what the code does.

**Bounds.**  Two orders are the least that compete, and no handler looks at
more than its own order and the balance rows, so a third order adds the same
conflicts again (the proofs are for any number).  Two pieces let one be
reserved, picked or packed while the other is not; `MaxQty` as small as the
stock lets the column limit be met.  Two batches are the least for FEFO and
two days the least for keys that contain the date.  `LastDay` bounds the
clock.  `MaxMoved` bounds what the moves of one reference may bring to a
row and `MaxScrapped` what one return scraps: without them moving back and
forth, or scrapping, never ends.  In Billing, `MaxLists`, `MaxInvoices` and
`MaxQuantity` bound lists, invoices and the pieces of a charge; two workers and
two invoices are the least that overlap; the prices of the instance, half a
cent and 1.49 cents, and 17 per cent are chosen to round at every stage.
Workers and warehouses are interchangeable in Billing, and workers in
Sessions, so these runs use symmetry; their properties are invariants and an
action property.

In Transactions, `MaxRequests` and `MaxCopies` bound the requests of a
behaviour and the rows of one item.  Three requests are enough for one to
commit between the reads and the writes of another and a third to act on what
the two have left; two of the orders name both products in opposite order,
which is the least for a deadlock, and of the two products one has batches and
one has none, which decides whether two receipts leave two rows.  The stock
lets a transfer of two collide with reservations.  Its runs set
`CHECK_DEADLOCK FALSE`: when the requests are used up the system stops; that
requests do not wait for each other for ever is `EveryRequestEnds`.  In
Sessions, `MaxLogouts`, `MaxResets` and `MaxInvites` bound what users ask for:
three logouts are the least with which an ended version may come back, two
invites the least that compete for one e-mail.  In RateLimit, `MaxFailures`
bounds lost replies, failures of EXPIRE and crashes, the number of requests is
not bounded, and two threads are the least that overlap.  A window of three
lets a late thread open one that is shorter than another.  All other runs check
deadlock.

**Fairness.**  `Transactions!Spec` assumes weak fairness of `Proceed` for every
worker and of `CancelDeadlock`: a thread that can run does run, since nothing
in a handler waits but for the database, and PostgreSQL looks for deadlocks
whenever a lock is waited for too long.  Nothing makes a user send a request
(`Begin`) or a process die (`Crash`).  `EveryRequestEnds` then says that a
request ends, by commit or by rollback.  `RateLimit!Spec` assumes weak fairness
of `Tick`, because time passes, and of `Expire`, because a thread that has the
answer of INCR goes on to EXPIRE or fails.  `KeyIsAdmittedAgain` holds against
clients that never pause.  The other modules state no fairness: their requests
are single steps or commit when they like.

**Assumptions.**  Outside the run `encoding` the JSON encoder is assumed to
take a UUID (`JsonEncodesUuid = TRUE`): the repository configures none that
does, and with the default encoder no order exists and nothing else can be
checked.  The runs of Warehouse and the run `concurrent` of Transactions assume
columns of 74 characters where the repository has 64, for the same reason: no
put-away and no transfer would be accepted.  `putaway` and `lostupdate` have
the columns of the repository; in the latter every transfer rolls back, and
the violation needs none.  Outbound, Inbound, Adjustments and Warehouse serve
requests one at a time, which is what the handlers give when requests on one
row or order do not overlap; Transactions shows that this is the condition, and
what goes wrong without it.

Every property of a passing run has a mutant in `PROJECT.json`, a plausible
bug in a modelled definition (named `Definition_Bug`, just before the
definition it changes) that makes TLC find the property violated.

Other behaviour is a weakness the models follow the code in, listed under
`hazards` without a run of its own.  Some of it is against a sentence of the
repository:

* two lines, or two orders, may together ask for more than there is
  (`src/RoadMap.txt:317` "Cannot request more than available (unless allowed
  as backorder mode)."; `src/checklist.md:299` likewise);
* quarantined stock can be reserved, and a returned piece may go to a location
  of any zone (`src/User Guide.md:785` "QUARANTINE (hold)"; `src/RoadMap.txt:399`
  "Returned items go into correct zone and are visible to client (depending on
  policy).");
* the storage of a client's second warehouse is never charged (the comment at
  `services/billing_service.py:160` counts locations "per client+warehouse");
* a draft can be paid, and an invoice goes from PAID back to ISSUED when the
  two requests race (`src/RoadMap.txt:445` "Invoice status: Draft → Issued →
  Paid (manual marking v1)");
* of two invoices generated at once the earlier one keeps its lines and loses
  its links, which is the same trace as `doublebilling` (`src/RoadMap.txt:449`
  "Every invoice line is traceable to underlying events (click-through
  drilldown).").

No sentence was found against the rest: a password reset leaves sessions open;
a failure between INCR and EXPIRE refuses a key for ever; two logouts at once
count as one, and a third may then be undone; packed stock can be reserved by
another order, and the packed order is then not dispatched; a dispatch repeated
on a later day ships pieces of other orders that lie in the same location, and
charges them.

## 4. Proofs

All theorems hold for every value of the constants that meets the named
assumptions: any finite sets of products, batches, locations and references,
any number of orders, requests and invoices, any column limit, any opening
stock.  Every invariant and every action property that a passing run checks is
a theorem; liveness stays with TLC.

* `SumProofs`: what `SumFunctionOnSet` over a finite set yields for a changed,
  a joined, a split or a single value, and its sign and order.
* `InventoryProofs`: each service function keeps `Books`, the conjunction of
  the type of the tables and `BalanceConsistent`, and keeps the ledger
  reconciled.
* `OutboundProofs`: `OutboundTypeCorrect`, `OutboundRowsStayConsistent`,
  `OutboundLedgerReconciles`, `ReservedIsSum`, `PickLinesMatch`,
  `TaskLinesArePickable`, `PicksAreRecordedAlike`, `StatusSaysWhatWasDone`,
  `FirstExpiredFirstOut`, `ShippedStockIsCharged`, `OneChargePerSlip`,
  `StockLeavesCharged`, `OutboundKeepsPromises`.
* `WarehouseProofs`, for all handlers of the warehouse together:
  `HouseRowsStayConsistent`, `HouseLedgerReconciles`, `HouseReservedIsSum`,
  `HouseLinesArePickable`, `HouseKeepsItsPromises`, `HouseStockIsAccountedFor`,
  `AdjustmentsTypeCorrect`, `NoAdjustmentWithoutApproval`, `ReturnsStayBooked`,
  `ApprovalKeepsMovements`, `InboundTypeCorrect`, `ReceiptsStayBooked`,
  `ReceiptsAreCharged`.
* `BillingProofs`: `BillingTypes`, `NoLateDoubleBilling`, `ChargesStayFinal`,
  `PricesAreOfTheDay`, `OnlyOverlapLosesTraces`, `InvoicesAddUp`.
* `TransactionsProofs`, for any workers, items, orders and requests:
  `TablesTypeCorrect`, `CountsStayNonNegative`, `OnlyOverlapBreaksTheBooks`,
  `OnlyOverlapBreaksTheOrders`.
* `SessionsProofs`, for any accounts and workers: `SessionsTypeCorrect`,
  `LogoutsAlwaysLast`, `OnlyLogoutsEndSessions`, `ResetTokensWorkOnce`, `InvitesMakeTheirAccounts`.
* `RateLimitProofs`, for any limit, window, processes and threads:
  `BucketIsAttended`, `MemoryWindowAlwaysHolds`.

**Sums.**  Half of the properties relate sums over rows, lines, documents or
events.  The library's induction theorems take an operator, which no installed
prover can instantiate, so SumProofs argues with sets: if a claim about sums
fails for some subset of a finite set, it fails for a smallest one
(`SmallestSet`), and that one cannot be, since its sum is that of a smaller
one and one value more.  That the recursion behind a sum has a solution at all
(`IterationExists`) is the first use of this.  The recursive functions over the
lines of an order, the FEFO pass of `Takings` foremost, are handled alike, with
a least line instead of a smallest set (`LeastNatural`).  This is why
`InventoryAssumption` and `TransactionsAssumption` ask for finite sets of
references and of items, which a database has.

**Outbound.**  The argument goes in layers.  `Books` and the types are
inductive.  That the aggregate is the sum of the orders says that a function
that counts up what orders 1, 2, ... have reserved exists and ends at the
aggregate (`RunningTotal`); approving or picking for one order raises or lowers
that function from the order on, and its monotonicity is what gives "no order
has reserved more than the aggregate".  `PickLinesMatch` needs a strengthening:
an order without a task has status NONE to APPROVED, and one with a task is
never approved again, so reservations cannot grow under a task.
`TaskLinesArePickable` then follows in every state without a further induction:
what is left on a task line is reserved for the order, hence at most the
aggregate, hence at most on hand.  The refinement maps approval to `Hold`, a
scan to `Fetch`, a dispatch to `Ship` and everything else to a stutter.

`StatusAgreesWithWork` says nothing of the states in between, in which requests
send the status to PICKING, PACKING or back without looking at it.  `WorkInv`
says what holds behind the status: from the moment a task exists, what is asked
for of a product is reserved or picked, and behind a DONE task nothing is
reserved.  That an approved order holds all it asked for is a property of the
FEFO pass: it takes for every line what the line needs, or fails.
`EarliestExpiryFirst` follows from the pass too, line by line: an earlier row
has been emptied by this line or an earlier one, and nothing fills it again
before the commit.

`ShipmentsAreCharged` needs `DispatchInv`: the date of an order is that of one
of its charges and no charge lies after today; a dispatch on a later day adds a
charge and moves the date, one on the same day finds the key taken and is
rolled back.  `SlipIsChargedOnce` needs that an order without a slip has no
label (`SlipInv`), because the key alone, which contains the date, would let a
second day charge it again.

**Warehouse.**  Every step is either a step of the outbound flow, to which the
lemmas of OutboundProofs apply as they are, or *quiet* (`StepCases`): it keeps
`Books`, adds only charges, and leaves `reserved_qty` and all tables of the
orders alone.  A quiet step keeps every part of the invariant of the orders at
once and is a `Rearrange` of the abstract house.  Receipts, returns and
discrepancies need that no other handler writes a ledger row in their name
(`OnlyFor`, from `ReferencesDiffer`; the assumption `WarehouseAssumption` says
so of the opening stock) and that a report's difference is still the one
between its two counts.  `ReceivedIsCharged` is inductive with the types,
because charges only grow (`ChargesGrow`) and every scan takes the shipment out
of RECEIVED.  For `StockIsAccountedFor` each of its five sums becomes a sum
over a table (`ReceivedOf`, `ReturnedOf`, `AdjustedOf`, `DispatchedTable` and
the rows of a product), and every kind of step changes at most one of the four
sums of documents, and the stock by as much: a scan of a shipment or a return,
an approval of a report, a dispatch; a move and a pick take from one row of the
product what they bring to another.

**Billing.**  `BilledAgainOnlyByOverlap` is not inductive, as it says nothing
of requests that have read and not yet committed.  `BillingInv` adds three
facts: `BilledIsLinked` (an event that an invoice bills names that invoice or a
later one, so it is never uninvoiced again), `ReadsAreNew` (the events a
request has read are billed by no invoice that was there when it read them) and
the tables' shape.  Then a commit can only clash with an invoice committed
after its read, which is the overlap.  The same invariant gives
`ChargesStayFinal`: an invoice id only ever replaces a smaller one.

For the amounts, `AmountsInv` says that every invoice is `Backed`: its lines,
subtotal and total are those of the events it bills *as these are now*.  That
it stays so when events are added and linked uses that no event is repriced
(`EventsGrow`); that an event is linked only to an invoice that bills it uses
that a request holds only events of its period.  `UntraceableOnlyByOverlap`
puts the two together: if an event an invoice bills is linked to another one,
that one is later (`BilledIsLinked`) and bills it too (`AmountsInv`), so it
overlapped (`OverlapOnly`); if there is none, the links are the events the
lines were summed from.  `InvoiceAddsUp` is then
arithmetic: the events fall into types, each rounded by half a cent at most
(`RoundedSum`, `SumByType`).

**Transactions.**  That counts stay above zero needs the shape of everything a
session holds (`Types`): what it has loaded and what it has flushed are counts
above zero as well (`SoundRows`), and a call it has still to make is one the
request asked for (`SoundRequest`).  `OnlyOverlapBreaksTheBooks` needs in
addition that a request which has missed nothing of an item is on solid ground
(`Follows`): the rows it holds, has loaded or has flushed of that item are the
committed ledger and reservations with its own changes added, and what it has
flushed it has accounted for in `made` (`WritesWhatItMade`).  A commit then
either keeps ledger, reservations and row in step or puts the item into `raced`.

`OnlyOverlapBreaksTheOrders` follows what a request does to its order
(`RequestsInv`): unless somebody else has committed a change of the order, the
order is the one the request saw, and an approval is at a definite place in its
lines, where what it has reserved of a product, what the call under way
reserves, what it is short of for the present line and what the later lines ask
for add up to what the order asks for (`Reserving`).  At the commit the last
three are nothing, so the order holds what it asks for (`OrderSound`); a pick
moves a quantity from reserved to picked, and task lines and reservations go
down together.  `OpeningOrdersAssumption` says that an order of the initial
state was approved as a whole or not at all, as `approve_outbound` does it.

**Sessions.**  A request that has not missed a use of the account or the token
still holds what the database holds: a logout the version in force
(`EndedInv`), a reset a token that no password has been set with (`UsesInv`).
Versions ended lie below the one in force, so a logout that follows another one
ends a version that never comes back.  `SessionsEndOnlyByLogout` is inductive
with the types: a token is issued with the version in force, a commit of a
profile or a password writes no version (`ColumnsKeep`), and a logout ends the
version it replaces, whichever one it had read.  `InviteMakesItsAccount` is inductive
with the types, because the account and the mark of the invite are one commit
and no action takes an account away.

**RateLimit.**  An unraced window has at most one thread that has looked it up
and not yet written (`Sole`), so its count is the number of requests it let
pass, or beyond the limit (`WindowInv`).

**Left to TLC**: liveness under fairness, `EveryRequestEnds` and
`KeyIsAdmittedAgain`, which the installed provers do not reach; and the four
runs that show a violation.

## 5. Not modelled

Role and tenant checks (every request is taken to be an allowed one), the
client, warehouse and product lookups, the texts of documents, labels and
mails, and everything marked `not_modelled` in `PROJECT.json` with its reason.
Read requests change nothing and appear only where a handler uses their query.
The document of an invoice is left out: a column that nothing reads.

* **Master data** (clients, warehouses, zones, locations, products) is created
  and edited row by row, each in one statement, and kept apart by unique keys
  of the database; what is left of it is validation of forms.  Accounts are the
  exception, as invites and administrators compete for them: Sessions.
* **Reports and dashboard** are queries and their formatting.
* **Notifications** are rows that nothing in the repository sends or reads.
* **Documents, labels, files**: whether a slip or a document has been stored is
  in Outbound and Inbound; drawing and writing files is input and output.
* **HTTP plumbing, migrations**: configuration, logging, schema scripts.
* **The front end** keeps forms and tokens; every request it can send, twice
  or late, is one of the backend models.
* In Transactions: create_outbound, packing and dispatch, returns and
  corrections.  They post to balance rows through the same two service
  functions, and what the billing call commits in the middle of a dispatch is
  in Outbound.  The reads a handler makes before its first service call are one
  step, which leaves out that one of them is older than the next.
* In Sessions: expiry, roles, the user name as a second unique key, and
  verify_supervisor, which writes nothing but an audit row.

## 6. State of the plan

1. Schema and Inventory, with the lemmas on the service functions.  *Done.*
2. Outbound and StockPromise, with proofs and refinement.  *Done.*
3. Inbound and Adjustments over Inventory, Warehouse over all of them,
   implementing StockPromise with arrivals.  *Modelled, checked, proved.*
4. Billing with concurrent requests.  *Modelled, checked, proved.*
5. Transactions: handlers at read committed, with liveness.  *Modelled,
   checked; all safety proved.*
6. Sessions: token versions, resets and invites with requests interleaved.
   *Modelled, checked, proved.*
7. RateLimit: Redis, memory and failures between two commands, with liveness.
   *Modelled, checked; safety proved.*

Worth doing next: dispatches and corrections as further requests of
Transactions, and the session logic of the front end (one refresh and one retry
after a 401).
