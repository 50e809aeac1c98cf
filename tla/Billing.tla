-------------------------------- MODULE Billing --------------------------------
(***************************************************************************)
(* Price lists, billing events and invoices of one client                  *)
(* (billing_service.py, routes_billing.py).                                *)
(*                                                                         *)
(* Requests run concurrently at read committed: what a request reads and   *)
(* what it commits are steps of their own wherever it decides by what it   *)
(* has read.  Unit prices and event totals are in hundredths of a cent     *)
(* (Numeric(12,4)), amounts of an invoice in cents (Numeric(12,2)).        *)
(***************************************************************************)
EXTENDS Integers, FiniteSets, Sequences, Functions

CONSTANTS
  Warehouse,
  ServiceType,   \* what the handlers of the warehouse charge for
  Document,      \* reference ids of the documents they charge for
  Worker,        \* requests served at a time
  Rates,         \* rules_json of the price lists
  VatPercent,    \* clients.vat_rate
  Period,        \* <<period_start, period_end>> of the invoices asked for
  LastDay,       \* bound: days 0 .. LastDay
  MaxQuantity,   \* bound: pieces charged at a time, locations occupied
  MaxLists,      \* bound: price lists
  MaxInvoices    \* bound: invoices

Day == 0 .. LastDay
EventType == ServiceType \cup {"STORAGE_DAY"}
Cron == "CRON"
EventKey == [type : EventType, reference : Document \cup {Cron}, date : Day]
NoInvoice == 0
InvoiceId == 1 .. MaxInvoices

\* What validate_price_list_rules lets through: a price for each type of
\* event, 0 if the rules name none, and never a negative one.
ValidRules == [EventType -> Nat]

ASSUME BillingAssumption ==
  /\ Period \subseteq Day \X Day
  /\ ServiceType \subseteq {"INBOUND_LINE", "DISPATCH_ORDER", "PRINT_LABEL"}
  /\ Cron \notin Document
  /\ Rates \subseteq ValidRules
  /\ VatPercent \in 0 .. 100
  /\ {LastDay, MaxQuantity, MaxLists, MaxInvoices} \subseteq Nat

VARIABLES
  today,
  lists,      \* price_lists: set of [from, rate]
  event,      \* billing_events, by their unique key
  invoices,   \* invoices with their lines, in the order of their commits
  session     \* what each request under way has read

billingVars == <<today, lists, event, invoices, session>>

Idle == [doing |-> "nothing"]

-----------------------------------------------------------------------------
(* Prices and events *)

\* Mutant: the latest price list, whether it is in force or not.
InForce_Latest(date) == {pl \in lists : \A other \in lists : other.from <= pl.from}

\* get_active_price_list: the latest that is in force; of several that took
\* effect on one day the query may find any.
InForce(date) ==
  LET started == {pl \in lists : pl.from <= date}
  IN  {pl \in started : \A other \in started : other.from <= pl.from}

\* _price_from_rules: nothing is charged for without a price list.
UnitPrices(type, date) ==
  IF InForce(date) = {} THEN {0} ELSE {pl.rate[type] : pl \in InForce(date)}

UpsertPriceList(from, rate) ==
  /\ Cardinality(lists) < MaxLists
  /\ lists' = lists \cup {[from |-> from, rate |-> rate]}
  /\ UNCHANGED <<today, event, invoices, session>>

EventOf(quantity, unit, warehouse) ==
  [quantity |-> quantity, unit |-> unit, total |-> unit * quantity,
   warehouse |-> warehouse, invoice |-> NoInvoice]

\* Mutant: an event that is there is overwritten.
AddEvent_Overwrites(key, quantity, warehouse) ==
  \E unit \in UnitPrices(key.type, key.date) :
    event' = [k \in DOMAIN event \cup {key} |->
                IF k = key THEN EventOf(quantity, unit, warehouse) ELSE event[k]]

\* create_billing_event: if the key is taken the event that is there stays.
AddEvent(key, quantity, warehouse) ==
  IF key \in DOMAIN event THEN UNCHANGED event
  ELSE \E unit \in UnitPrices(key.type, key.date) :
         event' = [k \in DOMAIN event \cup {key} |->
                     IF k = key THEN EventOf(quantity, unit, warehouse) ELSE event[k]]

\* Mutant: nothing is charged for, too.
Chargeable_Zero(quantity) == quantity >= 0

Chargeable(quantity) == quantity > 0

\* A handler of the warehouse charges for its document, today.
ChargeService(type, document, quantity, warehouse) ==
  /\ Chargeable(quantity)
  /\ AddEvent([type |-> type, reference |-> document, date |-> today], quantity, warehouse)
  /\ UNCHANGED <<today, lists, invoices, session>>

\* run_daily_storage, for any date.  The key is the same for all warehouses of
\* the client, so the first one in the result is charged and all others are
\* taken for repetitions.
RunDailyStorage(date, occupied) ==
  /\ \E warehouse \in Warehouse :
       /\ Chargeable(occupied[warehouse])
       /\ AddEvent([type |-> "STORAGE_DAY", reference |-> Cron, date |-> date],
                   occupied[warehouse], warehouse)
  /\ UNCHANGED <<today, lists, invoices, session>>

NextDay ==
  /\ today < LastDay
  /\ today' = today + 1
  /\ UNCHANGED <<lists, event, invoices, session>>

-----------------------------------------------------------------------------
(* generate_invoice *)

\* Mutant: events of earlier invoices are billed again.
Uninvoiced_All(start, end) == {k \in DOMAIN event : k.date \in start .. end}

Uninvoiced(start, end) ==
  {k \in DOMAIN event : k.date \in start .. end /\ event[k].invoice = NoInvoice}

\* The select of the events; without any the request is refused.
ReadUninvoiced(w, start, end) ==
  /\ session[w] = Idle
  /\ Uninvoiced(start, end) # {}
  /\ session' = [session EXCEPT ![w] =
       [doing |-> "generate", start |-> start, end |-> end,
        keys |-> Uninvoiced(start, end), after |-> Len(invoices)]]
  /\ UNCHANGED <<today, lists, event, invoices>>

\* A Numeric(12,2) column rounds half up what it is given in hundredths of a cent.
Cents(amount) == (amount + 50) \div 100

\* round(subtotal * vat_rate, 2), where a tie of the binary product may go
\* either way.
IsNearest(n, exact) == 2 * (exact - n * 10000) \in -10000 .. 10000
TaxesOn(amount) ==
  LET exact == amount * VatPercent
      down == exact \div 10000
  IN  {n \in {down, down + 1} : IsNearest(n, exact)}

QuantityOf(keys) == SumFunctionOnSet([k \in keys |-> event[k].quantity], keys)
AmountOf(keys) == SumFunctionOnSet([k \in keys |-> event[k].total], keys)
OfType(keys, type) == {k \in keys : k.type = type}

\* One line for each type of event; quantity 0 is no line.
LineOf(keys) == [quantity |-> QuantityOf(keys), total |-> Cents(AmountOf(keys))]

\* `billed' and `after' are history: the events summed up, and how many
\* invoices there were when they were read.
\* Mutant: the tax is rounded once more, with the total.
InvoiceOf_RoundsTwice(s, tax) ==
  [start |-> s.start, end |-> s.end, status |-> "DRAFT",
   lines |-> [type \in EventType |-> LineOf(OfType(s.keys, type))],
   subtotal |-> Cents(AmountOf(s.keys)), tax |-> tax,
   total |-> Cents((AmountOf(s.keys) * (100 + VatPercent)) \div 100),
   billed |-> s.keys, after |-> s.after]

InvoiceOf(s, tax) ==
  [start |-> s.start, end |-> s.end, status |-> "DRAFT",
   lines |-> [type \in EventType |-> LineOf(OfType(s.keys, type))],
   subtotal |-> Cents(AmountOf(s.keys)), tax |-> tax,
   total |-> Cents(AmountOf(s.keys) + 100 * tax),
   billed |-> s.keys, after |-> s.after]

\* Mutant: every event of the period is linked, also one that came in after
\* the events were read.
Linked_Period(s, id) ==
  [k \in DOMAIN event |->
     IF k.date \in s.start .. s.end THEN [event[k] EXCEPT !.invoice = id] ELSE event[k]]

\* The updates of invoice_id go by primary key, whatever is there by now.
Linked(s, id) ==
  [k \in DOMAIN event |->
     IF k \in s.keys THEN [event[k] EXCEPT !.invoice = id] ELSE event[k]]

\* Invoice, lines and links in one commit.  The document that is rendered and
\* stored afterwards, or not, is left out: nothing reads its column.
CommitInvoice(w) ==
  LET s == session[w]
      id == Len(invoices) + 1
  IN  /\ s.doing = "generate"
      /\ id \in InvoiceId
      /\ \E tax \in TaxesOn(AmountOf(s.keys)) : invoices' = Append(invoices, InvoiceOf(s, tax))
      /\ event' = Linked(s, id)
      /\ session' = [session EXCEPT ![w] = Idle]
      /\ UNCHANGED <<today, lists>>

-----------------------------------------------------------------------------
(* issue_invoice and mark_paid *)

CanIssue(status) == status # "PAID"

\* The status the request goes by is the one it reads; a value that does not
\* differ from it is not written.
ReadStatus(w, id, becomes) ==
  /\ session[w] = Idle
  /\ becomes = "ISSUED" => CanIssue(invoices[id].status)
  /\ becomes # invoices[id].status
  /\ session' = [session EXCEPT ![w] = [doing |-> "assign", id |-> id, becomes |-> becomes]]
  /\ UNCHANGED <<today, lists, event, invoices>>

AssignStatus(w) ==
  /\ session[w].doing = "assign"
  /\ invoices' = [invoices EXCEPT ![session[w].id].status = session[w].becomes]
  /\ session' = [session EXCEPT ![w] = Idle]
  /\ UNCHANGED <<today, lists, event>>

-----------------------------------------------------------------------------

BillingInit ==
  /\ today = 0
  /\ lists = {}
  /\ event = [k \in {} |-> 0]
  /\ invoices = <<>>
  /\ session = [w \in Worker |-> Idle]

InvoiceRequest(w) ==
  \/ \E period \in Period : ReadUninvoiced(w, period[1], period[2])
  \/ CommitInvoice(w)
  \/ \E id \in DOMAIN invoices, becomes \in {"ISSUED", "PAID"} : ReadStatus(w, id, becomes)
  \/ AssignStatus(w)

BillingNext ==
  \/ NextDay
  \/ \E from \in Day, rate \in Rates : UpsertPriceList(from, rate)
  \/ \E type \in ServiceType, document \in Document, quantity \in 0 .. MaxQuantity,
        warehouse \in Warehouse : ChargeService(type, document, quantity, warehouse)
  \/ \E date \in Day, occupied \in [Warehouse -> 0 .. MaxQuantity] :
       RunDailyStorage(date, occupied)
  \/ \E w \in Worker : InvoiceRequest(w)

BillingSpec == BillingInit /\ [][BillingNext]_billingVars

-----------------------------------------------------------------------------
(* Properties *)

Event == [quantity : 1 .. MaxQuantity, unit : Nat, total : Nat, warehouse : Warehouse,
          invoice : 0 .. MaxInvoices]
Line == [quantity : Nat, total : Nat]
Invoice == [start : Day, end : Day, status : {"DRAFT", "ISSUED", "PAID"},
            lines : [EventType -> Line], subtotal : Nat, tax : Nat, total : Nat,
            billed : SUBSET EventKey, after : 0 .. MaxInvoices]
Request ==
  {Idle}
    \cup [doing : {"generate"}, start : Day, end : Day, keys : SUBSET EventKey,
          after : 0 .. MaxInvoices]
    \cup [doing : {"assign"}, id : InvoiceId, becomes : {"ISSUED", "PAID"}]

BillingTypeOK ==
  /\ today \in Day
  /\ \A pl \in lists : pl \in [from : Day, rate : Rates]
  /\ DOMAIN event \subseteq EventKey
  /\ \A k \in DOMAIN event : event[k] \in Event
  /\ Len(invoices) <= MaxInvoices
  /\ \A i \in DOMAIN invoices : invoices[i] \in Invoice
  /\ \A w \in Worker : session[w] \in Request

LinkedTo(i) == {k \in DOMAIN event : event[k].invoice = i}

\* GET /invoices/{id}/events of an invoice yields events of its period that
\* amount to every line and to the subtotal.
Traceable(i) ==
  LET inv == invoices[i]
  IN  /\ \A k \in LinkedTo(i) : k.date \in inv.start .. inv.end
      /\ \A type \in EventType : inv.lines[type] = LineOf(OfType(LinkedTo(i), type))
      /\ inv.subtotal = Cents(AmountOf(LinkedTo(i)))

\* "Every invoice line is traceable to underlying events" through the links the
\* database keeps, whatever is charged, priced or invoiced later: an invoice
\* loses its trace only to a later one that read its events before the first
\* was committed, and took over the links of events both bill.
UntraceableOnlyByOverlap ==
  \A i \in DOMAIN invoices :
    \/ Traceable(i)
    \/ \E j \in DOMAIN invoices :
         j > i /\ invoices[j].after < i /\ invoices[i].billed \cap invoices[j].billed # {}

\* However requests interleave, an event is billed a second time only by an
\* invoice that was already under way when the first one was committed.
BilledAgainOnlyByOverlap ==
  \A i, j \in DOMAIN invoices :
    i < j /\ invoices[j].after >= i => invoices[i].billed \cap invoices[j].billed = {}

\* What an event has been charged with, and that it has been invoiced, is
\* never taken back: not by a new price list, a repeated charge or another
\* storage run of the day.
ChargesAreFinal ==
  [][ \A k \in DOMAIN event :
        /\ k \in DOMAIN event'
        /\ [event'[k] EXCEPT !.invoice = 0] = [event[k] EXCEPT !.invoice = 0]
        /\ event[k].invoice # NoInvoice => event'[k].invoice >= event[k].invoice ]_billingVars

\* A price other than zero is that of a list in force on the day of the event:
\* lists for later days do not touch it.
PricedByListInForce ==
  \A k \in DOMAIN event : event[k].unit # 0 =>
    \E pl \in lists : pl.from <= k.date /\ pl.rate[k.type] = event[k].unit

\* Each amount is rounded for itself, and still the total of an invoice is its
\* subtotal and its tax to the cent, and its lines miss the subtotal by no
\* more than half a cent each and one half for the subtotal.
InvoiceAddsUp ==
  \A i \in DOMAIN invoices :
    LET inv == invoices[i]
        used == {type \in EventType : inv.lines[type].quantity > 0}
        byLine == SumFunctionOnSet([type \in used |-> inv.lines[type].total], used)
        bound == Cardinality(used) + 1
    IN  /\ inv.total = inv.subtotal + inv.tax
        /\ 2 * (inv.subtotal - byLine) \in -bound .. bound

-----------------------------------------------------------------------------
(* What the code says of itself, and does not do *)

\* "Prevent double-billing": no event is billed by two invoices.
NoDoubleBilling ==
  \A i, j \in DOMAIN invoices : i # j => invoices[i].billed \cap invoices[j].billed = {}

=============================================================================
