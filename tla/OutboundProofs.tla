---------------------------- MODULE OutboundProofs ----------------------------
(***************************************************************************)
(* What holds of the outbound flow for every number of orders, every set   *)
(* of items and locations, every opening stock and every list of requests. *)
(***************************************************************************)
EXTENDS Outbound, InventoryProofs, SequenceTheorems

Plan == [Key -> Nat]
TaskRow == [status : {"NONE", "OPEN", "IN_PROGRESS", "DONE"}, to_pick : Plan, picked : Plan]
OrderRow == [status : OrderStatus, slip : BOOLEAN, pdf : BOOLEAN,
             dispatched_at : Day \cup {NoDay}]

OutboundTables ==
  /\ order \in [Order -> OrderRow]
  /\ line \in [Order -> Seq(Line)]
  /\ reservation \in [Order -> Plan]
  /\ task \in [Order -> TaskRow]
  /\ charge \subseteq Charge
  /\ today \in Day

-----------------------------------------------------------------------------
(* The quantities the handlers compute *)

LEMMA PlusType ==
  ASSUME NEW d \in Plan, NEW e \in Plan
  PROVE  Plus(d, e) \in Plan
BY DEF Plus, Plan

\* The events the outbound handlers create are rows of billing_events.
LEMMA EventType ==
  ASSUME NEW o \in Order, today \in Day
  PROVE  /\ Event("PRINT_LABEL", OrderReference(o), 1) \in Charge
         /\ Event("DISPATCH_ORDER", OrderReference(o), 1) \in Charge
BY OutboundAssumption DEF Event, Charge, ChargeType

LEMMA PlanIsDelta == Plan \subseteq Delta
BY DEF Plan, Delta

LEMMA PickedIntoType ==
  ASSUME ledger \in LedgerTable, NEW o \in Order, NEW loc \in Location
  PROVE  PickedInto(o, loc) \in Plan /\ Minus(PickedInto(o, loc)) \in Delta
<1>1. OrderReference(o) \in Reference
  BY OutboundAssumption
<1>2. \A k \in Key : ledger[OrderReference(o)][k].in \in Nat
  BY <1>1 DEF LedgerTable
<1>3. PickedInto(o, loc) \in Plan
  BY <1>2 DEF PickedInto, Plan
<1> QED BY <1>3 DEF Minus, Plan, Delta

LEMMA ReleasedConsistent ==
  ASSUME Consistent(balance), NEW k \in Key, NEW q \in Int,
         CanAdjustReserved(balance, At(k, -q))
  PROVE  Consistent(Released(k, q))
BY DeltaType, AdjustReservedConsistent DEF Released

-----------------------------------------------------------------------------
(* The books *)

LEMMA OutboundBooksInit == OutboundInit => Books
<1> SUFFICES ASSUME OutboundInit PROVE Books
  OBVIOUS
<1>1. MaxQty \in Nat
  BY SchemaAssumption
<1>2. \A k \in Key : OpeningStock[k] \in 0 .. MaxQty
  BY OutboundAssumption
<1>3. Consistent(balance)
  BY <1>1, <1>2 DEF OutboundInit, Consistent, Recalculated, Row
<1>4. ledger \in LedgerTable
  BY <1>1, <1>2 DEF OutboundInit, LedgerTable
<1> QED BY <1>3, <1>4 DEF Books

LEMMA OutboundBooksStep ==
  Books /\ OutboundTables /\ [OutboundNext]_outboundVars => Books'
<1> SUFFICES ASSUME Books, OutboundTables, [OutboundNext]_outboundVars PROVE Books'
  OBVIOUS
<1>0. ASSUME UNCHANGED stockVars PROVE Books'
  BY <1>0 DEF Books, Consistent, LedgerTable, stockVars
<1>1. ASSUME NEW o \in Order, ApproveOutbound(o) PROVE Books'
  <2>1. PICK taken \in [Key -> Nat] : /\ CanAdjustReserved(balance, taken)
                                      /\ balance' = AdjustReserved(balance, taken)
    BY <1>1 DEF ApproveOutbound
  <2>2. taken \in Delta
    BY PlanIsDelta DEF Plan
  <2>3. Consistent(balance')
    BY <2>1, <2>2, AdjustReservedConsistent DEF Books
  <2> QED BY <1>1, <2>3 DEF ApproveOutbound, Books, Consistent, LedgerTable
<1>2. ASSUME NEW o \in Order, NEW k \in Key, NEW to \in Location, NEW q \in Int,
             ScanPick(o, k, to, q)
      PROVE  Books'
  <2>1. Consistent(Released(k, q))
    BY <1>2, ReleasedConsistent DEF ScanPick, CanPick, Books
  <2>2. Consistent(balance')
    BY <1>2, <2>1, MovedConsistent DEF ScanPick
  <2>3. OrderReference(o) \in Reference
    BY OutboundAssumption
  <2>4. ledger' \in LedgerTable
    BY <1>2, <2>3, MovedLedgerType DEF ScanPick, Books
  <2> QED BY <2>2, <2>4 DEF Books, Consistent, LedgerTable
<1>3. ASSUME NEW o \in Order, NEW loc \in Location, DispatchConfirm(o, loc)
      PROVE  Books'
  <2>1. CASE ShipAndCharge(o, loc)
    <3>1. Minus(PickedInto(o, loc)) \in Delta
      BY PickedIntoType DEF Books
    <3>2. Consistent(balance')
      BY <1>3, <2>1, <3>1, PostedConsistent DEF DispatchConfirm, CanDispatch, ShipAndCharge, Books
    <3>3. OrderReference(o) \in Reference
      BY OutboundAssumption
    <3>4. ledger' \in LedgerTable
      BY <2>1, <3>1, <3>3, RecordedType DEF ShipAndCharge, Books
    <3> QED BY <3>2, <3>4 DEF Books, Consistent, LedgerTable
  <2>2. CASE ShipAndRollBack(o)
    BY <1>0, <2>2 DEF ShipAndRollBack
  <2> QED BY <1>3, <2>1, <2>2 DEF DispatchConfirm
<1>4. ASSUME NEW o \in Order, OutboundRequest(o) PROVE Books'
  <2>1. ASSUME NEW form \in OrderForm, NEW status \in {"DRAFT", "SUBMITTED"},
               CreateOutbound(o, form, status)
        PROVE  Books'
    BY <1>0, <2>1 DEF CreateOutbound
  <2>2. CASE GeneratePicks(o) \/ StartTask(o) \/ CompleteTask(o) \/ PackingConfirm(o)
    BY <1>0, <2>2 DEF GeneratePicks, StartTask, CompleteTask, PackingConfirm
  <2>3. 1 .. MaxQty \subseteq Int
    BY SchemaAssumption
  <2> QED BY <1>1, <1>2, <1>3, <1>4, <2>1, <2>2, <2>3 DEF OutboundRequest
<1>5. CASE NextDay /\ UNCHANGED orderVars
  BY <1>0, <1>5 DEF NextDay
<1>6. CASE UNCHANGED outboundVars
  BY <1>0, <1>6 DEF outboundVars, stockVars
<1> QED BY <1>4, <1>5, <1>6 DEF OutboundNext

-----------------------------------------------------------------------------
(* The other tables keep their types *)

\* The functions that the handlers write line by line are sequences of lines.
LEMMA LinesAreSequences ==
  ASSUME NEW n \in Nat, NEW f \in [1 .. n -> Line]
  PROVE  f \in Seq(Line)
BY SeqDef

LEMMA FormsToLines ==
  ASSUME NEW form \in OrderForm
  PROVE  [i \in DOMAIN form |-> [product |-> form[i].product, requested |-> form[i].qty,
                                 reserved |-> 0, picked |-> 0]] \in Seq(Line)
<1>1. form \in Seq([product : Product, qty : 1 .. MaxQty]) /\ MaxQty \in Nat
  BY OutboundAssumption, SchemaAssumption
<1>2. /\ DOMAIN form = 1 .. Len(form)
      /\ Len(form) \in Nat
      /\ \A i \in 1 .. Len(form) : form[i] \in [product : Product, qty : 1 .. MaxQty]
  BY <1>1, LenProperties, ElementOfSeq
<1>3. [i \in DOMAIN form |-> [product |-> form[i].product, requested |-> form[i].qty,
                              reserved |-> 0, picked |-> 0]] \in [1 .. Len(form) -> Line]
  BY <1>1, <1>2 DEF Line
<1> QED BY <1>2, <1>3, LinesAreSequences

LEMMA ReservedLines ==
  ASSUME NEW ls \in Seq(Line)
  PROVE  [i \in DOMAIN ls |-> [ls[i] EXCEPT !.reserved = @ + Positive(StillNeeded(ls[i]))]]
           \in Seq(Line)
<1>1. /\ DOMAIN ls = 1 .. Len(ls)
      /\ Len(ls) \in Nat
      /\ \A i \in 1 .. Len(ls) : ls[i] \in Line
  OBVIOUS
<1>2. ASSUME NEW i \in 1 .. Len(ls)
      PROVE  [ls[i] EXCEPT !.reserved = @ + Positive(StillNeeded(ls[i]))] \in Line
  <2>1. ls[i] \in [product : Product, requested : Nat, reserved : Nat, picked : Nat]
    BY <1>1 DEF Line
  <2>2. StillNeeded(ls[i]) \in Int
    BY <2>1 DEF StillNeeded
  <2>3. Positive(StillNeeded(ls[i])) \in Nat
    BY <2>2 DEF Positive
  <2>4. ls[i].reserved + Positive(StillNeeded(ls[i])) \in Nat
    BY <2>1, <2>3
  <2> QED BY <2>1, <2>4 DEF Line
<1>3. [i \in DOMAIN ls |-> [ls[i] EXCEPT !.reserved = @ + Positive(StillNeeded(ls[i]))]]
        \in [1 .. Len(ls) -> Line]
  BY <1>1, <1>2
<1> QED BY <1>1, <1>3, LinesAreSequences

LEMMA CountedLines ==
  ASSUME NEW ls \in Seq(Line), NEW i \in DOMAIN ls, NEW q \in Nat
  PROVE  [ls EXCEPT ![i].picked = @ + q] \in Seq(Line)
<1>1. /\ DOMAIN ls = 1 .. Len(ls)
      /\ Len(ls) \in Nat
      /\ \A j \in 1 .. Len(ls) : ls[j] \in Line
  OBVIOUS
<1>2. [ls[i] EXCEPT !.picked = @ + q] \in Line
  <2>1. ls[i] \in Line
    BY <1>1
  <2>2. ls[i].picked + q \in Nat
    BY <2>1 DEF Line
  <2> QED BY <2>1, <2>2 DEF Line
<1>3. [ls EXCEPT ![i].picked = @ + q] \in [1 .. Len(ls) -> Line]
  BY <1>1, <1>2
<1> QED BY <1>1, <1>3, LinesAreSequences

LEMMA OutboundTablesInit == OutboundInit => OutboundTables
<1> SUFFICES ASSUME OutboundInit PROVE OutboundTables
  OBVIOUS
<1>1. Nothing \in Plan
  BY DEF Nothing, Plan
<1>2. NoTask \in TaskRow
  BY <1>1 DEF NoTask, TaskRow
<1>3. NoOrder \in OrderRow
  BY DEF NoOrder, OrderRow, OrderStatus, NoDay
<1>4. 0 \in Day
  BY ChargesAssumption DEF Day
<1>5. <<>> \in Seq(Line)
  OBVIOUS
<1> QED BY <1>1, <1>2, <1>3, <1>4, <1>5 DEF OutboundInit, OutboundTables

LEMMA OutboundTablesStep ==
  Books /\ OutboundTables /\ [OutboundNext]_outboundVars => OutboundTables'
<1> SUFFICES ASSUME Books, OutboundTables, [OutboundNext]_outboundVars
             PROVE  OutboundTables'
  OBVIOUS
<1> USE DEF OutboundTables
<1>1. ASSUME NEW o \in Order, NEW form \in OrderForm, NEW status \in {"DRAFT", "SUBMITTED"},
             CreateOutbound(o, form, status)
      PROVE  OutboundTables'
  <2>1. order' \in [Order -> OrderRow]
    BY <1>1 DEF CreateOutbound, OrderRow, OrderStatus
  <2>2. line' \in [Order -> Seq(Line)]
    BY <1>1, FormsToLines DEF CreateOutbound
  <2> QED BY <1>1, <2>1, <2>2 DEF CreateOutbound
<1>2. ASSUME NEW o \in Order, ApproveOutbound(o) PROVE OutboundTables'
  <2>1. order' \in [Order -> OrderRow]
    <3>1. order' = [order EXCEPT ![o].status = "APPROVED"]
      BY <1>2 DEF ApproveOutbound
    <3> QED BY <3>1 DEF OrderRow, OrderStatus
  <2>2. line' \in [Order -> Seq(Line)]
    BY <1>2, ReservedLines DEF ApproveOutbound
  <2>3. reservation' \in [Order -> Plan]
    <3>1. PICK taken \in Plan : reservation' = [reservation EXCEPT ![o] = Plus(@, taken)]
      BY <1>2 DEF ApproveOutbound, Plan
    <3>2. Plus(reservation[o], taken) \in Plan
      BY PlusType
    <3> QED BY <3>1, <3>2
  <2> QED BY <1>2, <2>1, <2>2, <2>3 DEF ApproveOutbound
<1>3. ASSUME NEW o \in Order, GeneratePicks(o) PROVE OutboundTables'
  <2>1. order' \in [Order -> OrderRow]
    BY <1>3 DEF GeneratePicks, OrderRow, OrderStatus
  <2>2. Nothing \in Plan
    BY DEF Nothing, Plan
  <2>3. task' \in [Order -> TaskRow]
    BY <1>3, <2>2 DEF GeneratePicks, TaskRow
  <2> QED BY <1>3, <2>1, <2>3 DEF GeneratePicks
<1>4. ASSUME NEW o \in Order, StartTask(o) PROVE OutboundTables'
  BY <1>4 DEF StartTask, TaskRow
<1>5. ASSUME NEW o \in Order, NEW k \in Key, NEW to \in Location, NEW q \in Nat,
             ScanPick(o, k, to, q)
      PROVE  OutboundTables'
  <2>1. line' \in [Order -> Seq(Line)]
    <3>1. PICK i \in DOMAIN line[o] : line' = [line EXCEPT ![o][i].picked = @ + q]
      BY <1>5 DEF ScanPick, CountPick
    <3> QED BY <3>1, CountedLines
  <2>2. reservation' \in [Order -> Plan]
    BY <1>5 DEF ScanPick, CanPick, Plan
  <2>3. task' \in [Order -> TaskRow]
    <3>1. task' = [task EXCEPT ![o].picked[k] = @ + q]
      BY <1>5 DEF ScanPick
    <3>2. [task[o].picked EXCEPT ![k] = @ + q] \in Plan
      BY DEF TaskRow, Plan
    <3> QED BY <3>1, <3>2 DEF TaskRow
  <2> QED BY <1>5, <2>1, <2>2, <2>3 DEF ScanPick
<1>6. ASSUME NEW o \in Order, CompleteTask(o) PROVE OutboundTables'
  BY <1>6 DEF CompleteTask, TaskRow, OrderRow, OrderStatus
<1>7. ASSUME NEW o \in Order, PackingConfirm(o) PROVE OutboundTables'
  <2>1. order' \in [Order -> OrderRow]
    <3>1. \/ order' = [order EXCEPT ![o].status = "PACKED"]
          \/ order' = [order EXCEPT ![o].status = "PACKED", ![o].slip = TRUE]
      BY <1>7 DEF PackingConfirm
    <3>2. order[o] \in OrderRow
      OBVIOUS
    <3>3. [order[o] EXCEPT !.status = "PACKED"] \in OrderRow
      BY <3>2 DEF OrderRow, OrderStatus
    <3>4. [order[o] EXCEPT !.status = "PACKED", !.slip = TRUE] \in OrderRow
      BY <3>2 DEF OrderRow, OrderStatus
    <3> QED BY <3>1, <3>3, <3>4
  <2>2. charge' \subseteq Charge
    BY <1>7, EventType DEF PackingConfirm, AddCharge
  <2> QED BY <1>7, <2>1, <2>2 DEF PackingConfirm
<1>8. ASSUME NEW o \in Order, NEW loc \in Location, DispatchConfirm(o, loc)
      PROVE  OutboundTables'
  <2>1. order' \in [Order -> OrderRow]
    <3>1. PICK stored \in BOOLEAN :
            \/ order' = [order EXCEPT ![o].status = "DISPATCHED",
                                      ![o].dispatched_at = today,
                                      ![o].pdf = @ \/ stored]
            \/ order' = [order EXCEPT ![o].pdf = @ \/ stored]
      BY <1>8 DEF DispatchConfirm
    <3>2. order[o] \in OrderRow /\ today \in Day
      OBVIOUS
    <3>3. (order[o].pdf \/ stored) \in BOOLEAN
      BY Zenon
    <3>4. [order[o] EXCEPT !.pdf = @ \/ stored] \in OrderRow
      BY <3>2, <3>3 DEF OrderRow
    <3>5. [order[o] EXCEPT !.status = "DISPATCHED", !.dispatched_at = today,
                           !.pdf = @ \/ stored] \in OrderRow
      BY <3>2, <3>3 DEF OrderRow, OrderStatus
    <3> QED BY <3>1, <3>4, <3>5
  <2>2. charge' \subseteq Charge
    BY <1>8, EventType DEF DispatchConfirm, ShipAndCharge, ShipAndRollBack, AddCharge
  <2> QED BY <1>8, <2>1, <2>2 DEF DispatchConfirm
<1>9. CASE NextDay /\ UNCHANGED orderVars
  <2>1. today' \in Day
    BY <1>9, ChargesAssumption DEF NextDay, Day
  <2> QED BY <1>9, <2>1 DEF NextDay, orderVars
<1>10. CASE UNCHANGED outboundVars
  BY <1>10 DEF outboundVars, stockVars
<1>11. 1 .. MaxQty \subseteq Nat
  BY SchemaAssumption
<1> QED
  BY <1>1, <1>2, <1>3, <1>4, <1>5, <1>6, <1>7, <1>8, <1>9, <1>10, <1>11
  DEF OutboundNext, OutboundRequest

LEMMA OutboundInvariant == OutboundSpec => [](Books /\ OutboundTables)
BY OutboundBooksInit, OutboundBooksStep, OutboundTablesInit, OutboundTablesStep, PTL
DEF OutboundSpec

\* All tables of the outbound flow keep their types.
THEOREM OutboundTypeCorrect == OutboundSpec => []OutboundTypeOK
<1>1. Books /\ OutboundTables => OutboundTypeOK
  BY BooksIsBoth DEF OutboundTables, OutboundTypeOK, OrderRow, TaskRow, Plan
<1> QED BY <1>1, OutboundInvariant, PTL

\* Whatever orders are created, approved, picked, packed and dispatched, in
\* whatever order, every balance row stays consistent.
THEOREM OutboundRowsStayConsistent == OutboundSpec => []BalanceConsistent
<1>1. Books => BalanceConsistent
  BY BooksIsBoth
<1> QED BY <1>1, OutboundInvariant, PTL

-----------------------------------------------------------------------------
(* The reserved column and the reservations of the orders *)

\* t counts up the quantities r of the orders, and they come to n.  This is
\* RunningTotal for any r: a total can be followed through a step without
\* induction over the orders, because the step shifts its tail by a constant.
CountsUp(t, r, n) ==
  /\ t[0] = 0
  /\ \A o \in Order : t[o] = t[o - 1] + r[o]
  /\ \A i, j \in 0 .. NumOrders : i <= j => t[i] <= t[j]
  /\ t[NumOrders] = n

AddsUp(r, n) == \E t \in [0 .. NumOrders -> 0 .. MaxQty] : CountsUp(t, r, n)

ReservedAt(k) == [o \in Order |-> reservation[o][k]]

LEMMA AddsUpZero == AddsUp([o \in Order |-> 0], 0)
<1> DEFINE t == [i \in 0 .. NumOrders |-> 0]
<1>1. NumOrders \in Nat /\ MaxQty \in Nat
  BY OutboundAssumption, SchemaAssumption
<1>2. t \in [0 .. NumOrders -> 0 .. MaxQty]
  BY <1>1
<1>3. CountsUp(t, [o \in Order |-> 0], 0)
  BY <1>1 DEF CountsUp, Order
<1> QED BY <1>2, <1>3 DEF AddsUp

\* What one order changes at k, the sum changes too.
LEMMA AddsUpChange ==
  ASSUME NEW r \in [Order -> Nat], NEW n, AddsUp(r, n),
         NEW o \in Order, NEW d \in Int, r[o] + d \in Nat, n + d <= MaxQty
  PROVE  AddsUp([r EXCEPT ![o] = @ + d], n + d)
<1> DEFINE s == [r EXCEPT ![o] = @ + d]
<1>1. NumOrders \in Nat /\ MaxQty \in Nat
  BY OutboundAssumption, SchemaAssumption
<1>2. PICK t \in [0 .. NumOrders -> 0 .. MaxQty] : CountsUp(t, r, n)
  BY DEF AddsUp
<1> DEFINE u == [i \in 0 .. NumOrders |-> IF i < o THEN t[i] ELSE t[i] + d]
<1>3. o \in 1 .. NumOrders /\ o - 1 \in 0 .. NumOrders /\ NumOrders \in 0 .. NumOrders
  BY <1>1 DEF Order
<1>4. \A i \in 0 .. NumOrders : t[i] \in 0 .. MaxQty
  BY <1>2
<1>5. t[o] = t[o - 1] + r[o]
  BY <1>2 DEF CountsUp
<1>6. \A i, j \in 0 .. NumOrders : i <= j => t[i] <= t[j]
  BY <1>2 DEF CountsUp
<1>7. n = t[NumOrders]
  BY <1>2 DEF CountsUp
<1>8. \A i \in o .. NumOrders : t[o - 1] <= t[i] + d /\ t[i] <= n
  <2> SUFFICES ASSUME NEW i \in o .. NumOrders
               PROVE  t[o - 1] <= t[i] + d /\ t[i] <= n
    OBVIOUS
  <2>1. i \in 0 .. NumOrders /\ i \in Int /\ o \in 0 .. NumOrders /\ o <= i /\ i <= NumOrders
    BY <1>3
  <2>2. t[o] <= t[i] /\ t[i] <= t[NumOrders]
    BY <1>3, <1>6, <2>1
  <2>3. t[i] \in Nat /\ t[o] \in Nat /\ t[o - 1] \in Nat /\ r[o] \in Nat
    BY <1>1, <1>3, <1>4, <2>1
  <2> QED BY <1>5, <1>7, <2>2, <2>3
<1>9. u \in [0 .. NumOrders -> 0 .. MaxQty]
  <2> SUFFICES ASSUME NEW i \in 0 .. NumOrders PROVE u[i] \in 0 .. MaxQty
    OBVIOUS
  <2>1. t[i] \in 0 .. MaxQty /\ t[o - 1] \in 0 .. MaxQty /\ n \in Int
    BY <1>1, <1>3, <1>4, <1>7
  <2>2. CASE i < o
    BY <2>1, <2>2
  <2>3. CASE ~(i < o)
    <3>1. i \in o .. NumOrders
      BY <1>3, <2>3
    <3>2. t[o - 1] <= t[i] + d /\ t[i] <= n
      BY <1>8, <3>1
    <3>3. u[i] = t[i] + d
      BY <2>3
    <3>4. t[i] + d \in 0 .. MaxQty
      <4> HIDE DEF s, u
      <4> QED BY <1>1, <2>1, <3>2
    <3> QED BY <3>3, <3>4
  <2> QED BY <2>2, <2>3
<1>10. CountsUp(u, s, n + d)
  <2>1. u[0] = 0
    BY <1>1, <1>2, <1>3 DEF CountsUp
  <2>2. ASSUME NEW x \in Order PROVE u[x] = u[x - 1] + s[x]
    <3>1. t[x] = t[x - 1] + r[x] /\ x \in 1 .. NumOrders /\ x - 1 \in 0 .. NumOrders
      BY <1>1, <1>2 DEF CountsUp, Order
    <3>2. t[x] \in Int /\ t[x - 1] \in Int /\ r[x] \in Int /\ r[o] \in Int
      BY <1>1, <1>4, <3>1
    <3>3. CASE x < o
      BY <1>3, <3>1, <3>2, <3>3
    <3>4. CASE x = o
      BY <1>3, <3>1, <3>2, <3>4
    <3>5. CASE x > o
      BY <1>3, <3>1, <3>2, <3>5
    <3> QED BY <1>3, <3>1, <3>3, <3>4, <3>5
  <2>3. ASSUME NEW i \in 0 .. NumOrders, NEW j \in 0 .. NumOrders, i <= j
        PROVE  u[i] <= u[j]
    <3>1. t[i] \in Int /\ t[j] \in Int /\ t[o - 1] \in Int /\ t[i] <= t[j]
      BY <1>1, <1>3, <1>4, <1>6, <2>3
    <3>2. CASE j < o
      BY <1>3, <2>3, <3>1, <3>2
    <3>3. CASE i >= o
      BY <1>3, <2>3, <3>1, <3>3
    <3>4. CASE i < o /\ j >= o
      <4>1. j \in o .. NumOrders /\ i <= o - 1
        BY <1>3, <3>4
      <4>2. t[o - 1] <= t[j] + d
        BY <1>8, <4>1
      <4>3. t[i] <= t[o - 1]
        BY <1>3, <1>6, <4>1
      <4> QED BY <3>1, <3>4, <4>2, <4>3, <1>3
    <3> QED BY <1>3, <3>2, <3>3, <3>4
  <2>4. u[NumOrders] = n + d
    BY <1>3, <1>7
  <2> QED BY <2>1, <2>2, <2>3, <2>4 DEF CountsUp
<1> QED BY <1>9, <1>10 DEF AddsUp

\* No order has more reserved at k than the balance row says.
LEMMA AddsUpBounds ==
  ASSUME NEW r \in [Order -> Nat], NEW n, AddsUp(r, n), NEW o \in Order
  PROVE  r[o] <= n /\ n \in Nat
<1>1. NumOrders \in Nat /\ MaxQty \in Nat
  BY OutboundAssumption, SchemaAssumption
<1>2. PICK t \in [0 .. NumOrders -> 0 .. MaxQty] : CountsUp(t, r, n)
  BY DEF AddsUp
<1>3. o \in 0 .. NumOrders /\ o - 1 \in 0 .. NumOrders /\ NumOrders \in 0 .. NumOrders
      /\ o <= NumOrders
  BY <1>1 DEF Order
<1>4. t[o - 1] \in Nat /\ t[o] \in Nat /\ t[NumOrders] \in Nat /\ r[o] \in Nat
  BY <1>1, <1>2, <1>3
<1>5. t[o] = t[o - 1] + r[o] /\ t[o] <= t[NumOrders] /\ n = t[NumOrders]
  BY <1>2, <1>3 DEF CountsUp
<1> QED BY <1>4, <1>5

SumHolds == \A k \in Key : AddsUp(ReservedAt(k), balance[k].reserved)

LEMMA SumIsProperty == SumHolds => ReservedIsSumOfOrders
<1> SUFFICES ASSUME SumHolds, NEW k \in Key
             PROVE  \E t \in [0 .. NumOrders -> 0 .. MaxQty] :
                      RunningTotal(t, k) /\ t[NumOrders] = balance[k].reserved
  BY DEF ReservedIsSumOfOrders
<1>1. PICK t \in [0 .. NumOrders -> 0 .. MaxQty] :
        CountsUp(t, ReservedAt(k), balance[k].reserved)
  BY DEF SumHolds, AddsUp
<1>2. RunningTotal(t, k) /\ t[NumOrders] = balance[k].reserved
  BY <1>1 DEF CountsUp, RunningTotal, ReservedAt
<1> QED BY <1>2

\* A pick of q at k releases q there; what is free rises where it is put.
LEMMA PickedRow ==
  ASSUME Consistent(balance), NEW k \in Key, NEW to \in Location, NEW q \in Int,
         CanAdjustReserved(balance, At(k, -q)), CanMove(Released(k, q), k, to, q),
         NEW x \in Key
  PROVE  LET c == MovedBalance(Released(k, q), k, to, q)
         IN  /\ c[x].reserved = balance[x].reserved - (IF x = k THEN q ELSE 0)
             /\ c[x].available = balance[x].available + (IF x = Moved(k, to) THEN q ELSE 0)
             /\ c[x].on_hand = balance[x].on_hand + At(k, -q)[x] + At(Moved(k, to), q)[x]
<1>1. At(k, -q) \in Delta /\ At(Moved(k, to), q) \in Delta
  BY DeltaType, MovedType
<1> DEFINE b == Released(k, q)
           c1 == Posted(b, At(k, -q))
<1>2. Consistent(b)
  BY ReleasedConsistent
<1>3. Consistent(c1)
  BY <1>1, <1>2, PostedConsistent DEF CanMove
<1>4. balance[x] \in Row
  BY DEF Consistent
<1>5. /\ b[x].on_hand = balance[x].on_hand
      /\ b[x].reserved = balance[x].reserved + At(k, -q)[x]
      /\ b[x].available = balance[x].available - At(k, -q)[x]
  BY <1>1, AdjustReservedRow DEF Released
<1>6. /\ c1[x].on_hand = b[x].on_hand + At(k, -q)[x]
      /\ c1[x].reserved = b[x].reserved
      /\ c1[x].available = b[x].available + At(k, -q)[x]
  BY <1>1, <1>2, PostedRow
<1>7. /\ MovedBalance(b, k, to, q)[x].on_hand = c1[x].on_hand + At(Moved(k, to), q)[x]
      /\ MovedBalance(b, k, to, q)[x].reserved = c1[x].reserved
      /\ MovedBalance(b, k, to, q)[x].available = c1[x].available + At(Moved(k, to), q)[x]
  BY <1>1, <1>3, PostedRow DEF MovedBalance
<1>8. /\ At(k, -q)[x] = IF x = k THEN -q ELSE 0
      /\ At(Moved(k, to), q)[x] = IF x = Moved(k, to) THEN q ELSE 0
  BY DEF At
<1>9. balance[x].reserved \in Int /\ balance[x].available \in Int
  BY <1>4 DEF Row
<1> QED BY <1>5, <1>6, <1>7, <1>8, <1>9

LEMMA SumInit == OutboundInit => SumHolds
<1> SUFFICES ASSUME OutboundInit, NEW k \in Key
             PROVE  AddsUp(ReservedAt(k), balance[k].reserved)
  BY DEF SumHolds
<1>1. ReservedAt(k) = [o \in Order |-> 0] /\ balance[k].reserved = 0
  BY DEF OutboundInit, ReservedAt, Nothing, Recalculated
<1> QED BY <1>1, AddsUpZero

LEMMA SumStep ==
  /\ Books /\ OutboundTables /\ SumHolds
  /\ Books' /\ OutboundTables'
  /\ [OutboundNext]_outboundVars
  => SumHolds'
<1> SUFFICES ASSUME Books, OutboundTables, SumHolds, Books', OutboundTables',
                    [OutboundNext]_outboundVars
             PROVE  SumHolds'
  OBVIOUS
<1>a. \A k \in Key : ReservedAt(k) \in [Order -> Nat] /\ ReservedAt(k)' \in [Order -> Nat]
  BY DEF OutboundTables, ReservedAt, Plan
<1>b. \A k \in Key : balance'[k].reserved \in Int /\ balance'[k].reserved <= MaxQty
                    /\ balance[k].reserved \in Int
  BY SchemaAssumption DEF Books, Consistent, Row
<1>0. ASSUME UNCHANGED reservation,
             \A k \in Key : balance'[k].reserved = balance[k].reserved
      PROVE  SumHolds'
  BY <1>0 DEF SumHolds, ReservedAt
<1>c. ASSUME UNCHANGED <<stockVars, reservation>> PROVE SumHolds'
  BY <1>0, <1>c DEF stockVars
<1>1. ASSUME NEW o \in Order, NEW d \in Delta, NEW k \in Key,
             reservation' = [reservation EXCEPT ![o] = [x \in Key |-> @[x] + d[x]]],
             balance'[k].reserved = balance[k].reserved + d[k]
      PROVE  AddsUp(ReservedAt(k), balance[k].reserved)'
  <2>1. d[k] \in Int
    BY DEF Delta
  <2>2. ReservedAt(k)' = [ReservedAt(k) EXCEPT ![o] = @ + d[k]]
    BY <1>1 DEF ReservedAt, OutboundTables, Plan
  <2>3. ReservedAt(k)[o] + d[k] \in Nat
    BY <1>a, <2>2
  <2>4. AddsUp(ReservedAt(k), balance[k].reserved)
    BY DEF SumHolds
  <2>5. ReservedAt(k) \in [Order -> Nat] /\ balance[k].reserved + d[k] <= MaxQty
    BY <1>1, <1>a, <1>b
  <2>6. AddsUp([ReservedAt(k) EXCEPT ![o] = @ + d[k]], balance[k].reserved + d[k])
    BY <2>1, <2>3, <2>4, <2>5, AddsUpChange
  <2>7. AddsUp(ReservedAt(k)', balance'[k].reserved)
    BY <1>1, <2>2, <2>6
  <2> QED BY <2>7 DEF AddsUp, CountsUp
<1>2. ASSUME NEW o \in Order, ApproveOutbound(o) PROVE SumHolds'
  <2>1. PICK taken \in Plan : /\ balance' = AdjustReserved(balance, taken)
                              /\ reservation' = [reservation EXCEPT ![o] = Plus(@, taken)]
    BY <1>2 DEF ApproveOutbound, Plan
  <2>2. taken \in Delta
    BY PlanIsDelta
  <2>3. \A k \in Key : balance'[k].reserved = balance[k].reserved + taken[k]
    BY <2>1, <2>2, AdjustReservedRow DEF Books
  <2>4. reservation' = [reservation EXCEPT ![o] = [x \in Key |-> @[x] + taken[x]]]
    BY <2>1 DEF Plus
  <2> QED BY <1>1, <2>2, <2>3, <2>4 DEF SumHolds
<1>3. ASSUME NEW o \in Order, NEW k \in Key, NEW to \in Location, NEW q \in Int,
             ScanPick(o, k, to, q)
      PROVE  SumHolds'
  <2> DEFINE d == At(k, -q)
  <2>1. d \in Delta
    BY DeltaType
  <2>2. \A x \in Key : balance'[x].reserved = balance[x].reserved + d[x]
    BY <1>3, <1>b, PickedRow DEF ScanPick, CanPick, Books, At
  <2>3. reservation' = [reservation EXCEPT ![o] = [x \in Key |-> @[x] + d[x]]]
    <3>1. reservation' = [reservation EXCEPT ![o][k] = @ - q]
      BY <1>3 DEF ScanPick
    <3>2. reservation[o] \in [Key -> Nat]
      BY DEF OutboundTables, Plan
    <3>3. [reservation[o] EXCEPT ![k] = @ - q] = [x \in Key |-> reservation[o][x] + d[x]]
      BY <3>2 DEF At
    <3> QED BY <3>1, <3>3
  <2> QED BY <1>1, <2>1, <2>2, <2>3 DEF SumHolds
<1>4. ASSUME NEW o \in Order, NEW loc \in Location, DispatchConfirm(o, loc)
      PROVE  SumHolds'
  <2>1. CASE ShipAndCharge(o, loc)
    <3>1. Minus(PickedInto(o, loc)) \in Delta
      BY PickedIntoType DEF Books
    <3>2. \A k \in Key : balance'[k].reserved = balance[k].reserved
      BY <2>1, <3>1, PostedRow DEF ShipAndCharge, Books
    <3> QED BY <1>0, <1>4, <3>2 DEF DispatchConfirm
  <2>2. CASE ShipAndRollBack(o)
    BY <1>c, <1>4, <2>2 DEF DispatchConfirm, ShipAndRollBack
  <2> QED BY <1>4, <2>1, <2>2 DEF DispatchConfirm
<1>5. ASSUME NEW o \in Order, OutboundRequest(o) PROVE SumHolds'
  <2>1. ASSUME NEW form \in OrderForm, NEW status \in {"DRAFT", "SUBMITTED"},
               CreateOutbound(o, form, status)
        PROVE  SumHolds'
    BY <1>c, <2>1 DEF CreateOutbound
  <2>2. CASE GeneratePicks(o) \/ StartTask(o) \/ CompleteTask(o) \/ PackingConfirm(o)
    BY <1>c, <2>2 DEF GeneratePicks, StartTask, CompleteTask, PackingConfirm
  <2>3. 1 .. MaxQty \subseteq Int
    BY SchemaAssumption
  <2> QED BY <1>2, <1>3, <1>4, <1>5, <2>1, <2>2, <2>3 DEF OutboundRequest
<1>6. CASE NextDay /\ UNCHANGED orderVars
  BY <1>c, <1>6 DEF NextDay, orderVars
<1>7. CASE UNCHANGED outboundVars
  BY <1>c, <1>7 DEF outboundVars, stockVars
<1> QED BY <1>5, <1>6, <1>7 DEF OutboundNext

LEMMA SumInvariant == OutboundSpec => []SumHolds
BY OutboundInvariant, SumInit, SumStep, PTL DEF OutboundSpec

\* For any number of orders competing for any stock: the reserved_qty of a
\* balance row is the sum of the reservation rows the orders hold there.
THEOREM ReservedIsSum == OutboundSpec => []ReservedIsSumOfOrders
BY SumInvariant, SumIsProperty, PTL

-----------------------------------------------------------------------------
(* Task lines and reservations *)

\* PickLinesMatchReservations is inductive once we know that an order that
\* was not approved has no task, so that approval never reserves behind one.
TasksFollow ==
  /\ \A o \in Order : task[o].status = "NONE" => task[o] = NoTask
  /\ \A o \in Order :
       order[o].status \in {"NONE", "DRAFT", "SUBMITTED"} => task[o].status = "NONE"
  /\ PickLinesMatchReservations

LEMMA TasksInit == OutboundInit => TasksFollow
BY DEF OutboundInit, TasksFollow, NoTask, NoOrder, PickLinesMatchReservations

LEMMA TasksStep ==
  OutboundTables /\ TasksFollow /\ [OutboundNext]_outboundVars => TasksFollow'
<1> SUFFICES ASSUME OutboundTables, TasksFollow, [OutboundNext]_outboundVars
             PROVE  TasksFollow'
  OBVIOUS
<1> USE DEF TasksFollow, PickLinesMatchReservations
<1>a. \A o \in Order, k \in Key :
        /\ reservation[o][k] \in Nat
        /\ task[o].to_pick[k] \in Nat
        /\ task[o].picked[k] \in Nat
  BY DEF OutboundTables, TaskRow, Plan
<1>b. /\ order \in [Order -> OrderRow]
      /\ task \in [Order -> TaskRow]
      /\ reservation \in [Order -> Plan]
  BY DEF OutboundTables
<1>1. ASSUME NEW o \in Order, NEW form \in OrderForm, NEW status \in {"DRAFT", "SUBMITTED"},
             CreateOutbound(o, form, status)
      PROVE  TasksFollow'
  BY <1>1, <1>b DEF CreateOutbound, OrderRow
<1>2. ASSUME NEW o \in Order, ApproveOutbound(o) PROVE TasksFollow'
  <2>1. /\ task[o].status = "NONE"
        /\ order' = [order EXCEPT ![o].status = "APPROVED"]
        /\ UNCHANGED task
    BY <1>2 DEF ApproveOutbound
  <2>2. \A x \in Order : x # o => reservation'[x] = reservation[x]
    BY <1>2, <1>b DEF ApproveOutbound
  <2> QED BY <1>b, <2>1, <2>2 DEF OrderRow
<1>3. ASSUME NEW o \in Order, GeneratePicks(o) PROVE TasksFollow'
  <2>1. /\ task' = [task EXCEPT ![o] = [status |-> "OPEN", to_pick |-> reservation[o],
                                        picked |-> Nothing]]
        /\ order' = [order EXCEPT ![o].status = "PICKING"]
        /\ UNCHANGED reservation
    BY <1>3 DEF GeneratePicks
  <2>2. \A k \in Key : task'[o].to_pick[k] - task'[o].picked[k] = reservation'[o][k]
    BY <1>a, <1>b, <2>1 DEF Nothing
  <2>3. \A x \in Order : x # o => task'[x] = task[x]
    BY <1>b, <2>1
  <2>4. \A x \in Order : x # o => order'[x].status = order[x].status
    BY <1>b, <2>1
  <2>5. order'[o].status = "PICKING" /\ task'[o].status = "OPEN"
    BY <1>b, <2>1 DEF OrderRow
  <2> QED BY <2>1, <2>2, <2>3, <2>4, <2>5
<1>4. ASSUME NEW o \in Order, StartTask(o) PROVE TasksFollow'
  <2>1. /\ task[o].status # "NONE"
        /\ task' = [task EXCEPT ![o].status = "IN_PROGRESS"]
        /\ UNCHANGED <<order, reservation>>
    BY <1>4 DEF StartTask
  <2>2. /\ task'[o].status = "IN_PROGRESS"
        /\ task'[o].to_pick = task[o].to_pick
        /\ task'[o].picked = task[o].picked
        /\ \A x \in Order : x # o => task'[x] = task[x]
    BY <1>b, <2>1 DEF TaskRow
  <2> QED BY <2>1, <2>2
<1>5. ASSUME NEW o \in Order, NEW k \in Key, NEW to \in Location, NEW q \in Nat,
             ScanPick(o, k, to, q)
      PROVE  TasksFollow'
  <2>1. /\ task' = [task EXCEPT ![o].picked[k] = @ + q]
        /\ reservation' = [reservation EXCEPT ![o][k] = @ - q]
        /\ task[o].to_pick[k] > 0
        /\ UNCHANGED order
    BY <1>5 DEF ScanPick, CanPick
  <2>2. task[o].status # "NONE"
    BY <2>1 DEF NoTask, Nothing
  <2>3. /\ \A x \in Order : x # o => task'[x] = task[x] /\ reservation'[x] = reservation[x]
        /\ task'[o].status = task[o].status
        /\ task'[o].to_pick = task[o].to_pick
    BY <1>b, <2>1 DEF TaskRow
  <2>4. \A x \in Key :
          /\ task'[o].picked[x] = task[o].picked[x] + (IF x = k THEN q ELSE 0)
          /\ reservation'[o][x] = reservation[o][x] - (IF x = k THEN q ELSE 0)
    BY <1>a, <1>b, <2>1 DEF TaskRow, Plan
  <2>5. \A x \in Key : task'[o].to_pick[x] - task'[o].picked[x] = reservation'[o][x]
    BY <1>a, <2>2, <2>3, <2>4
  <2> QED BY <2>1, <2>2, <2>3, <2>5
<1>6. ASSUME NEW o \in Order, CompleteTask(o) PROVE TasksFollow'
  <2>1. /\ task[o].status # "NONE"
        /\ task' = [task EXCEPT ![o].status = "DONE"]
        /\ order' = [order EXCEPT ![o].status = "PACKING"]
        /\ UNCHANGED reservation
    BY <1>6 DEF CompleteTask
  <2>2. /\ task'[o].status = "DONE"
        /\ task'[o].to_pick = task[o].to_pick
        /\ task'[o].picked = task[o].picked
        /\ \A x \in Order : x # o => task'[x] = task[x]
    BY <1>b, <2>1 DEF TaskRow
  <2>3. /\ order'[o].status = "PACKING"
        /\ \A x \in Order : x # o => order'[x].status = order[x].status
    BY <1>b, <2>1 DEF OrderRow
  <2> QED BY <2>1, <2>2, <2>3
<1>7. ASSUME NEW o \in Order, PackingConfirm(o) PROVE TasksFollow'
  BY <1>7, <1>b DEF PackingConfirm, OrderRow
<1>8. ASSUME NEW o \in Order, NEW loc \in Location, DispatchConfirm(o, loc)
      PROVE  TasksFollow'
  <2>1. UNCHANGED <<task, reservation>>
    BY <1>8 DEF DispatchConfirm
  <2>2. \A x \in Order : order'[x].status \in {"DISPATCHED", order[x].status}
    BY <1>8, <1>b DEF DispatchConfirm, OrderRow
  <2> QED BY <2>1, <2>2
<1>9. CASE NextDay /\ UNCHANGED orderVars
  BY <1>9 DEF NextDay, orderVars
<1>10. CASE UNCHANGED outboundVars
  BY <1>10 DEF outboundVars
<1>11. 1 .. MaxQty \subseteq Nat
  BY SchemaAssumption
<1> QED
  BY <1>1, <1>2, <1>3, <1>4, <1>5, <1>6, <1>7, <1>8, <1>9, <1>10, <1>11
  DEF OutboundNext, OutboundRequest

LEMMA TasksInvariant == OutboundSpec => []TasksFollow
BY OutboundInvariant, TasksInit, TasksStep, PTL DEF OutboundSpec

\* What is left on a task line is what the order still has reserved there.
THEOREM PickLinesMatch == OutboundSpec => []PickLinesMatchReservations
<1>1. TasksFollow => PickLinesMatchReservations
  BY DEF TasksFollow
<1> QED BY <1>1, TasksInvariant, PTL

-----------------------------------------------------------------------------
(* What a reservation promises *)

LEMMA PickableFromInvariant ==
  Books /\ OutboundTables /\ SumHolds /\ TasksFollow => PromisedStockIsPickable
<1> SUFFICES ASSUME Books, OutboundTables, SumHolds, TasksFollow,
                    NEW o \in Order, NEW k \in Key,
                    task[o].to_pick[k] - task[o].picked[k] > 0
             PROVE  LET q == task[o].to_pick[k] - task[o].picked[k]
                    IN  CanPick(o, k, q) /\ CanMove(Released(k, q), k, k.location, q)
  BY DEF PromisedStockIsPickable
<1> DEFINE q == task[o].to_pick[k] - task[o].picked[k]
           b == Released(k, q)
           d == At(k, -q)
<1>1. task[o].to_pick[k] \in Nat /\ task[o].picked[k] \in Nat /\ reservation[o][k] \in Nat
  BY DEF OutboundTables, TaskRow, Plan
<1>2. task[o].status # "NONE"
  BY DEF TasksFollow, NoTask, Nothing
<1>3. q = reservation[o][k] /\ q \in Nat /\ q > 0
  BY <1>1, <1>2 DEF TasksFollow, PickLinesMatchReservations
<1>4. q <= balance[k].reserved
  <2>1. ReservedAt(k) \in [Order -> Nat] /\ AddsUp(ReservedAt(k), balance[k].reserved)
    BY DEF OutboundTables, Plan, ReservedAt, SumHolds
  <2>2. ReservedAt(k)[o] <= balance[k].reserved
    BY <2>1, AddsUpBounds
  <2> QED BY <1>3, <2>2 DEF ReservedAt
<1>5. /\ balance[k].on_hand \in Int /\ balance[k].reserved \in Int
      /\ balance[k].reserved <= balance[k].on_hand
      /\ balance[k].on_hand <= MaxQty
  BY DEF Books, Consistent, Row
<1>6. d \in Delta /\ d[k] = -q /\ (\A x \in Key : x # k => d[x] = 0)
  BY <1>3, DeltaType DEF At
<1>7. CanAdjustReserved(balance, d)
  BY <1>3, <1>4, <1>5, <1>6 DEF CanAdjustReserved
<1>8. CanPick(o, k, q)
  BY <1>1, <1>3, <1>7 DEF CanPick
<1>9. b[k].on_hand = balance[k].on_hand /\ b[k].reserved = balance[k].reserved - q
  BY <1>3, <1>5, <1>6, AdjustReservedRow DEF Released, Books
<1>10. Consistent(b)
  BY <1>3, <1>7, ReleasedConsistent DEF Books
<1>11. CanPost(b, d)
  BY <1>3, <1>4, <1>5, <1>6, <1>9 DEF CanPost
<1>12. Posted(b, d)[k].on_hand = balance[k].on_hand - q
  BY <1>3, <1>5, <1>6, <1>9, <1>10, PostedRow
<1>13. Moved(k, k.location) = k
  BY DEF Moved, Key
<1>14. At(k, q)[k] = q /\ (\A x \in Key : x # k => At(k, q)[x] = 0)
  BY DEF At
<1>15. MaxQty \in Nat
  BY SchemaAssumption
<1>16. CanPost(Posted(b, d), At(k, q))
  <2> SUFFICES ASSUME NEW x \in Key
               PROVE  /\ At(k, q)[x] > 0 => Posted(b, d)[x].on_hand + At(k, q)[x] <= MaxQty
                      /\ ~(At(k, q)[x] < 0)
    BY DEF CanPost
  <2>1. CASE x = k
    BY <1>3, <1>5, <1>12, <1>14, <1>15, <2>1
  <2>2. CASE x # k
    BY <1>14, <2>2
  <2> QED BY <2>1, <2>2
<1>17. CanMove(b, k, k.location, q)
  BY <1>3, <1>11, <1>13, <1>16 DEF CanMove
<1> QED BY <1>8, <1>17

\* A worker is never refused what is left on a task line, for any number of
\* orders and any interleaving of their requests.
THEOREM TaskLinesArePickable == OutboundSpec => []PromisedStockIsPickable
BY OutboundInvariant, SumInvariant, TasksInvariant, PickableFromInvariant, PTL

LEMMA PromiseTypes ==
  ASSUME Books, OutboundTables
  PROVE  Promise!PromiseTypeOK
<1>1. ASSUME NEW k \in Key PROVE balance[k].available \in Nat
  BY DEF Books, Consistent, Row
<1>2. [k \in Key |-> balance[k].available] \in [Key -> Nat]
  BY <1>1
<1> QED BY <1>2 DEF Promise!PromiseTypeOK, OutboundTables, Plan

LEMMA PromiseStart == Books /\ OutboundTables /\ OutboundInit => Promise!PromiseInit
<1> SUFFICES ASSUME Books, OutboundTables, OutboundInit PROVE Promise!PromiseInit
  OBVIOUS
<1>1. [k \in Key |-> balance[k].available] \in [Key -> Nat]
  BY PromiseTypes DEF Promise!PromiseTypeOK
<1>2. reservation = [o \in Order |-> [k \in Key |-> 0]]
  BY DEF OutboundInit, Nothing
<1> QED BY <1>1, <1>2 DEF Promise!PromiseInit

LEMMA PromiseStep ==
  /\ Books /\ OutboundTables
  /\ Books' /\ OutboundTables'
  /\ [OutboundNext]_outboundVars
  => [Promise!PromiseNext]_(Promise!promiseVars)
<1> SUFFICES ASSUME Books, OutboundTables, Books', OutboundTables',
                    [OutboundNext]_outboundVars
             PROVE  [Promise!PromiseNext]_(Promise!promiseVars)
  OBVIOUS
<1>a. \A k \in Key : balance[k].available \in Nat
  BY DEF Books, Consistent, Row
<1>b. /\ [k \in Key |-> balance'[k].available] \in [Key -> Nat]
      /\ reservation' \in [Order -> [Key -> Nat]]
  BY DEF Books, Consistent, Row, OutboundTables, Plan
<1>c. reservation \in [Order -> [Key -> Nat]]
  BY DEF OutboundTables, Plan
<1>0. ASSUME UNCHANGED <<stockVars, reservation>>
      PROVE  [Promise!PromiseNext]_(Promise!promiseVars)
  BY <1>0 DEF Promise!promiseVars, stockVars
<1>1. ASSUME NEW o \in Order, ApproveOutbound(o) PROVE Promise!PromiseNext
  <2>1. PICK taken \in Plan : /\ balance' = AdjustReserved(balance, taken)
                              /\ reservation' = [reservation EXCEPT ![o] = Plus(@, taken)]
    BY <1>1 DEF ApproveOutbound, Plan
  <2>2. taken \in Delta
    BY PlanIsDelta
  <2>3. \A k \in Key : balance'[k].available = balance[k].available - taken[k]
    BY <2>1, <2>2, AdjustReservedRow DEF Books
  <2>4. \A k \in Key : reservation'[o][k] = reservation[o][k] + taken[k]
    BY <1>c, <2>1 DEF Plus
  <2>5. \A k \in Key : taken[k] \in Nat
    BY DEF Plan
  <2>6. \A k \in Key :
          /\ balance'[k].available <= balance[k].available
          /\ reservation'[o][k]
               = reservation[o][k] + (balance[k].available - balance'[k].available)
    BY <1>a, <1>c, <2>3, <2>4, <2>5
  <2>7. \A other \in Order \ {o} : reservation'[other] = reservation[other]
    BY <1>c, <2>1
  <2> QED
    BY <1>b, <2>6, <2>7
    DEF Promise!PromiseNext, Promise!PromiseTypeOK, Promise!Hold
<1>2. ASSUME NEW o \in Order, NEW k \in Key, NEW to \in Location, NEW q \in Nat,
             ScanPick(o, k, to, q)
      PROVE  Promise!PromiseNext
  <2>1. 0 < q /\ q <= reservation[o][k] /\ q \in 1 .. reservation[o][k]
    BY <1>2, <1>c DEF ScanPick, CanPick, CanMove
  <2>2. \A x \in Key :
          balance'[x].available
            = balance[x].available + (IF x = Moved(k, to) THEN q ELSE 0)
    BY <1>2, PickedRow DEF ScanPick, CanPick, Books
  <2>3. Moved(k, to) \in Key /\ Moved(k, to).product = k.product
        /\ Moved(k, to).batch = k.batch
    BY DEF Moved, Key
  <2>4. reservation' = [reservation EXCEPT ![o][k] = @ - q]
    BY <1>2 DEF ScanPick
  <2>5. [x \in Key |-> balance'[x].available]
          = [[x \in Key |-> balance[x].available] EXCEPT ![Moved(k, to)] = @ + q]
    <3> DEFINE f == [x \in Key |-> balance[x].available]
               g == [f EXCEPT ![Moved(k, to)] = @ + q]
    <3>1. \A x \in Key : g[x] = f[x] + (IF x = Moved(k, to) THEN q ELSE 0)
      BY <1>a
    <3>2. \A x \in Key : g[x] = balance'[x].available
      BY <2>2, <3>1
    <3>3. g = [x \in Key |-> g[x]]
      OBVIOUS
    <3> QED BY <3>2, <3>3
  <2>6. Promise!Fetch(o, k, Moved(k, to), q)
    BY <2>1, <2>3, <2>4, <2>5 DEF Promise!Fetch
  <2> QED
    BY <1>b, <2>1, <2>3, <2>6
    DEF Promise!PromiseNext, Promise!PromiseTypeOK
<1>3. ASSUME NEW o \in Order, NEW loc \in Location, DispatchConfirm(o, loc)
      PROVE  [Promise!PromiseNext]_(Promise!promiseVars)
  <2>1. CASE ShipAndCharge(o, loc)
    <3>1. PickedInto(o, loc) \in Plan /\ Minus(PickedInto(o, loc)) \in Delta
      BY PickedIntoType DEF Books
    <3>2. \A k \in Key :
            balance'[k].available = balance[k].available + Minus(PickedInto(o, loc))[k]
      BY <2>1, <3>1, PostedRow DEF ShipAndCharge, Books
    <3>3. \A k \in Key : Minus(PickedInto(o, loc))[k] \in Int
                       /\ Minus(PickedInto(o, loc))[k] <= 0
      BY <3>1 DEF Minus, Plan
    <3>4. \A k \in Key : balance'[k].available <= balance[k].available
      BY <1>a, <3>2, <3>3
    <3>5. UNCHANGED reservation
      BY <1>3 DEF DispatchConfirm
    <3> QED
      BY <1>b, <3>4, <3>5
      DEF Promise!PromiseNext, Promise!PromiseTypeOK, Promise!Ship
  <2>2. CASE ShipAndRollBack(o)
    BY <1>0, <1>3, <2>2 DEF DispatchConfirm, ShipAndRollBack
  <2> QED BY <1>3, <2>1, <2>2 DEF DispatchConfirm
<1>4. ASSUME NEW o \in Order, OutboundRequest(o)
      PROVE  [Promise!PromiseNext]_(Promise!promiseVars)
  <2>1. ASSUME NEW form \in OrderForm, NEW status \in {"DRAFT", "SUBMITTED"},
               CreateOutbound(o, form, status)
        PROVE  [Promise!PromiseNext]_(Promise!promiseVars)
    BY <1>0, <2>1 DEF CreateOutbound
  <2>2. CASE GeneratePicks(o) \/ StartTask(o) \/ CompleteTask(o) \/ PackingConfirm(o)
    BY <1>0, <2>2 DEF GeneratePicks, StartTask, CompleteTask, PackingConfirm
  <2>3. 1 .. MaxQty \subseteq Nat
    BY SchemaAssumption
  <2> QED BY <1>1, <1>2, <1>3, <1>4, <2>1, <2>2, <2>3 DEF OutboundRequest
<1>5. CASE NextDay /\ UNCHANGED orderVars
  BY <1>0, <1>5 DEF NextDay, orderVars
<1>6. CASE UNCHANGED outboundVars
  BY <1>0, <1>6 DEF outboundVars, stockVars
<1> QED BY <1>4, <1>5, <1>6 DEF OutboundNext

\* The outbound flow implements StockPromise: stock reserved for an order is
\* given to nobody else, and leaves its hold only by a pick for that order.
THEOREM OutboundKeepsPromises == OutboundSpec => ReservationsArePromises
BY OutboundInvariant, PromiseStart, PromiseStep, PTL
DEF OutboundSpec, ReservationsArePromises, Promise!PromiseSpec

-----------------------------------------------------------------------------
(* What a step of the flow does to the books: nothing that a sum over them   *)
(* would show, a pick, or a shipment                                         *)

BooksKeep ==
  /\ UNCHANGED ledger
  /\ \A k \in Key : balance'[k].on_hand = balance[k].on_hand

LEMMA BooksStepCases ==
  ASSUME Books, OutboundTables, [OutboundNext]_outboundVars
  PROVE  \/ BooksKeep
         \/ \E o \in Order, k \in Key, to \in Location, q \in Nat : ScanPick(o, k, to, q)
         \/ \E o \in Order, loc \in Location :
              DispatchConfirm(o, loc) /\ ShipAndCharge(o, loc)
<1>0. ASSUME UNCHANGED stockVars PROVE BooksKeep
  BY <1>0 DEF BooksKeep, stockVars
<1>1. ASSUME NEW o \in Order, ApproveOutbound(o) PROVE BooksKeep
  <2>1. PICK taken \in Plan : balance' = AdjustReserved(balance, taken)
    BY <1>1 DEF ApproveOutbound, Plan
  <2>2. \A k \in Key : balance'[k].on_hand = balance[k].on_hand
    BY <2>1, PlanIsDelta, AdjustReservedRow DEF Books
  <2> QED BY <1>1, <2>2 DEF ApproveOutbound, BooksKeep
<1>2. ASSUME NEW o \in Order, NEW form \in OrderForm, NEW status \in {"DRAFT", "SUBMITTED"},
             CreateOutbound(o, form, status)
      PROVE  BooksKeep
  BY <1>0, <1>2 DEF CreateOutbound
<1>3. ASSUME NEW o \in Order,
             GeneratePicks(o) \/ StartTask(o) \/ CompleteTask(o) \/ PackingConfirm(o)
      PROVE  BooksKeep
  BY <1>0, <1>3 DEF GeneratePicks, StartTask, CompleteTask, PackingConfirm
<1>4. ASSUME NEW o \in Order, NEW loc \in Location, DispatchConfirm(o, loc)
      PROVE  BooksKeep \/ ShipAndCharge(o, loc)
  BY <1>0, <1>4 DEF DispatchConfirm, ShipAndRollBack
<1>5. CASE NextDay /\ UNCHANGED orderVars
  BY <1>0, <1>5 DEF NextDay
<1>6. CASE UNCHANGED outboundVars
  BY <1>0, <1>6 DEF outboundVars, stockVars
<1>7. 1 .. MaxQty \subseteq Nat
  BY SchemaAssumption
<1> QED
  BY <1>1, <1>2, <1>3, <1>4, <1>5, <1>6, <1>7 DEF OutboundNext, OutboundRequest

LEMMA ReconcilesInit == OutboundInit => Reconciles(ledger, balance)
<1>1. OpeningStock \in [Key -> Nat] /\ OpeningReference \in Reference
  BY OutboundAssumption, SchemaAssumption
<1> QED BY <1>1, OpeningReconciles DEF OutboundInit

LEMMA ReconcilesStep ==
  Books /\ OutboundTables /\ Reconciles(ledger, balance) /\ [OutboundNext]_outboundVars
    => Reconciles(ledger, balance)'
<1> SUFFICES ASSUME Books, OutboundTables, Reconciles(ledger, balance),
                    [OutboundNext]_outboundVars
             PROVE  Reconciles(ledger', balance')
  BY DEF Reconciles, NetOf
<1>1. CASE BooksKeep
  BY <1>1 DEF BooksKeep, Reconciles
<1>2. ASSUME NEW o \in Order, NEW k \in Key, NEW to \in Location, NEW q \in Nat,
             ScanPick(o, k, to, q)
      PROVE  Reconciles(ledger', balance')
  <2>1. At(k, -q) \in Delta /\ OrderReference(o) \in Reference
    BY DeltaType, OutboundAssumption
  <2>2. Consistent(Released(k, q)) /\ Reconciles(ledger, Released(k, q))
    BY <1>2, <2>1, ReleasedConsistent, AdjustReconciles
    DEF ScanPick, CanPick, Released, Books
  <2> QED BY <1>2, <2>1, <2>2, MoveReconciles DEF ScanPick, Books
<1>3. ASSUME NEW o \in Order, NEW loc \in Location, ShipAndCharge(o, loc)
      PROVE  Reconciles(ledger', balance')
  <2>1. Minus(PickedInto(o, loc)) \in Delta /\ OrderReference(o) \in Reference
    BY PickedIntoType, OutboundAssumption DEF Books
  <2> QED BY <1>3, <2>1, PostReconciles DEF ShipAndCharge, Books
<1> QED BY <1>1, <1>2, <1>3, BooksStepCases

\* The ledger of all documents adds up to the stored on_hand_qty, item by item
\* and location by location, whatever is reserved, picked and shipped.
THEOREM OutboundLedgerReconciles == OutboundSpec => []LedgerReconciles
<1>1. Reconciles(ledger, balance) => LedgerReconciles
  BY ReconcilesIsProperty
<1> QED BY <1>1, OutboundInvariant, ReconcilesInit, ReconcilesStep, PTL DEF OutboundSpec

-----------------------------------------------------------------------------
(* Totals over the rows of a product *)

KeysOf(p) == {k \in Key : k.product = p}

LEMMA KeysOfFinite == \A p : IsFiniteSet(KeysOf(p)) /\ KeysOf(p) \subseteq Key
BY KeyFinite, FS_Subset DEF KeysOf

LEMMA TotalInt ==
  ASSUME NEW f, \A k \in Key : f[k] \in Int, NEW p
  PROVE  Total(f, p) \in Int
BY KeysOfFinite, SumInt DEF Total, KeysOf

LEMMA TotalNat ==
  ASSUME NEW f, \A k \in Key : f[k] \in Nat, NEW p
  PROVE  /\ Total(f, p) \in Nat
         /\ \A k \in Key : k.product = p => f[k] <= Total(f, p)
<1>1. /\ SumFunctionOnSet(f, KeysOf(p)) \in Nat
      /\ \A k \in KeysOf(p) : f[k] <= SumFunctionOnSet(f, KeysOf(p))
  BY KeysOfFinite, SumNat
<1> QED BY <1>1 DEF Total, KeysOf

LEMMA TotalAgree ==
  ASSUME NEW f, NEW g, \A k \in Key : f[k] = g[k], NEW p
  PROVE  Total(f, p) = Total(g, p)
<1>1. \A k \in KeysOf(p) : f[k] = g[k]
  BY KeysOfFinite
<1>2. SumFunctionOnSet(f, KeysOf(p)) = SumFunctionOnSet(g, KeysOf(p))
  BY <1>1, KeysOfFinite, SumAgree
<1> QED BY <1>2 DEF Total, KeysOf

LEMMA TotalZero ==
  ASSUME NEW f, \A k \in Key : f[k] = 0, NEW p
  PROVE  Total(f, p) = 0
BY KeysOfFinite, SumZero DEF Total, KeysOf

LEMMA TotalPlus ==
  ASSUME NEW f, NEW g, NEW h, \A k \in Key : f[k] \in Int, \A k \in Key : g[k] \in Int,
         \A k \in Key : h[k] = f[k] + g[k], NEW p
  PROVE  Total(h, p) = Total(f, p) + Total(g, p)
<1>1. \A k \in KeysOf(p) : f[k] \in Int /\ g[k] \in Int /\ h[k] = f[k] + g[k]
  BY KeysOfFinite
<1>2. SumFunctionOnSet(h, KeysOf(p))
        = SumFunctionOnSet(f, KeysOf(p)) + SumFunctionOnSet(g, KeysOf(p))
  BY <1>1, KeysOfFinite, SumPlus
<1> QED BY <1>2 DEF Total, KeysOf

\* A total rises by what is added at one row, if the row is of the product.
LEMMA TotalRaised ==
  ASSUME NEW f, NEW g, \A x \in Key : f[x] \in Int, NEW k \in Key, NEW q \in Int,
         \A x \in Key : g[x] = f[x] + (IF x = k THEN q ELSE 0), NEW p
  PROVE  Total(g, p) = Total(f, p) + (IF k.product = p THEN q ELSE 0)
<1>1. \A x \in Key : g[x] \in Int /\ (x # k => f[x] = g[x])
  OBVIOUS
<1>2. IsFiniteSet(KeysOf(p)) /\ KeysOf(p) \subseteq Key
  BY KeysOfFinite
<1>3. Total(f, p) \in Int
  BY TotalInt
<1>4. CASE k.product = p
  <2>1. k \in KeysOf(p)
    BY <1>4 DEF KeysOf
  <2>2. SumFunctionOnSet(g, KeysOf(p)) = SumFunctionOnSet(f, KeysOf(p)) + (g[k] - f[k])
    BY <1>1, <1>2, <2>1, SumChange
  <2>3. g[k] - f[k] = q
    OBVIOUS
  <2> QED BY <1>4, <2>2, <2>3 DEF Total, KeysOf
<1>5. CASE k.product # p
  <2>1. \A x \in KeysOf(p) : f[x] = g[x]
    BY <1>1, <1>5 DEF KeysOf
  <2>2. SumFunctionOnSet(f, KeysOf(p)) = SumFunctionOnSet(g, KeysOf(p))
    BY <1>2, <2>1, SumAgree
  <2> QED BY <1>3, <1>5, <2>2 DEF Total, KeysOf
<1> QED BY <1>4, <1>5

-----------------------------------------------------------------------------
(* What the ledger says was picked and shipped for an order *)

InOf(l, ref) == [k \in Key |-> l[ref][k].in]
OutOf(l, ref) == [k \in Key |-> l[ref][k].out]

LEMMA OrderReferences ==
  /\ \A o \in Order : OrderReference(o) \in Reference
  /\ \A o, x \in Order : OrderReference(o) = OrderReference(x) => o = x
BY OutboundAssumption DEF OrderReference

LEMMA FlowTypes ==
  ASSUME NEW l \in LedgerTable, NEW ref \in Reference
  PROVE  \A k \in Key : InOf(l, ref)[k] \in Nat /\ OutOf(l, ref)[k] \in Nat
BY DEF LedgerTable, InOf, OutOf

LEMMA PiecesType ==
  ASSUME ledger \in LedgerTable, NEW o \in Order, NEW p
  PROVE  PickedPieces(o, p) \in Nat /\ DispatchedPieces(o, p) \in Int
<1>1. \A k \in Key : /\ InOf(ledger, OrderReference(o))[k] \in Nat
                     /\ OutOf(ledger, OrderReference(o))[k] \in Nat
  BY OrderReferences, FlowTypes
<1>2. /\ Total(InOf(ledger, OrderReference(o)), p) \in Nat
      /\ Total(OutOf(ledger, OrderReference(o)), p) \in Nat
  BY <1>1, TotalNat
<1> QED BY <1>2 DEF PickedPieces, DispatchedPieces, InOf, OutOf

\* A pick adds to what was picked for its order and ships nothing.
LEMMA PickFlows ==
  ASSUME Books, NEW o \in Order, NEW k \in Key, NEW to \in Location, NEW q \in Nat,
         ScanPick(o, k, to, q), NEW x \in Order, NEW p
  PROVE  /\ PickedPieces(x, p)'
              = PickedPieces(x, p) + (IF x = o /\ k.product = p THEN q ELSE 0)
         /\ DispatchedPieces(x, p)' = DispatchedPieces(x, p)
<1> DEFINE ref == OrderReference(x)
           m == MovedLedger(ledger, OrderReference(o), k, to, q)
<1>1. ledger \in LedgerTable /\ ledger' = m /\ OrderReference(o) \in Reference
      /\ ref \in Reference
  BY OrderReferences DEF Books, ScanPick
<1>2. Moved(k, to) \in Key /\ Moved(k, to).product = k.product
  BY DEF Moved, Key
<1>3. PickedPieces(x, p) \in Int /\ DispatchedPieces(x, p) \in Int
  BY <1>1, PiecesType
<1>4. CASE x = o
  <2>1. \A z \in Key : /\ InOf(m, ref)[z]
                            = InOf(ledger, ref)[z] + (IF z = Moved(k, to) THEN q ELSE 0)
                      /\ OutOf(m, ref)[z] = OutOf(ledger, ref)[z] + (IF z = k THEN q ELSE 0)
    BY <1>1, <1>4, MovedRow DEF InOf, OutOf
  <2>2. \A z \in Key : InOf(ledger, ref)[z] \in Int /\ OutOf(ledger, ref)[z] \in Int
    BY <1>1, FlowTypes
  <2> HIDE DEF m
  <2> DEFINE f == InOf(ledger, ref)
             f1 == InOf(m, ref)
             g == OutOf(ledger, ref)
             g1 == OutOf(m, ref)
  <2> HIDE DEF f, f1, g, g1
  <2>3. Total(f1, p) = Total(f, p) + (IF k.product = p THEN q ELSE 0)
    <3>1. PICK t \in Key : t = Moved(k, to) /\ t.product = k.product
      BY <1>2
    <3>2. /\ \A z \in Key : f1[z] = f[z] + (IF z = t THEN q ELSE 0)
          /\ \A z \in Key : f[z] \in Int
      BY <2>1, <2>2, <3>1 DEF f, f1
    <3>3. Total(f1, p) = Total(f, p) + (IF t.product = p THEN q ELSE 0)
      BY <3>2, TotalRaised
    <3> QED BY <3>1, <3>3
  <2>4. Total(g1, p) = Total(g, p) + (IF k.product = p THEN q ELSE 0)
    <3>1. /\ \A z \in Key : g1[z] = g[z] + (IF z = k THEN q ELSE 0)
          /\ \A z \in Key : g[z] \in Int
      BY <2>1, <2>2 DEF g, g1
    <3> QED BY <3>1, TotalRaised
  <2>5. Total(InOf(ledger, ref), p) \in Int /\ Total(OutOf(ledger, ref), p) \in Int
    BY <2>2, TotalInt
  <2>6. /\ PickedPieces(x, p) = Total(InOf(ledger, ref), p)
        /\ DispatchedPieces(x, p) = Total(OutOf(ledger, ref), p) - Total(InOf(ledger, ref), p)
        /\ PickedPieces(x, p)' = Total(InOf(m, ref), p)
        /\ DispatchedPieces(x, p)' = Total(OutOf(m, ref), p) - Total(InOf(m, ref), p)
    BY <1>1 DEF PickedPieces, DispatchedPieces, InOf, OutOf
  <2> QED BY <1>4, <2>3, <2>4, <2>5, <2>6 DEF f, f1, g, g1
<1>5. CASE x # o
  <2>1. ledger'[ref] = ledger[ref]
    BY <1>1, <1>5, OrderReferences, MovedElsewhere
  <2> QED BY <1>3, <1>5, <2>1 DEF PickedPieces, DispatchedPieces
<1> QED BY <1>4, <1>5

\* A shipment takes out what was ever picked into the location.
LEMMA ShipFlows ==
  ASSUME Books, NEW o \in Order, NEW loc \in Location, ShipAndCharge(o, loc),
         NEW x \in Order, NEW p
  PROVE  /\ PickedPieces(x, p)' = PickedPieces(x, p)
         /\ DispatchedPieces(x, p)'
              = DispatchedPieces(x, p) + (IF x = o THEN Total(PickedInto(o, loc), p) ELSE 0)
<1> DEFINE ref == OrderReference(x)
           d == Minus(PickedInto(o, loc))
           m == Recorded(ledger, OrderReference(o), d)
<1>1. ledger \in LedgerTable /\ ledger' = m /\ OrderReference(o) \in Reference
      /\ ref \in Reference
  BY OrderReferences DEF Books, ShipAndCharge
<1>2. PickedInto(o, loc) \in Plan /\ d \in Delta
  BY <1>1, PickedIntoType
<1>3. PickedPieces(x, p) \in Int /\ DispatchedPieces(x, p) \in Int
  BY <1>1, PiecesType
<1>4. CASE x = o
  <2>1. \A z \in Key : d[z] = -PickedInto(o, loc)[z] /\ PickedInto(o, loc)[z] \in Nat
    BY <1>2 DEF Minus, Plan
  <2>2. \A z \in Key : InOf(ledger, ref)[z] \in Int /\ OutOf(ledger, ref)[z] \in Int
    BY <1>1, FlowTypes
  <2>3. ASSUME NEW z \in Key
        PROVE  /\ InOf(m, ref)[z] = InOf(ledger, ref)[z]
               /\ OutOf(m, ref)[z] = OutOf(ledger, ref)[z] + PickedInto(o, loc)[z]
    <3> HIDE DEF d
    <3>1. /\ m[ref][z].in = ledger[ref][z].in + (IF d[z] > 0 THEN d[z] ELSE 0)
          /\ m[ref][z].out = ledger[ref][z].out + (IF d[z] < 0 THEN -d[z] ELSE 0)
      BY <1>1, <1>2, <1>4, RecordedRow
    <3>2. ledger[ref][z].in \in Int /\ ledger[ref][z].out \in Int
      BY <2>2 DEF InOf, OutOf
    <3>3. /\ m[ref][z].in = ledger[ref][z].in
          /\ m[ref][z].out = ledger[ref][z].out + PickedInto(o, loc)[z]
      BY <2>1, <3>1, <3>2
    <3> QED BY <3>3 DEF InOf, OutOf
  <2> HIDE DEF m
  <2>4. Total(InOf(m, ref), p) = Total(InOf(ledger, ref), p)
    BY <2>3, TotalAgree
  <2>5. Total(OutOf(m, ref), p) = Total(OutOf(ledger, ref), p) + Total(PickedInto(o, loc), p)
    BY <2>1, <2>2, <2>3, TotalPlus
  <2>6. /\ Total(InOf(ledger, ref), p) \in Int /\ Total(OutOf(ledger, ref), p) \in Int
        /\ Total(PickedInto(o, loc), p) \in Int
    BY <2>1, <2>2, TotalInt
  <2>7. /\ PickedPieces(x, p) = Total(InOf(ledger, ref), p)
        /\ DispatchedPieces(x, p) = Total(OutOf(ledger, ref), p) - Total(InOf(ledger, ref), p)
        /\ PickedPieces(x, p)' = Total(InOf(m, ref), p)
        /\ DispatchedPieces(x, p)' = Total(OutOf(m, ref), p) - Total(InOf(m, ref), p)
    BY <1>1 DEF PickedPieces, DispatchedPieces, InOf, OutOf
  <2> QED BY <1>4, <2>4, <2>5, <2>6, <2>7
<1>5. CASE x # o
  <2>1. ledger'[ref] = ledger[ref]
    BY <1>1, <1>5, OrderReferences, RecordedElsewhere
  <2> QED BY <1>3, <1>5, <2>1 DEF PickedPieces, DispatchedPieces
<1> QED BY <1>4, <1>5

-----------------------------------------------------------------------------
(* What is charged for an order *)

\* A step that charges nothing and stamps no order.
ChargesKeep ==
  /\ UNCHANGED charge
  /\ \A o \in Order : /\ order'[o].slip = order[o].slip
                      /\ order'[o].dispatched_at = order[o].dispatched_at

\* The first confirmation of o, or a shipment for o: one new event of today.
Labelled(o) ==
  /\ ~order[o].slip
  /\ charge' = charge \cup {Event("PRINT_LABEL", OrderReference(o), 1)}
  /\ \A x \in Order : /\ order'[x].slip = (x = o \/ order[x].slip)
                      /\ order'[x].dispatched_at = order[x].dispatched_at

Shipped(o, loc) ==
  /\ CanDispatch(o, loc)
  /\ ShipAndCharge(o, loc)
  /\ \A x \in Order :
       /\ order'[x].slip = order[x].slip
       /\ order'[x].dispatched_at = IF x = o THEN today ELSE order[x].dispatched_at

LEMMA ChargesStepCases ==
  ASSUME Books, OutboundTables, [OutboundNext]_outboundVars
  PROVE  /\ today' \in Int /\ today <= today'
         /\ \/ ChargesKeep /\ (BooksKeep \/ \E o \in Order, k \in Key, to \in Location, q \in Nat :
                                              ScanPick(o, k, to, q))
            \/ BooksKeep /\ UNCHANGED today /\ \E o \in Order : Labelled(o)
            \/ UNCHANGED today /\ \E o \in Order, loc \in Location : Shipped(o, loc)
<1>a. order \in [Order -> OrderRow] /\ today \in Int
  BY DEF OutboundTables, Day
<1>b. ASSUME UNCHANGED stockVars PROVE BooksKeep
  BY <1>b DEF BooksKeep, stockVars
<1> USE DEF ChargesKeep, OrderRow
<1>1. ASSUME NEW o \in Order, NEW form \in OrderForm, NEW status \in {"DRAFT", "SUBMITTED"},
             CreateOutbound(o, form, status)
      PROVE  ChargesKeep /\ BooksKeep /\ UNCHANGED today
  BY <1>a, <1>b, <1>1 DEF CreateOutbound
<1>2. ASSUME NEW o \in Order, ApproveOutbound(o)
      PROVE  ChargesKeep /\ BooksKeep /\ UNCHANGED today
  <2>1. PICK taken \in Plan : balance' = AdjustReserved(balance, taken)
    BY <1>2 DEF ApproveOutbound, Plan
  <2>2. \A k \in Key : balance'[k].on_hand = balance[k].on_hand
    BY <2>1, PlanIsDelta, AdjustReservedRow DEF Books
  <2>3. BooksKeep
    BY <1>2, <2>2 DEF ApproveOutbound, BooksKeep
  <2>4. /\ order' = [order EXCEPT ![o].status = "APPROVED"]
        /\ UNCHANGED <<charge, today>>
    BY <1>2 DEF ApproveOutbound
  <2> QED BY <1>a, <2>3, <2>4
<1>3. ASSUME NEW o \in Order, GeneratePicks(o)
      PROVE  ChargesKeep /\ BooksKeep /\ UNCHANGED today
  BY <1>a, <1>b, <1>3 DEF GeneratePicks
<1>4. ASSUME NEW o \in Order, StartTask(o)
      PROVE  ChargesKeep /\ BooksKeep /\ UNCHANGED today
  BY <1>a, <1>b, <1>4 DEF StartTask
<1>5. ASSUME NEW o \in Order, NEW k \in Key, NEW to \in Location, NEW q \in Nat,
             ScanPick(o, k, to, q)
      PROVE  ChargesKeep /\ UNCHANGED today
  BY <1>5 DEF ScanPick
<1>6. ASSUME NEW o \in Order, CompleteTask(o)
      PROVE  ChargesKeep /\ BooksKeep /\ UNCHANGED today
  BY <1>a, <1>b, <1>6 DEF CompleteTask
<1>7. ASSUME NEW o \in Order, PackingConfirm(o)
      PROVE  BooksKeep /\ UNCHANGED today /\ (ChargesKeep \/ Labelled(o))
  <2>1. CASE order[o].slip
    BY <1>a, <1>b, <1>7, <2>1 DEF PackingConfirm
  <2>2. CASE ~order[o].slip
    <3>1. /\ order' = [order EXCEPT ![o].status = "PACKED", ![o].slip = TRUE]
          /\ charge' = charge \cup {Event("PRINT_LABEL", OrderReference(o), 1)}
      BY <1>7, <2>2 DEF PackingConfirm, AddCharge
    <3>2. /\ order'[o].slip = TRUE /\ order'[o].dispatched_at = order[o].dispatched_at
          /\ \A x \in Order \ {o} : order'[x] = order[x]
      BY <1>a, <3>1
    <3>3. \A x \in Order : order'[x].slip = (x = o \/ order[x].slip)
      <4>1. \A x \in Order : order[x].slip \in BOOLEAN
        BY <1>a
      <4> QED BY <3>2, <4>1
    <3> QED BY <1>b, <1>7, <2>2, <3>1, <3>2, <3>3 DEF PackingConfirm, Labelled
  <2> QED BY <2>1, <2>2
<1>8. ASSUME NEW o \in Order, NEW loc \in Location, DispatchConfirm(o, loc)
      PROVE  UNCHANGED today /\ ((ChargesKeep /\ BooksKeep) \/ Shipped(o, loc))
  <2>1. PICK stored \in BOOLEAN :
          \/ /\ ShipAndCharge(o, loc)
             /\ order' = [order EXCEPT ![o].status = "DISPATCHED",
                                       ![o].dispatched_at = today,
                                       ![o].pdf = @ \/ stored]
          \/ /\ ShipAndRollBack(o)
             /\ order' = [order EXCEPT ![o].pdf = @ \/ stored]
    BY <1>8 DEF DispatchConfirm
  <2>2. CASE ShipAndRollBack(o) /\ order' = [order EXCEPT ![o].pdf = @ \/ stored]
    BY <1>a, <1>b, <1>8, <2>2 DEF ShipAndRollBack, DispatchConfirm
  <2>3. CASE /\ ShipAndCharge(o, loc)
             /\ order' = [order EXCEPT ![o].status = "DISPATCHED",
                                       ![o].dispatched_at = today,
                                       ![o].pdf = @ \/ stored]
    BY <1>a, <1>8, <2>3 DEF DispatchConfirm, Shipped
  <2> QED BY <1>8, <2>1, <2>2, <2>3 DEF DispatchConfirm
<1>9. CASE NextDay /\ UNCHANGED orderVars
  BY <1>a, <1>b, <1>9 DEF NextDay, orderVars
<1>10. CASE UNCHANGED outboundVars
  BY <1>a, <1>b, <1>10 DEF outboundVars, stockVars
<1>11. 1 .. MaxQty \subseteq Nat
  BY SchemaAssumption
<1>12. UNCHANGED today => today' \in Int /\ today <= today'
  BY <1>a
<1>13. ASSUME NEW o \in Order, OutboundRequest(o)
       PROVE  /\ UNCHANGED today
              /\ \/ ChargesKeep /\ BooksKeep
                 \/ ChargesKeep /\ \E k \in Key, to \in Location, q \in Nat : ScanPick(o, k, to, q)
                 \/ BooksKeep /\ Labelled(o)
                 \/ \E loc \in Location : Shipped(o, loc)
  <2> HIDE DEF ChargesKeep
  <2> QED
    BY <1>1, <1>2, <1>3, <1>4, <1>5, <1>6, <1>7, <1>8, <1>11, <1>13 DEF OutboundRequest
<1> HIDE DEF ChargesKeep
<1> QED BY <1>9, <1>10, <1>12, <1>13 DEF OutboundNext

\* A charge is added to those of its order and type, and to no others.
LEMMA ChargesOfOthers ==
  ASSUME NEW type, NEW o \in Order,
         charge' = charge \cup {Event(type, OrderReference(o), 1)},
         NEW other, NEW x \in Order
  PROVE  ChargesFor(other, OrderReference(x))'
           = ChargesFor(other, OrderReference(x))
               \cup (IF x = o /\ other = type THEN {Event(type, OrderReference(o), 1)} ELSE {})
<1> DEFINE e == Event(type, OrderReference(o), 1)
<1>1. e.type = type /\ e.reference = OrderReference(o)
  BY DEF Event
<1>2. OrderReference(x) = OrderReference(o) <=> x = o
  BY OrderReferences
<1> HIDE DEF e
<1>3. charge' = charge \cup {e}
  BY DEF e
<1>4. ChargesFor(other, OrderReference(x))'
        = ChargesFor(other, OrderReference(x)) \cup (IF x = o /\ other = type THEN {e} ELSE {})
  BY <1>1, <1>2, <1>3 DEF ChargesFor
<1> QED BY <1>4 DEF e

\* One label per slip, whose event is the only one of its order.
SlipInv ==
  \A o \in Order :
    /\ ~order[o].slip => ChargesFor("PRINT_LABEL", OrderReference(o)) = {}
    /\ order[o].slip => \E c : ChargesFor("PRINT_LABEL", OrderReference(o)) = {c}

LEMMA SlipInit == OutboundInit => SlipInv
BY DEF OutboundInit, SlipInv, ChargesFor, NoOrder

LEMMA SlipStep ==
  Books /\ OutboundTables /\ SlipInv /\ [OutboundNext]_outboundVars => SlipInv'
<1> SUFFICES ASSUME Books, OutboundTables, SlipInv, [OutboundNext]_outboundVars,
                    NEW x \in Order
             PROVE  LET labels == ChargesFor("PRINT_LABEL", OrderReference(x))'
                    IN  /\ ~order'[x].slip => labels = {}
                        /\ order'[x].slip => \E c : labels = {c}
  BY DEF SlipInv
<1> DEFINE labels == ChargesFor("PRINT_LABEL", OrderReference(x))
<1>a. /\ ~order[x].slip => labels = {}
      /\ order[x].slip => \E c : labels = {c}
  BY DEF SlipInv
<1>1. CASE ChargesKeep
  <2>1. labels' = labels /\ order'[x].slip = order[x].slip
    BY <1>1 DEF ChargesKeep, ChargesFor
  <2> QED BY <1>a, <2>1
<1>2. ASSUME NEW o \in Order, Labelled(o)
      PROVE  (~order'[x].slip => labels' = {}) /\ (order'[x].slip => \E c : labels' = {c})
  <2>1. labels' = labels \cup (IF x = o THEN {Event("PRINT_LABEL", OrderReference(o), 1)} ELSE {})
    BY <1>2, ChargesOfOthers DEF Labelled
  <2>2. ~order[o].slip /\ order'[x].slip = (x = o \/ order[x].slip)
    BY <1>2 DEF Labelled
  <2> HIDE DEF labels
  <2>3. CASE x = o
    BY <1>a, <2>1, <2>2, <2>3
  <2>4. CASE x # o
    <3>1. labels' = labels /\ order'[x].slip = order[x].slip
      <4>1. order[x].slip \in BOOLEAN
        BY DEF OutboundTables, OrderRow
      <4> QED BY <2>1, <2>2, <2>4, <4>1
    <3> QED BY <1>a, <3>1
  <2> QED BY <2>3, <2>4
<1>3. ASSUME NEW o \in Order, NEW loc \in Location, Shipped(o, loc)
      PROVE  (~order'[x].slip => labels' = {}) /\ (order'[x].slip => \E c : labels' = {c})
  <2>1. labels' = labels
    <3>1. charge' = charge \cup {Event("DISPATCH_ORDER", OrderReference(o), 1)}
      BY <1>3 DEF Shipped, ShipAndCharge, AddCharge
    <3>2. ASSUME NEW other
          PROVE  ChargesFor(other, OrderReference(x))'
                   = ChargesFor(other, OrderReference(x))
                       \cup (IF x = o /\ other = "DISPATCH_ORDER"
                             THEN {Event("DISPATCH_ORDER", OrderReference(o), 1)} ELSE {})
      BY <3>1, ChargesOfOthers
    <3>3. ChargesFor("PRINT_LABEL", OrderReference(x))'
            = ChargesFor("PRINT_LABEL", OrderReference(x)) \cup {}
      BY <3>2
    <3> QED BY <3>3
  <2>2. order'[x].slip = order[x].slip
    BY <1>3 DEF Shipped
  <2> QED BY <1>a, <2>1, <2>2
<1> QED BY <1>1, <1>2, <1>3, ChargesStepCases

LEMMA SlipIsProperty == SlipInv => SlipIsChargedOnce
<1> SUFFICES ASSUME SlipInv, NEW o \in Order
             PROVE  Cardinality(ChargesFor("PRINT_LABEL", OrderReference(o)))
                      = IF order[o].slip THEN 1 ELSE 0
  BY DEF SlipIsChargedOnce
<1>1. \A c : Cardinality({c}) = 1
  BY FS_Singleton
<1>2. Cardinality({}) = 0
  BY FS_EmptySet
<1> QED BY <1>1, <1>2 DEF SlipInv

\* However often and on whatever days a packing is confirmed, its slip is
\* charged once.
THEOREM OneChargePerSlip == OutboundSpec => []SlipIsChargedOnce
BY OutboundInvariant, SlipInit, SlipStep, SlipIsProperty, PTL DEF OutboundSpec

\* ShipmentsAreCharged, with what it needs to be inductive: an order is
\* stamped with the date of one of its charges, and no charge is later.
ChargedOn(o, charges) ==
  /\ charges = {} => order[o].dispatched_at = NoDay
  /\ charges # {} => /\ \E c \in charges : c.date = order[o].dispatched_at
                     /\ \A c \in charges : c.date <= order[o].dispatched_at

DispatchInv ==
  /\ \A c \in charge : c.date \in Int /\ c.date <= today
  /\ \A o \in Order :
       LET charges == ChargesFor("DISPATCH_ORDER", OrderReference(o))
       IN  /\ ChargedOn(o, charges)
           /\ \A p \in Product : /\ DispatchedPieces(o, p) >= 0
                                 /\ charges = {} => DispatchedPieces(o, p) = 0
           /\ charges # {} => \E p \in Product : DispatchedPieces(o, p) > 0

LEMMA DispatchInit == OutboundInit => DispatchInv
<1> SUFFICES ASSUME OutboundInit PROVE DispatchInv
  OBVIOUS
<1>1. ASSUME NEW o \in Order, NEW p \in Product PROVE DispatchedPieces(o, p) = 0
  <2> DEFINE ref == OrderReference(o)
  <2>1. ref \in Reference /\ ref # OpeningReference
    BY OutboundAssumption
  <2>2. \A k \in Key : InOf(ledger, ref)[k] = 0 /\ OutOf(ledger, ref)[k] = 0
    BY <2>1 DEF OutboundInit, InOf, OutOf
  <2>3. Total(InOf(ledger, ref), p) = 0 /\ Total(OutOf(ledger, ref), p) = 0
    BY <2>2, TotalZero
  <2> QED BY <2>3 DEF DispatchedPieces, PickedPieces, InOf, OutOf
<1>2. charge = {} /\ \A o \in Order : order[o].dispatched_at = NoDay
  BY DEF OutboundInit, NoOrder
<1>3. \A o \in Order : ChargesFor("DISPATCH_ORDER", OrderReference(o)) = {}
  BY <1>2 DEF ChargesFor
<1> QED BY <1>1, <1>2, <1>3 DEF DispatchInv, ChargedOn

LEMMA DispatchStep ==
  Books /\ OutboundTables /\ DispatchInv /\ [OutboundNext]_outboundVars => DispatchInv'
<1> SUFFICES ASSUME Books, OutboundTables, DispatchInv, [OutboundNext]_outboundVars
             PROVE  DispatchInv'
  OBVIOUS
<1> DEFINE Charges(o) == ChargesFor("DISPATCH_ORDER", OrderReference(o))
<1>a. today \in Int /\ today' \in Int /\ today <= today'
  BY ChargesStepCases DEF OutboundTables, Day
<1>b. \A o \in Order, p \in Product : DispatchedPieces(o, p) \in Int
  BY PiecesType DEF Books
<1>c. \A c \in charge : c.date \in Int /\ c.date <= today'
  BY <1>a DEF DispatchInv
<1>d. \A type, ref : Event(type, ref, 1).date = today
  BY DEF Event
<1>1. ASSUME \A c \in charge' : c.date \in Int /\ c.date <= today',
             \A o \in Order : /\ Charges(o)' = Charges(o)
                              /\ order'[o].dispatched_at = order[o].dispatched_at
                              /\ \A p \in Product : DispatchedPieces(o, p)' = DispatchedPieces(o, p)
      PROVE  DispatchInv'
  BY <1>1 DEF DispatchInv, ChargedOn
<1>2. ASSUME BooksKeep \/ \E o \in Order, k \in Key, to \in Location, q \in Nat : ScanPick(o, k, to, q)
      PROVE  \A o \in Order, p \in Product : DispatchedPieces(o, p)' = DispatchedPieces(o, p)
  <2>1. CASE BooksKeep
    BY <2>1 DEF BooksKeep, DispatchedPieces, PickedPieces
  <2>2. ASSUME NEW o \in Order, NEW k \in Key, NEW to \in Location, NEW q \in Nat,
               ScanPick(o, k, to, q)
        PROVE  \A x \in Order, p \in Product : DispatchedPieces(x, p)' = DispatchedPieces(x, p)
    BY <2>2, PickFlows
  <2> QED BY <1>2, <2>1, <2>2
<1>3. CASE ChargesKeep /\ (BooksKeep \/ \E o \in Order, k \in Key, to \in Location, q \in Nat :
                                         ScanPick(o, k, to, q))
  <2>1. \A o \in Order : Charges(o)' = Charges(o)
    BY <1>3 DEF ChargesKeep, ChargesFor
  <2> QED BY <1>1, <1>2, <1>3, <1>c, <2>1 DEF ChargesKeep
<1>4. ASSUME NEW o \in Order, Labelled(o), BooksKeep PROVE DispatchInv'
  <2>1. ASSUME NEW x \in Order PROVE Charges(x)' = Charges(x)
    <3>1. charge' = charge \cup {Event("PRINT_LABEL", OrderReference(o), 1)}
      BY <1>4 DEF Labelled
    <3>2. Charges(x)' = Charges(x) \cup (IF x = o /\ "DISPATCH_ORDER" = "PRINT_LABEL"
                                        THEN {Event("PRINT_LABEL", OrderReference(o), 1)} ELSE {})
      BY <3>1, ChargesOfOthers
    <3> QED BY <3>2
  <2>2. \A c \in charge' : c.date \in Int /\ c.date <= today'
    BY <1>4, <1>a, <1>c, <1>d DEF Labelled
  <2> QED BY <1>1, <1>2, <1>4, <2>1, <2>2 DEF Labelled
<1>5. ASSUME NEW o \in Order, NEW loc \in Location, Shipped(o, loc), UNCHANGED today
      PROVE  DispatchInv'
  <2> DEFINE e == Event("DISPATCH_ORDER", OrderReference(o), 1)
             shipped == PickedInto(o, loc)
  <2>1. ShipAndCharge(o, loc) /\ charge' = charge \cup {e} /\ e.date = today
    BY <1>5, <1>d DEF Shipped, ShipAndCharge, AddCharge
  <2>2. shipped \in Plan /\ \E k \in Key : shipped[k] > 0
    BY <1>5, PickedIntoType DEF Shipped, CanDispatch, Books
  <2>3. \A x \in Order : Charges(x)' = Charges(x) \cup (IF x = o THEN {e} ELSE {})
    BY <2>1, ChargesOfOthers
  <2>4. \A x \in Order, p \in Product :
          DispatchedPieces(x, p)'
            = DispatchedPieces(x, p) + (IF x = o THEN Total(shipped, p) ELSE 0)
    BY <2>1, ShipFlows
  <2> HIDE DEF e
  <2>5. \A p \in Product : Total(shipped, p) \in Nat
    BY <2>2, TotalNat DEF Plan
  <2>6. \E p \in Product : Total(shipped, p) > 0
    <3>1. PICK k \in Key : shipped[k] > 0
      BY <2>2
    <3>2. /\ Total(shipped, k.product) \in Nat
          /\ shipped[k] <= Total(shipped, k.product)
          /\ shipped[k] \in Nat
      <4>1. \A x \in Key : shipped[x] \in Nat
        BY <2>2 DEF Plan
      <4> HIDE DEF shipped
      <4> QED BY <4>1, TotalNat
    <3>3. k.product \in Product
      BY DEF Key
    <3> HIDE DEF shipped
    <3> QED BY <3>1, <3>2, <3>3
  <2>7. \A c \in charge' : c.date \in Int /\ c.date <= today'
    BY <1>5, <1>a, <1>c, <2>1
  <2>8. \A x \in Order : order'[x].dispatched_at = IF x = o THEN today ELSE order[x].dispatched_at
    BY <1>5 DEF Shipped
  <2> HIDE DEF shipped
  <2>9. ASSUME NEW x \in Order
        PROVE  /\ ChargedOn(x, Charges(x))'
               /\ \A p \in Product : /\ DispatchedPieces(x, p)' >= 0
                                     /\ Charges(x)' = {} => DispatchedPieces(x, p)' = 0
               /\ Charges(x)' # {} => \E p \in Product : DispatchedPieces(x, p)' > 0
    <3>a. /\ ChargedOn(x, Charges(x))
          /\ \A p \in Product : /\ DispatchedPieces(x, p) >= 0
                                /\ Charges(x) = {} => DispatchedPieces(x, p) = 0
          /\ Charges(x) # {} => \E p \in Product : DispatchedPieces(x, p) > 0
      BY DEF DispatchInv
    <3>1. CASE x # o
      <4>1. /\ Charges(x)' = Charges(x)
            /\ order'[x].dispatched_at = order[x].dispatched_at
        BY <2>3, <2>8, <3>1
      <4>2. ASSUME NEW p \in Product PROVE DispatchedPieces(x, p)' = DispatchedPieces(x, p)
        BY <1>b, <2>4, <3>1
      <4> QED BY <3>a, <4>1, <4>2 DEF ChargedOn
    <3>2. CASE x = o
      <4>1. e \in Charges(x)' /\ order'[x].dispatched_at = today
        BY <2>3, <2>8, <3>2
      <4>2. \A c \in Charges(x)' : c.date <= today
        <5>1. Charges(x)' \subseteq charge'
          BY DEF ChargesFor
        <5> QED BY <1>5, <2>7, <5>1
      <4>3. ChargedOn(x, Charges(x))'
        BY <2>1, <4>1, <4>2 DEF ChargedOn
      <4>4. ASSUME NEW p \in Product
            PROVE  /\ DispatchedPieces(x, p)' >= 0
                   /\ Total(shipped, p) > 0 => DispatchedPieces(x, p)' > 0
        <5>1. DispatchedPieces(x, p)' = DispatchedPieces(x, p) + Total(shipped, p)
          BY <2>4, <3>2
        <5>2. /\ DispatchedPieces(x, p) \in Int /\ Total(shipped, p) \in Nat
              /\ DispatchedPieces(x, p) >= 0
          <6>1. DispatchedPieces(x, p) \in Int
            BY <1>b
          <6>2. DispatchedPieces(x, p) >= 0
            BY <3>a
          <6> QED BY <2>5, <6>1, <6>2
        <5> QED BY <5>1, <5>2
      <4>5. \E p \in Product : DispatchedPieces(x, p)' > 0
        BY <2>6, <4>4
      <4> QED BY <4>1, <4>3, <4>4, <4>5
    <3> QED BY <3>1, <3>2
  <2> QED BY <2>7, <2>9 DEF DispatchInv
<1> QED BY <1>3, <1>4, <1>5, ChargesStepCases

LEMMA DispatchIsProperty == DispatchInv => ShipmentsAreCharged
<1> SUFFICES ASSUME DispatchInv, NEW o \in Order
             PROVE  LET charges == ChargesFor("DISPATCH_ORDER", OrderReference(o))
                    IN  /\ (\E p \in Product : DispatchedPieces(o, p) > 0) <=> charges # {}
                        /\ order[o].dispatched_at
                             = IF charges = {} THEN NoDay
                               ELSE CHOOSE d \in {c.date : c \in charges} :
                                      \A c \in charges : c.date <= d
  BY DEF ShipmentsAreCharged
<1> DEFINE charges == ChargesFor("DISPATCH_ORDER", OrderReference(o))
           at == order[o].dispatched_at
           Latest(d) == \A c \in charges : c.date <= d
<1>1. (\E p \in Product : DispatchedPieces(o, p) > 0) <=> charges # {}
  <2>1. charges # {} => \E p \in Product : DispatchedPieces(o, p) > 0
    BY DEF DispatchInv
  <2>2. ASSUME charges = {}, NEW p \in Product PROVE ~(DispatchedPieces(o, p) > 0)
    <3>1. DispatchedPieces(o, p) = 0
      BY <2>2 DEF DispatchInv
    <3> QED BY <3>1
  <2> QED BY <2>1, <2>2
<1>2. charges = {} => at = NoDay
  BY DEF DispatchInv, ChargedOn
<1>3. ASSUME charges # {}
      PROVE  at = CHOOSE d \in {c.date : c \in charges} : Latest(d)
  <2>1. /\ \E c \in charges : c.date = at
        /\ \A c \in charges : c.date <= at
    BY <1>3 DEF DispatchInv, ChargedOn
  <2>2. \A c \in charges : c.date \in Int
    BY DEF DispatchInv, ChargesFor
  <2>3. at \in {c.date : c \in charges} /\ Latest(at)
    BY <2>1
  <2>4. \A d \in {c.date : c \in charges} : Latest(d) => d = at
    <3> HIDE DEF charges, at
    <3> QED BY <2>1, <2>2
  <2> HIDE DEF charges, at, Latest
  <2> QED BY <2>3, <2>4
<1> HIDE DEF charges, at
<1> QED BY <1>1, <1>2, <1>3 DEF charges, at

\* Stock was shipped for an order exactly if the shipment was charged, and the
\* order carries the date of its latest charge, however often it is picked
\* into and dispatched from several locations on several days.
THEOREM ShippedStockIsCharged == OutboundSpec => []ShipmentsAreCharged
BY OutboundInvariant, DispatchInit, DispatchStep, DispatchIsProperty, PTL DEF OutboundSpec

-----------------------------------------------------------------------------
(* The stock of the house *)

OnHand(b) == [k \in Key |-> b[k].on_hand]

LEMMA HouseIsSum == \A b : StockInHouse(b) = SumFunctionOnSet(OnHand(b), Key)
BY DEF StockInHouse, SumFunction, OnHand

LEMMA HouseType ==
  ASSUME NEW b, Consistent(b)
  PROVE  (\A k \in Key : OnHand(b)[k] \in Int) /\ StockInHouse(b) \in Int
<1>1. \A k \in Key : OnHand(b)[k] \in Int
  BY DEF Consistent, Row, OnHand
<1>2. SumFunctionOnSet(OnHand(b), Key) \in Int
  BY <1>1, KeyFinite, SumInt
<1> QED BY <1>1, <1>2, HouseIsSum

\* A post changes the stock of the house by the sum of its delta.
LEMMA HouseOfPost ==
  ASSUME NEW b, Consistent(b), NEW d \in Delta
  PROVE  StockInHouse(Posted(b, d)) = StockInHouse(b) + SumFunctionOnSet(d, Key)
<1> DEFINE f == OnHand(b)
           g == OnHand(Posted(b, d))
<1>1. \A k \in Key : f[k] \in Int /\ d[k] \in Int /\ g[k] = f[k] + d[k]
  BY HouseType, PostedRow DEF Delta, OnHand
<1> HIDE DEF f, g
<1>2. SumFunctionOnSet(g, Key) = SumFunctionOnSet(f, Key) + SumFunctionOnSet(d, Key)
  BY <1>1, KeyFinite, SumPlus
<1> QED BY <1>2, HouseIsSum DEF f, g

LEMMA SumOfAt ==
  ASSUME NEW k \in Key, NEW q \in Int
  PROVE  SumFunctionOnSet(At(k, q), Key) = q
<1> DEFINE d == At(k, q)
<1>1. d[k] = q /\ d[k] \in Int /\ \A x \in Key \ {k} : d[x] = 0
  BY DEF At
<1> HIDE DEF d
<1>2. SumFunctionOnSet(d, Key) = d[k]
  BY <1>1, KeyFinite, SumSingle
<1> QED BY <1>1, <1>2 DEF d

\* A pick moves stock inside the house.
LEMMA HouseOfPick ==
  ASSUME Books, NEW o \in Order, NEW k \in Key, NEW to \in Location, NEW q \in Nat,
         ScanPick(o, k, to, q)
  PROVE  StockInHouse(balance') = StockInHouse(balance)
<1> DEFINE b == Released(k, q)
           c == Posted(b, At(k, -q))
<1>1. At(k, -q) \in Delta /\ At(Moved(k, to), q) \in Delta /\ Moved(k, to) \in Key
      /\ -q \in Int
  BY DeltaType, MovedType DEF Moved, Key
<1>2. Consistent(b)
  BY <1>1, ReleasedConsistent DEF ScanPick, CanPick, Books
<1>3. Consistent(c)
  BY <1>1, <1>2, PostedConsistent DEF ScanPick, CanMove
<1>4. StockInHouse(b) = StockInHouse(balance)
  <2>1. \A x \in Key : OnHand(b)[x] = OnHand(balance)[x]
    BY <1>1, AdjustReservedRow DEF Released, Books, OnHand
  <2> HIDE DEF b
  <2>2. SumFunctionOnSet(OnHand(b), Key) = SumFunctionOnSet(OnHand(balance), Key)
    BY <2>1, KeyFinite, SumAgree
  <2> QED BY <2>2, HouseIsSum
<1>5. balance' = Posted(c, At(Moved(k, to), q))
  BY DEF ScanPick, MovedBalance
<1> HIDE DEF b, c
<1>6. StockInHouse(c) = StockInHouse(b) - q
  <2>1. StockInHouse(c) = StockInHouse(b) + SumFunctionOnSet(At(k, -q), Key)
    BY <1>1, <1>2, HouseOfPost DEF c
  <2>2. SumFunctionOnSet(At(k, -q), Key) = -q
    BY <1>1, SumOfAt
  <2> QED BY <1>2, <2>1, <2>2, HouseType
<1>7. StockInHouse(balance') = StockInHouse(c) + q
  <2>1. SumFunctionOnSet(At(Moved(k, to), q), Key) = q
    BY <1>1, SumOfAt
  <2> QED BY <1>1, <1>3, <1>5, <2>1, HouseOfPost
<1>8. StockInHouse(b) \in Int
  BY <1>2, HouseType
<1> QED BY <1>4, <1>6, <1>7, <1>8

LEMMA HouseStep ==
  Books /\ OutboundTables /\ [OutboundNext]_outboundVars
    => /\ StockInHouse(balance') <= StockInHouse(balance)
       /\ StockInHouse(balance') < StockInHouse(balance) =>
            \E c \in charge' \ charge : c.type = "DISPATCH_ORDER"
<1> SUFFICES ASSUME Books, OutboundTables, [OutboundNext]_outboundVars
             PROVE  /\ StockInHouse(balance') <= StockInHouse(balance)
                    /\ StockInHouse(balance') < StockInHouse(balance) =>
                         \E c \in charge' \ charge : c.type = "DISPATCH_ORDER"
  OBVIOUS
<1>a. StockInHouse(balance) \in Int
  BY HouseType DEF Books
<1>0. StockInHouse(balance') = StockInHouse(balance)
        => /\ StockInHouse(balance') <= StockInHouse(balance)
           /\ ~(StockInHouse(balance') < StockInHouse(balance))
  BY <1>a
<1>1. CASE BooksKeep
  <2>1. \A k \in Key : OnHand(balance')[k] = OnHand(balance)[k]
    BY <1>1 DEF BooksKeep, OnHand
  <2>2. SumFunctionOnSet(OnHand(balance'), Key) = SumFunctionOnSet(OnHand(balance), Key)
    BY <2>1, KeyFinite, SumAgree
  <2> QED BY <1>0, <2>2, HouseIsSum
<1>2. ASSUME NEW o \in Order, NEW k \in Key, NEW to \in Location, NEW q \in Nat,
             ScanPick(o, k, to, q)
      PROVE  StockInHouse(balance') = StockInHouse(balance)
  BY <1>2, HouseOfPick
<1>3. ASSUME NEW o \in Order, NEW loc \in Location, ShipAndCharge(o, loc)
      PROVE  /\ StockInHouse(balance') <= StockInHouse(balance)
             /\ \E c \in charge' \ charge : c.type = "DISPATCH_ORDER"
  <2> DEFINE shipped == PickedInto(o, loc)
             d == Minus(PickedInto(o, loc))
             e == Event("DISPATCH_ORDER", OrderReference(o), 1)
  <2>1. /\ shipped \in Plan /\ d \in Delta
        /\ \A k \in Key : shipped[k] \in Nat /\ d[k] = -shipped[k] /\ shipped[k] \in Int
    BY PickedIntoType DEF Books, Plan, Minus
  <2>2. StockInHouse(balance') = StockInHouse(balance) + SumFunctionOnSet(d, Key)
    BY <1>3, <2>1, HouseOfPost DEF ShipAndCharge, Books
  <2>3. /\ ~Charged("DISPATCH_ORDER", OrderReference(o))
        /\ charge' = charge \cup {e}
    BY <1>3 DEF ShipAndCharge, AddCharge
  <2>4. e \notin charge /\ e.type = "DISPATCH_ORDER"
    BY <2>3 DEF Charged, Event
  <2> HIDE DEF shipped, d, e
  <2>5. SumFunctionOnSet(d, Key) = -SumFunctionOnSet(shipped, Key)
    BY <2>1, KeyFinite, SumMinus
  <2>6. SumFunctionOnSet(shipped, Key) \in Nat
    BY <2>1, KeyFinite, SumNat
  <2>7. StockInHouse(balance') <= StockInHouse(balance)
    BY <1>a, <2>2, <2>5, <2>6
  <2> QED BY <2>3, <2>4, <2>7
<1> QED BY <1>0, <1>1, <1>2, <1>3, BooksStepCases

\* Whatever is picked and shipped, and wherever a picker puts it: the stock of
\* the house never grows, and shrinks only in a step that charges a dispatch.
THEOREM StockLeavesCharged == OutboundSpec => StockLeavesOnlyCharged
BY OutboundInvariant, HouseStep, PTL DEF OutboundSpec, StockLeavesOnlyCharged

-----------------------------------------------------------------------------
(* Totals over the lines of an order *)

LineField == {"requested", "reserved", "picked"}
Column(ls, p, field) ==
  [i \in DOMAIN ls |-> IF ls[i].product = p THEN ls[i][field] ELSE 0]
LineSum(ls, p, field) == SumFunctionOnSet(Column(ls, p, field), DOMAIN ls)

LEMMA LineTotalIsSum ==
  \A o, p, field : /\ LineTotal(o, p, field) = LineSum(line[o], p, field)
                   /\ LineTotal(o, p, field)' = LineSum(line'[o], p, field)
BY DEF LineTotal, LineSum, Column, SumFunction

LEMMA ColumnType ==
  ASSUME NEW ls \in Seq(Line), NEW p, NEW field \in LineField
  PROVE  /\ IsFiniteSet(DOMAIN ls)
         /\ \A i \in DOMAIN ls : Column(ls, p, field)[i] \in Nat
<1>1. DOMAIN ls = 1 .. Len(ls) /\ Len(ls) \in Nat
  OBVIOUS
<1>2. IsFiniteSet(1 .. Len(ls))
  BY <1>1, FS_Interval
<1>3. ASSUME NEW i \in DOMAIN ls PROVE ls[i][field] \in Nat
  <2>1. ls[i] \in Line
    BY <1>1
  <2>2. /\ ls[i]["requested"] \in Nat /\ ls[i]["reserved"] \in Nat /\ ls[i]["picked"] \in Nat
    BY <2>1 DEF Line
  <2> QED BY <2>2 DEF LineField
<1> QED BY <1>1, <1>2, <1>3 DEF Column

LEMMA LineSumType ==
  ASSUME NEW ls \in Seq(Line), NEW p, NEW field \in LineField
  PROVE  LineSum(ls, p, field) \in Nat
BY ColumnType, SumNat DEF LineSum

\* Lines that name the same products and quantities have the same totals.
LEMMA LineSumAgree ==
  ASSUME NEW ls \in Seq(Line), NEW ms, DOMAIN ms = DOMAIN ls, NEW p, NEW field \in LineField,
         \A i \in DOMAIN ls : ms[i].product = ls[i].product /\ ms[i][field] = ls[i][field]
  PROVE  LineSum(ms, p, field) = LineSum(ls, p, field)
<1>1. \A i \in DOMAIN ls : Column(ms, p, field)[i] = Column(ls, p, field)[i]
  BY DEF Column
<1> QED BY <1>1, ColumnType, SumAgree DEF LineSum

LEMMA LineSumZero ==
  ASSUME NEW ls \in Seq(Line), NEW p, NEW field \in LineField,
         \A i \in DOMAIN ls : ls[i][field] = 0
  PROVE  LineSum(ls, p, field) = 0
<1>1. \A i \in DOMAIN ls : Column(ls, p, field)[i] = 0
  BY DEF Column
<1> QED BY <1>1, ColumnType, SumZero DEF LineSum

\* A pick counted by line i raises the picked total of its product.
LEMMA LineSumCounted ==
  ASSUME NEW ls \in Seq(Line), NEW i \in DOMAIN ls, NEW q \in Nat, NEW p
  PROVE  LET ms == [ls EXCEPT ![i].picked = @ + q]
         IN  /\ LineSum(ms, p, "picked")
                  = LineSum(ls, p, "picked") + (IF ls[i].product = p THEN q ELSE 0)
             /\ LineSum(ms, p, "requested") = LineSum(ls, p, "requested")
             /\ LineSum(ms, p, "reserved") = LineSum(ls, p, "reserved")
<1> DEFINE ms == [ls EXCEPT ![i].picked = @ + q]
           f == Column(ls, p, "picked")
           g == Column(ms, p, "picked")
<1>1. ms \in Seq(Line)
  BY CountedLines
<1>2. \A j \in DOMAIN ls : ls[j] \in Line
  OBVIOUS
<1>3. /\ DOMAIN ms = DOMAIN ls
      /\ \A j \in DOMAIN ls : /\ ms[j].product = ls[j].product
                              /\ ms[j].requested = ls[j].requested
                              /\ ms[j].reserved = ls[j].reserved
                              /\ ms[j].picked = ls[j].picked + (IF j = i THEN q ELSE 0)
  BY <1>2 DEF Line
<1> HIDE DEF ms
<1>4. LineSum(ms, p, "requested") = LineSum(ls, p, "requested")
      /\ LineSum(ms, p, "reserved") = LineSum(ls, p, "reserved")
  BY <1>3, LineSumAgree DEF LineField
<1>5. "picked" \in LineField
  BY DEF LineField
<1>6. /\ IsFiniteSet(DOMAIN ls)
      /\ \A j \in DOMAIN ls : f[j] \in Nat /\ g[j] \in Nat
  BY <1>1, <1>3, <1>5, ColumnType
<1>7. /\ \A j \in DOMAIN ls \ {i} : f[j] = g[j]
      /\ g[i] = f[i] + (IF ls[i].product = p THEN q ELSE 0)
  BY <1>2, <1>3 DEF Column, Line
<1> HIDE DEF f, g
<1>8. SumFunctionOnSet(g, DOMAIN ls) = SumFunctionOnSet(f, DOMAIN ls) + (g[i] - f[i])
  BY <1>6, <1>7, SumChange
<1>9. SumFunctionOnSet(f, DOMAIN ls) \in Nat
  BY <1>6, SumNat
<1>10. LineSum(ms, p, "picked")
         = LineSum(ls, p, "picked") + (IF ls[i].product = p THEN q ELSE 0)
  BY <1>3, <1>6, <1>7, <1>8, <1>9 DEF LineSum, f, g
<1> QED BY <1>4, <1>10 DEF ms

-----------------------------------------------------------------------------
(* Three records of the same picks *)

LEMMA TaskTotalType ==
  ASSUME OutboundTables, NEW o \in Order, NEW p
  PROVE  Total(task[o].picked, p) \in Nat /\ Total(reservation[o], p) \in Nat
<1>1. \A k \in Key : task[o].picked[k] \in Nat /\ reservation[o][k] \in Nat
  BY DEF OutboundTables, TaskRow, Plan
<1> QED BY <1>1, TotalNat

LEMMA NothingIsZero == \A p : Total(Nothing, p) = 0
<1>1. \A k \in Key : Nothing[k] = 0
  BY DEF Nothing
<1> QED BY <1>1, TotalZero

\* A new order has lines that nothing was reserved or picked for.
LEMMA NewLines ==
  ASSUME OutboundTables, NEW o \in Order, NEW form \in OrderForm, NEW status,
         CreateOutbound(o, form, status), NEW p
  PROVE  /\ line'[o] \in Seq(Line)
         /\ LineSum(line'[o], p, "reserved") = 0
         /\ LineSum(line'[o], p, "picked") = 0
<1> DEFINE ls == [i \in DOMAIN form |-> [product |-> form[i].product, requested |-> form[i].qty,
                                         reserved |-> 0, picked |-> 0]]
<1>1. ls \in Seq(Line)
  BY FormsToLines
<1>2. line'[o] = ls
  BY DEF CreateOutbound, OutboundTables
<1>3. \A i \in DOMAIN ls : ls[i]["reserved"] = 0 /\ ls[i]["picked"] = 0
  OBVIOUS
<1> HIDE DEF ls
<1>4. LineSum(ls, p, "reserved") = 0 /\ LineSum(ls, p, "picked") = 0
  BY <1>1, <1>3, LineSumZero DEF LineField
<1> QED BY <1>1, <1>2, <1>4

\* What approval writes into the lines of its order.
LEMMA ApprovedLines ==
  ASSUME OutboundTables, NEW o \in Order, ApproveOutbound(o), NEW p
  PROVE  /\ LineSum(line'[o], p, "requested") = LineSum(line[o], p, "requested")
         /\ LineSum(line'[o], p, "picked") = LineSum(line[o], p, "picked")
<1> DEFINE ls == line[o]
           ms == [i \in DOMAIN ls |-> [ls[i] EXCEPT !.reserved = @ + Positive(StillNeeded(ls[i]))]]
<1>1. ls \in Seq(Line)
  BY DEF OutboundTables
<1>2. line'[o] = ms
  BY DEF ApproveOutbound, OutboundTables
<1>3. \A i \in DOMAIN ls : ls[i] \in Line
  BY <1>1
<1>4. /\ DOMAIN ms = DOMAIN ls
      /\ \A i \in DOMAIN ls : /\ ms[i].product = ls[i].product
                              /\ ms[i]["requested"] = ls[i]["requested"]
                              /\ ms[i]["picked"] = ls[i]["picked"]
  BY <1>3 DEF Line
<1> HIDE DEF ls, ms
<1>5. LineSum(ms, p, "requested") = LineSum(ls, p, "requested")
      /\ LineSum(ms, p, "picked") = LineSum(ls, p, "picked")
  BY <1>1, <1>4, LineSumAgree DEF LineField
<1> QED BY <1>2, <1>5 DEF ls

LEMMA PicksInit == OutboundInit => PicksAreAccounted
<1> SUFFICES ASSUME OutboundInit, NEW o \in Order, NEW p \in Product
             PROVE  /\ LineTotal(o, p, "picked") = Total(task[o].picked, p)
                    /\ LineTotal(o, p, "picked") = PickedPieces(o, p)
  BY DEF PicksAreAccounted
<1>1. line[o] = <<>> /\ task[o].picked = Nothing
  BY DEF OutboundInit, NoTask
<1>2. LineSum(<<>>, p, "picked") = 0
  <2>1. <<>> \in Seq(Line) /\ DOMAIN <<>> = {}
    OBVIOUS
  <2>2. SumFunctionOnSet(Column(<<>>, p, "picked"), {}) = 0
    BY SumEmpty
  <2> QED BY <2>1, <2>2 DEF LineSum
<1>3. PickedPieces(o, p) = 0
  <2>1. OrderReference(o) \in Reference /\ OrderReference(o) # OpeningReference
    BY OutboundAssumption
  <2>2. \A k \in Key : InOf(ledger, OrderReference(o))[k] = 0
    BY <2>1 DEF OutboundInit, InOf
  <2>3. Total(InOf(ledger, OrderReference(o)), p) = 0
    BY <2>2, TotalZero
  <2> QED BY <2>3 DEF PickedPieces, InOf
<1> QED BY <1>1, <1>2, <1>3, LineTotalIsSum, NothingIsZero

LEMMA PicksStep ==
  Books /\ OutboundTables /\ TasksFollow /\ PicksAreAccounted /\ [OutboundNext]_outboundVars
    => PicksAreAccounted'
<1> SUFFICES ASSUME Books, OutboundTables, TasksFollow, PicksAreAccounted,
                    [OutboundNext]_outboundVars
             PROVE  PicksAreAccounted'
  OBVIOUS
<1> DEFINE Counted(x, p) == LineSum(line[x], p, "picked")
           Listed(x, p) == Total(task[x].picked, p)
<1>a. \A x \in Order, p \in Product :
        /\ Counted(x, p) = Listed(x, p) /\ Listed(x, p) = PickedPieces(x, p)
        /\ Counted(x, p) \in Nat
  BY LineTotalIsSum, TaskTotalType DEF PicksAreAccounted
<1>b. /\ order \in [Order -> OrderRow] /\ task \in [Order -> TaskRow]
      /\ line \in [Order -> Seq(Line)]
  BY DEF OutboundTables
<1>c. ASSUME \A x \in Order, p \in Product :
               Counted(x, p)' = Listed(x, p)' /\ Listed(x, p)' = PickedPieces(x, p)'
      PROVE  PicksAreAccounted'
  <2>1. \A x \in Order, p \in Product :
          /\ LineTotal(x, p, "picked")' = Total(task[x].picked, p)'
          /\ LineTotal(x, p, "picked")' = PickedPieces(x, p)'
    BY <1>c, LineTotalIsSum
  <2> QED BY <2>1 DEF PicksAreAccounted
<1>d. BooksKeep => \A x, p : PickedPieces(x, p)' = PickedPieces(x, p)
  BY DEF BooksKeep, PickedPieces
<1>0. ASSUME \A x \in Order, p \in Product : PickedPieces(x, p)' = PickedPieces(x, p),
             \A x \in Order : /\ line'[x] = line[x]
                              /\ task'[x].picked = task[x].picked
      PROVE  PicksAreAccounted'
  BY <1>0, <1>a, <1>c
<1>e. ASSUME UNCHANGED stockVars PROVE \A x \in Order, p \in Product : PickedPieces(x, p)' = PickedPieces(x, p)
  BY <1>e DEF PickedPieces, stockVars
<1>1. ASSUME NEW o \in Order, NEW form \in OrderForm, NEW status \in {"DRAFT", "SUBMITTED"},
             CreateOutbound(o, form, status)
      PROVE  PicksAreAccounted'
  <2>1. task[o].picked = Nothing
    BY <1>1 DEF CreateOutbound, TasksFollow, NoTask
  <2>2. \A p \in Product : Counted(o, p)' = 0 /\ Listed(o, p) = 0
    BY <1>1, <2>1, NewLines, NothingIsZero
  <2>3. /\ UNCHANGED <<task, ledger>>
        /\ \A x \in Order \ {o} : line'[x] = line[x]
    BY <1>1, <1>b DEF CreateOutbound, stockVars
  <2>4. \A x \in Order, p \in Product :
          PickedPieces(x, p)' = PickedPieces(x, p) /\ Listed(x, p)' = Listed(x, p)
    BY <2>3 DEF PickedPieces
  <2>5. \A x \in Order, p \in Product : Counted(x, p)' = Listed(x, p)
    <3> SUFFICES ASSUME NEW x \in Order, NEW p \in Product PROVE Counted(x, p)' = Listed(x, p)
      OBVIOUS
    <3>1. CASE x = o
      BY <2>2, <3>1
    <3>2. CASE x # o
      BY <1>a, <2>3, <3>2
    <3> QED BY <3>1, <3>2
  <2> HIDE DEF Counted, Listed
  <2> QED BY <1>a, <1>c, <2>4, <2>5
<1>2. ASSUME NEW o \in Order, ApproveOutbound(o) PROVE PicksAreAccounted'
  <2>1. /\ UNCHANGED <<task, ledger>>
        /\ \A x \in Order \ {o} : line'[x] = line[x]
    BY <1>2, <1>b DEF ApproveOutbound
  <2>2. \A x \in Order, p \in Product :
          PickedPieces(x, p)' = PickedPieces(x, p) /\ Listed(x, p)' = Listed(x, p)
    BY <2>1 DEF PickedPieces
  <2>3. \A x \in Order, p \in Product : Counted(x, p)' = Counted(x, p)
    BY <1>2, <2>1, ApprovedLines
  <2> HIDE DEF Counted, Listed
  <2> QED BY <1>a, <1>c, <2>2, <2>3
<1>3. ASSUME NEW o \in Order, GeneratePicks(o) PROVE PicksAreAccounted'
  <2>1. /\ task[o].picked = Nothing
        /\ task' = [task EXCEPT ![o] = [status |-> "OPEN", to_pick |-> reservation[o],
                                        picked |-> Nothing]]
        /\ UNCHANGED <<stockVars, line>>
    BY <1>3 DEF GeneratePicks, TasksFollow, NoTask
  <2>2. \A x \in Order : task'[x].picked = task[x].picked
    BY <1>b, <2>1
  <2> QED BY <1>0, <1>e, <2>1, <2>2
<1>4. ASSUME NEW o \in Order, StartTask(o) \/ CompleteTask(o) PROVE PicksAreAccounted'
  <2>1. /\ UNCHANGED <<stockVars, line>>
        /\ \E status \in {"IN_PROGRESS", "DONE"} : task' = [task EXCEPT ![o].status = status]
    BY <1>4 DEF StartTask, CompleteTask
  <2>2. \A x \in Order : task'[x].picked = task[x].picked
    BY <1>b, <2>1 DEF TaskRow
  <2> QED BY <1>0, <1>e, <2>1, <2>2
<1>5. ASSUME NEW o \in Order, NEW k \in Key, NEW to \in Location, NEW q \in Nat,
             ScanPick(o, k, to, q)
      PROVE  PicksAreAccounted'
  <2> SUFFICES ASSUME NEW x \in Order, NEW p \in Product
               PROVE  Counted(x, p)' = Listed(x, p)' /\ Listed(x, p)' = PickedPieces(x, p)'
    BY <1>c
  <2> DEFINE n == IF x = o /\ k.product = p THEN q ELSE 0
  <2>1. PickedPieces(x, p)' = PickedPieces(x, p) + n
    BY <1>5, PickFlows
  <2>2. Counted(x, p)' = Counted(x, p) + n
    <3>1. PICK i \in DOMAIN line[o] : /\ line[o][i].product = k.product
                                      /\ line' = [line EXCEPT ![o][i].picked = @ + q]
      BY <1>5 DEF ScanPick, CountPick
    <3>2. CASE x = o
      <4>1. line'[o] = [line[o] EXCEPT ![i].picked = @ + q] /\ line[o] \in Seq(Line)
        BY <1>b, <3>1
      <4>2. LineSum([line[o] EXCEPT ![i].picked = @ + q], p, "picked")
              = LineSum(line[o], p, "picked") + (IF line[o][i].product = p THEN q ELSE 0)
        BY <4>1, LineSumCounted
      <4> QED BY <3>1, <3>2, <4>1, <4>2
    <3>3. CASE x # o
      <4>1. line'[x] = line[x]
        BY <1>b, <3>1, <3>3
      <4> QED BY <1>a, <3>3, <4>1
    <3> QED BY <3>2, <3>3
  <2>3. Listed(x, p)' = Listed(x, p) + n
    <3>1. task' = [task EXCEPT ![o].picked[k] = @ + q]
      BY <1>5 DEF ScanPick
    <3>2. CASE x = o
      <4> DEFINE f == task[o].picked
                 g == task'[o].picked
      <4>1. f \in Plan /\ g = [f EXCEPT ![k] = @ + q]
        BY <1>b, <3>1 DEF TaskRow
      <4> HIDE DEF f, g
      <4>2. \A z \in Key : f[z] \in Int /\ g[z] = f[z] + (IF z = k THEN q ELSE 0)
        BY <4>1 DEF Plan
      <4>3. Total(g, p) = Total(f, p) + (IF k.product = p THEN q ELSE 0)
        BY <4>2, TotalRaised
      <4> QED BY <3>2, <4>3 DEF f, g
    <3>3. CASE x # o
      <4>1. task'[x] = task[x]
        BY <1>b, <3>1, <3>3
      <4>2. Listed(x, p) \in Nat
        BY TaskTotalType
      <4> QED BY <3>3, <4>1, <4>2
    <3> QED BY <3>2, <3>3
  <2> HIDE DEF n, Counted, Listed
  <2> QED BY <1>a, <2>1, <2>2, <2>3
<1>6. ASSUME NEW o \in Order, PackingConfirm(o) PROVE PicksAreAccounted'
  BY <1>0, <1>6, <1>e DEF PackingConfirm
<1>7. ASSUME NEW o \in Order, NEW loc \in Location, DispatchConfirm(o, loc)
      PROVE  PicksAreAccounted'
  <2>1. UNCHANGED <<line, task>>
    BY <1>7 DEF DispatchConfirm
  <2>2. \A x \in Order, p \in Product : PickedPieces(x, p)' = PickedPieces(x, p)
    <3>1. CASE ShipAndCharge(o, loc)
      BY <3>1, ShipFlows
    <3>2. CASE ShipAndRollBack(o)
      BY <1>e, <3>2 DEF ShipAndRollBack
    <3> QED BY <1>7, <3>1, <3>2 DEF DispatchConfirm
  <2> QED BY <1>0, <2>1, <2>2
<1>8. CASE NextDay /\ UNCHANGED orderVars
  BY <1>0, <1>8, <1>e DEF NextDay, orderVars
<1>9. CASE UNCHANGED outboundVars
  BY <1>0, <1>9, <1>e DEF outboundVars, stockVars
<1>10. 1 .. MaxQty \subseteq Nat
  BY SchemaAssumption
<1> QED
  BY <1>1, <1>2, <1>3, <1>4, <1>5, <1>6, <1>7, <1>8, <1>9, <1>10
  DEF OutboundNext, OutboundRequest

LEMMA PicksInvariant == OutboundSpec => []PicksAreAccounted
BY OutboundInvariant, TasksInvariant, PicksInit, PicksStep, PTL DEF OutboundSpec

\* The outbound lines, the task lines and the ledger record the same picks of
\* every order and product, however many lines and rows it is spread over.
THEOREM PicksAreRecordedAlike == OutboundSpec => []PicksAreAccounted
BY PicksInvariant, PTL

-----------------------------------------------------------------------------
(* What approval takes for the lines of an order *)

\* One line's takings: from available rows of its product, as much as asked
\* for, and from no row before those that expire earlier are empty.
LEMMA TakingsFacts ==
  ASSUME NEW b, Consistent(b), NEW p, NEW q \in Nat, NEW u \in Takings(b, p, q)
  PROVE  /\ u \in Plan
         /\ \A k \in Key : u[k] <= b[k].available
         /\ \A k \in Key : u[k] > 0 => k \in Candidates(b, p)
         /\ \A j, k \in Candidates(b, p) :
              u[k] > 0 /\ Expiry[j.batch] < Expiry[k.batch] => u[j] = b[j].available
         /\ \A r : Total(u, r) = IF r = p THEN q ELSE 0
<1> DEFINE cand == Candidates(b, p)
<1>1. PICK t \in [cand -> 0 .. q] :
        /\ u = [k \in Key |-> IF k \in cand THEN t[k] ELSE 0]
        /\ SumFunction(t) = q
        /\ \A k \in cand : t[k] <= b[k].available
        /\ InExpiryOrder(b, t)
  BY DEF Takings
<1>2. cand \subseteq Key /\ \A k \in cand : k.product = p
  BY DEF Candidates
<1>3. \A k \in Key : b[k].available \in Nat
  BY DEF Consistent, Row
<1> HIDE DEF cand
<1>4. \A k \in cand : t[k] \in Nat
  BY <1>1
<1>5. u \in Plan
  BY <1>1, <1>2, <1>4 DEF Plan
<1>6. \A k \in Key : u[k] <= b[k].available
  BY <1>1, <1>2, <1>3
<1>7. \A k \in Key : u[k] > 0 => k \in cand
  BY <1>1
<1>8. \A j, k \in cand :
        u[k] > 0 /\ Expiry[j.batch] < Expiry[k.batch] => u[j] = b[j].available
  BY <1>1, <1>2 DEF InExpiryOrder
<1>9. ASSUME NEW r PROVE Total(u, r) = IF r = p THEN q ELSE 0
  <2>1. \A k \in Key : u[k] \in Int
    BY <1>5 DEF Plan
  <2>2. CASE r = p
    <3>1. cand \in SUBSET KeysOf(p)
      BY <1>2 DEF KeysOf
    <3>2. \A k \in KeysOf(p) \ cand : u[k] = 0
      BY <1>1 DEF KeysOf
    <3>3. SumFunctionOnSet(u, KeysOf(p)) = SumFunctionOnSet(u, cand)
      BY <1>2, <2>1, <3>1, <3>2, KeysOfFinite, SumSupport
    <3>4. IsFiniteSet(cand)
      BY <1>2, KeyFinite, FS_Subset
    <3>5. \A k \in cand : u[k] = t[k]
      BY <1>1, <1>2
    <3>6. SumFunctionOnSet(u, cand) = SumFunctionOnSet(t, cand)
      BY <3>4, <3>5, SumAgree
    <3>7. SumFunctionOnSet(t, cand) = q
      BY <1>1 DEF SumFunction
    <3> QED BY <2>2, <3>3, <3>6, <3>7 DEF Total, KeysOf
  <2>3. CASE r # p
    <3>1. \A k \in KeysOf(r) : u[k] = 0
      BY <1>1, <1>2, <2>3 DEF KeysOf
    <3>2. SumFunctionOnSet(u, KeysOf(r)) = 0
      BY <3>1, KeysOfFinite, SumZero
    <3> QED BY <2>3, <3>2 DEF Total, KeysOf
  <2> QED BY <2>2, <2>3
<1> QED BY <1>5, <1>6, <1>7, <1>8, <1>9 DEF cand

\* OrderTakings is the last entry of a table with an entry per line.
NextTakings(b, t, l) ==
  IF StillNeeded(l) <= 0 THEN {t}
  ELSE {Plus(t, u) : u \in Takings(AdjustReserved(b, t), l.product, StillNeeded(l))}
IsTakingsTable(g, b, ls, n) ==
  g = [i \in 0 .. n |->
         IF i = 0 THEN {Nothing} ELSE UNION {NextTakings(b, t, ls[i]) : t \in g[i - 1]}]
TakingsTable(b, ls) == CHOOSE g : IsTakingsTable(g, b, ls, Len(ls))

LEMMA OrderTakingsFromTable ==
  \A o : OrderTakings(o) = TakingsTable(balance, line[o])[Len(line[o])]
BY DEF OrderTakings, TakingsTable, IsTakingsTable, NextTakings

LEMMA TakingsTableExists ==
  ASSUME NEW b, NEW ls, NEW n \in Nat
  PROVE  \E g : IsTakingsTable(g, b, ls, n)
<1> DEFINE Good(m) == \E g : IsTakingsTable(g, b, ls, m)
           T == {m \in Nat : ~Good(m)}
<1>1. Good(0)
  <2> DEFINE g == [i \in 0 .. 0 |-> {Nothing}]
  <2>1. IsTakingsTable(g, b, ls, 0)
    BY DEF IsTakingsTable
  <2> QED BY <2>1
<1>2. ASSUME NEW m \in Nat, m # 0, Good(m - 1) PROVE Good(m)
  <2>1. PICK g : IsTakingsTable(g, b, ls, m - 1)
    BY <1>2
  <2> DEFINE last == UNION {NextTakings(b, t, ls[m]) : t \in g[m - 1]}
             h == [i \in 0 .. m |-> IF i = m THEN last ELSE g[i]]
  <2>2. \A i \in 0 .. m - 1 :
          g[i] = IF i = 0 THEN {Nothing} ELSE UNION {NextTakings(b, t, ls[i]) : t \in g[i - 1]}
    BY <2>1 DEF IsTakingsTable
  <2>3. ASSUME NEW i \in 0 .. m
        PROVE  h[i] = IF i = 0 THEN {Nothing} ELSE UNION {NextTakings(b, t, ls[i]) : t \in h[i - 1]}
    <3>1. i # 0 => i - 1 \in 0 .. m /\ i - 1 # m /\ h[i - 1] = g[i - 1]
      BY <1>2
    <3>2. CASE i = m
      BY <1>2, <3>1, <3>2
    <3>3. CASE i # m
      <4>1. i \in 0 .. m - 1 /\ h[i] = g[i]
        BY <1>2, <3>3
      <4> HIDE DEF h
      <4> QED BY <2>2, <3>1, <4>1
    <3> QED BY <3>2, <3>3
  <2>4. h = [i \in 0 .. m |-> h[i]]
    OBVIOUS
  <2> HIDE DEF h
  <2>5. IsTakingsTable(h, b, ls, m)
    BY <2>3, <2>4 DEF IsTakingsTable
  <2> QED BY <2>5
<1> HIDE DEF Good
<1>3. ASSUME T # {} PROVE FALSE
  <2>1. PICK m \in T : \A x \in T : m <= x
    BY <1>3, LeastNatural
  <2>2. m \in Nat /\ ~Good(m) /\ m # 0
    BY <1>1
  <2>3. m - 1 \in Nat /\ m - 1 \notin T
    BY <2>1, <2>2
  <2> QED BY <1>2, <2>2, <2>3
<1> QED BY <1>3 DEF Good

\* Induction over the lines: what holds of nothing taken, and is kept by the
\* takings of one more line, holds of what is taken for all of them.
LEMMA TakingsOfAllLines ==
  ASSUME NEW b, NEW ls, Len(ls) \in Nat, NEW I,
         Nothing \in I[0],
         \A i \in 1 .. Len(ls) : \A t \in I[i - 1] : NextTakings(b, t, ls[i]) \subseteq I[i]
  PROVE  TakingsTable(b, ls)[Len(ls)] \subseteq I[Len(ls)]
<1> DEFINE n == Len(ls)
           g == TakingsTable(b, ls)
           T == {i \in 0 .. n : ~(g[i] \subseteq I[i])}
<1>1. IsTakingsTable(g, b, ls, n)
  BY TakingsTableExists DEF TakingsTable
<1> HIDE DEF g
<1>2. \A i \in 0 .. n :
        g[i] = IF i = 0 THEN {Nothing} ELSE UNION {NextTakings(b, t, ls[i]) : t \in g[i - 1]}
  BY <1>1 DEF IsTakingsTable
<1>3. ASSUME T # {} PROVE FALSE
  <2>1. T \subseteq Nat
    OBVIOUS
  <2>2. PICK i \in T : \A x \in T : i <= x
    BY <1>3, <2>1, LeastNatural
  <2>3. i # 0
    BY <1>2, <2>2
  <2>4. i \in 1 .. n /\ i - 1 \in 0 .. n /\ i - 1 \notin T
    BY <2>2, <2>3
  <2>5. g[i - 1] \subseteq I[i - 1]
    BY <2>4
  <2>6. ASSUME NEW x \in g[i] PROVE x \in I[i]
    <3>1. g[i] = UNION {NextTakings(b, t, ls[i]) : t \in g[i - 1]}
      BY <1>2, <2>2, <2>3
    <3>2. PICK t \in g[i - 1] : x \in NextTakings(b, t, ls[i])
      BY <3>1
    <3> QED BY <2>4, <2>5, <3>2
  <2> QED BY <2>2, <2>6
<1>4. n \in 0 .. n
  OBVIOUS
<1> QED BY <1>3, <1>4 DEF g

\* What the lines up to i still need of p.
Needs(ls, p) ==
  [i \in DOMAIN ls |-> IF ls[i].product = p THEN Positive(StillNeeded(ls[i])) ELSE 0]
NeedUpTo(ls, p, i) == SumFunctionOnSet(Needs(ls, p), 1 .. i)

LEMMA NeedsStep ==
  ASSUME NEW ls \in Seq(Line), NEW p, NEW i \in 1 .. Len(ls)
  PROVE  /\ NeedUpTo(ls, p, 0) = 0
         /\ Needs(ls, p)[i] \in Nat
         /\ NeedUpTo(ls, p, i - 1) \in Nat
         /\ NeedUpTo(ls, p, i) = NeedUpTo(ls, p, i - 1) + Needs(ls, p)[i]
<1>1. DOMAIN ls = 1 .. Len(ls) /\ Len(ls) \in Nat /\ \A j \in 1 .. Len(ls) : ls[j] \in Line
  OBVIOUS
<1>2. ASSUME NEW j \in 1 .. Len(ls) PROVE Needs(ls, p)[j] \in Nat
  <2>1. ls[j].requested \in Nat /\ ls[j].reserved \in Nat
    BY <1>1 DEF Line
  <2> QED BY <1>1, <2>1 DEF Needs, Positive, StillNeeded
<1> DEFINE f == Needs(ls, p)
<1> HIDE DEF f
<1>3. 1 .. 0 = {} /\ (1 .. i) \ {i} = 1 .. i - 1 /\ i \in 1 .. i /\ 1 .. i \subseteq 1 .. Len(ls)
  BY <1>1
<1>4. IsFiniteSet(1 .. i) /\ IsFiniteSet(1 .. i - 1)
  BY <1>1, FS_Interval
<1>5. SumFunctionOnSet(f, {}) = 0
  BY SumEmpty
<1>6. \A j \in 1 .. i : f[j] \in Nat
  BY <1>2, <1>3 DEF f
<1>7. SumFunctionOnSet(f, 1 .. i) = f[i] + SumFunctionOnSet(f, (1 .. i) \ {i})
  BY <1>3, <1>4, <1>6, SumAny
<1>8. SumFunctionOnSet(f, 1 .. i - 1) \in Nat
  BY <1>3, <1>4, <1>6, SumNat
<1>9. f[i] \in Nat
  BY <1>3, <1>6
<1>10. SumFunctionOnSet(f, 1 .. i) = SumFunctionOnSet(f, 1 .. i - 1) + f[i]
  <2>1. SumFunctionOnSet(f, 1 .. i) = f[i] + SumFunctionOnSet(f, 1 .. i - 1)
    BY <1>3, <1>7
  <2> QED BY <1>8, <1>9, <2>1
<1> QED BY <1>3, <1>5, <1>8, <1>9, <1>10 DEF f, NeedUpTo

\* Nothing is available that expires before something of the same product
\* that was taken.
TakenInExpiryOrder(b, t) ==
  \A j, k \in Key :
    /\ t[k] > 0 /\ Promisable(j) /\ j.product = k.product
    /\ Expiry[j.batch] < Expiry[k.batch]
    => t[j] = b[j].available

\* Taken for the first i lines.
TakenFor(b, ls, i) ==
  {t \in Plan : /\ \A k \in Key : t[k] <= b[k].available
                /\ \A p : Total(t, p) = NeedUpTo(ls, p, i)
                /\ TakenInExpiryOrder(b, t)}

LEMMA NextLineTakes ==
  ASSUME NEW b, Consistent(b), NEW ls \in Seq(Line), NEW i \in 1 .. Len(ls),
         NEW t \in TakenFor(b, ls, i - 1)
  PROVE  NextTakings(b, t, ls[i]) \subseteq TakenFor(b, ls, i)
<1> DEFINE l == ls[i]
           q == StillNeeded(l)
           c == AdjustReserved(b, t)
<1>1. l \in Line /\ q \in Int /\ l.product \in Product /\ i \in DOMAIN ls
  <2>1. ls[i] \in Line /\ i \in DOMAIN ls
    OBVIOUS
  <2> QED BY <2>1 DEF Line, StillNeeded
<1>2. t \in Plan /\ t \in Delta /\ \A k \in Key : t[k] \in Nat /\ t[k] <= b[k].available
  BY PlanIsDelta DEF TakenFor, Plan
<1>3. \A k \in Key : /\ b[k].available \in Nat /\ b[k].reserved \in Nat /\ b[k].on_hand \in Nat
                     /\ b[k].available = b[k].on_hand - b[k].reserved
  BY DEF Consistent, Row
<1>4. CanAdjustReserved(b, t)
  BY <1>2, <1>3 DEF CanAdjustReserved
<1>5. Consistent(c)
  BY <1>2, <1>4, AdjustReservedConsistent
<1>6. \A k \in Key : c[k].available = b[k].available - t[k]
  BY <1>2, AdjustReservedRow
<1>7. \A p : /\ Needs(ls, p)[i] = IF l.product = p THEN Positive(q) ELSE 0
             /\ NeedUpTo(ls, p, i - 1) \in Nat
             /\ NeedUpTo(ls, p, i) = NeedUpTo(ls, p, i - 1) + Needs(ls, p)[i]
             /\ Total(t, p) = NeedUpTo(ls, p, i - 1)
  <2>1. \A p : Needs(ls, p)[i] = IF l.product = p THEN Positive(q) ELSE 0
    BY <1>1 DEF Needs
  <2>2. \A p : /\ NeedUpTo(ls, p, i - 1) \in Nat
               /\ NeedUpTo(ls, p, i) = NeedUpTo(ls, p, i - 1) + Needs(ls, p)[i]
    BY NeedsStep
  <2>3. \A p : Total(t, p) = NeedUpTo(ls, p, i - 1)
    BY DEF TakenFor
  <2> QED BY <2>1, <2>2, <2>3
<1>8. CASE q <= 0
  <2>1. \A p : Total(t, p) = NeedUpTo(ls, p, i)
    BY <1>1, <1>7, <1>8 DEF Positive
  <2>2. t \in TakenFor(b, ls, i)
    BY <2>1 DEF TakenFor
  <2> QED BY <1>8, <2>2 DEF NextTakings
<1>9. CASE ~(q <= 0)
  <2> SUFFICES ASSUME NEW u \in Takings(c, l.product, q)
               PROVE  Plus(t, u) \in TakenFor(b, ls, i)
    BY <1>9 DEF NextTakings
  <2> DEFINE v == Plus(t, u)
             cand == Candidates(c, l.product)
  <2>a. q \in Nat /\ Positive(q) = q
    BY <1>1, <1>9 DEF Positive
  <2> HIDE DEF l, q, c
  <2>1. /\ u \in Plan
        /\ \A k \in Key : u[k] <= c[k].available
        /\ \A k \in Key : u[k] > 0 => k \in cand
        /\ \A j, k \in cand : u[k] > 0 /\ Expiry[j.batch] < Expiry[k.batch] => u[j] = c[j].available
        /\ \A r : Total(u, r) = IF r = l.product THEN q ELSE 0
    BY <1>5, <2>a, TakingsFacts
  <2>2. \A k \in Key : u[k] \in Nat /\ v[k] = t[k] + u[k]
    BY <2>1 DEF Plan, Plus
  <2>3. v \in Plan
    BY <1>2, <2>1, PlusType
  <2> HIDE DEF v
  <2>4. \A k \in Key : v[k] <= b[k].available
    BY <1>2, <1>3, <1>6, <2>1, <2>2
  <2>5. ASSUME NEW p PROVE Total(v, p) = NeedUpTo(ls, p, i)
    <3>1. Total(v, p) = Total(t, p) + Total(u, p)
      <4>1. /\ \A k \in Key : t[k] \in Int
            /\ \A k \in Key : u[k] \in Int
            /\ \A k \in Key : v[k] = t[k] + u[k]
        BY <1>2, <2>2
      <4> QED BY <4>1, TotalPlus
    <3>2. Total(u, p) = Needs(ls, p)[i]
      BY <1>7, <2>a, <2>1
    <3> QED BY <1>7, <3>1, <3>2
  <2>6. ASSUME NEW j \in Key, NEW k \in Key, v[k] > 0, Promisable(j), j.product = k.product,
               Expiry[j.batch] < Expiry[k.batch]
        PROVE  v[j] = b[j].available
    <3>a. /\ t[j] \in Nat /\ u[j] \in Nat /\ u[j] <= b[j].available - t[j]
          /\ b[j].available \in Nat /\ v[j] = t[j] + u[j]
          /\ c[j].available = b[j].available - t[j]
      BY <1>2, <1>3, <1>6, <2>1, <2>2
    <3>1. CASE t[k] > 0
      <4>1. t[j] = b[j].available
        BY <2>6, <3>1 DEF TakenFor, TakenInExpiryOrder
      <4> QED BY <3>a, <4>1
    <3>2. CASE ~(t[k] > 0)
      <4>1. u[k] > 0
        BY <1>2, <2>2, <2>6, <3>2
      <4>2. k \in cand /\ k.product = l.product
        BY <2>1, <4>1 DEF Candidates
      <4>3. CASE c[j].available > 0
        <5>1. j \in cand
          BY <2>6, <4>2, <4>3 DEF Candidates
        <5>2. u[j] = c[j].available
          BY <2>1, <2>6, <4>1, <4>2, <5>1
        <5> QED BY <3>a, <5>2
      <4>4. CASE ~(c[j].available > 0)
        BY <3>a, <4>4
      <4> QED BY <4>3, <4>4
    <3> QED BY <3>1, <3>2
  <2>7. TakenInExpiryOrder(b, v)
    BY <2>6 DEF TakenInExpiryOrder
  <2> QED BY <2>3, <2>4, <2>5, <2>7 DEF TakenFor, v
<1> QED BY <1>8, <1>9

LEMMA TakenForAllLines ==
  ASSUME Books, OutboundTables, NEW o \in Order, NEW taken \in OrderTakings(o)
  PROVE  taken \in TakenFor(balance, line[o], Len(line[o]))
<1> DEFINE ls == line[o]
           I == [i \in 0 .. Len(ls) |-> TakenFor(balance, ls, i)]
<1>1. ls \in Seq(Line) /\ Consistent(balance)
  BY DEF OutboundTables, Books
<1>2. taken \in TakingsTable(balance, ls)[Len(ls)]
  BY OrderTakingsFromTable
<1> HIDE DEF ls
<1>3. Len(ls) \in Nat
  BY <1>1
<1>4. Nothing \in TakenFor(balance, ls, 0)
  <2>1. Nothing \in Plan /\ \A k \in Key : Nothing[k] = 0
    BY DEF Nothing, Plan
  <2>2. \A k \in Key : 0 <= balance[k].available
    BY <1>1 DEF Consistent, Row
  <2>3. \A p : NeedUpTo(ls, p, 0) = 0
    <3> TAKE p
    <3>1. 1 .. 0 = {}
      OBVIOUS
    <3>2. SumFunctionOnSet(Needs(ls, p), {}) = 0
      BY SumEmpty
    <3> QED BY <3>1, <3>2 DEF NeedUpTo
  <2>4. TakenInExpiryOrder(balance, Nothing)
    BY <2>1 DEF TakenInExpiryOrder
  <2> QED BY <2>1, <2>2, <2>3, <2>4, NothingIsZero DEF TakenFor
<1>5. ASSUME NEW i \in 1 .. Len(ls), NEW t \in I[i - 1]
      PROVE  NextTakings(balance, t, ls[i]) \subseteq I[i]
  <2>1. i \in 0 .. Len(ls) /\ i - 1 \in 0 .. Len(ls)
    BY <1>3
  <2>2. t \in TakenFor(balance, ls, i - 1)
    BY <2>1
  <2>3. NextTakings(balance, t, ls[i]) \subseteq TakenFor(balance, ls, i)
    BY <1>1, <2>2, NextLineTakes
  <2> QED BY <2>1, <2>3
<1>6. /\ Nothing \in I[0]
      /\ I[Len(ls)] = TakenFor(balance, ls, Len(ls))
  BY <1>3, <1>4
<1> HIDE DEF I
<1>7. TakingsTable(balance, ls)[Len(ls)] \subseteq I[Len(ls)]
  BY <1>3, <1>5, <1>6, TakingsOfAllLines
<1> QED BY <1>2, <1>6, <1>7 DEF ls

-----------------------------------------------------------------------------
(* First expired, first out *)

\* Only approval and picks touch the reservations of an order.
LEMMA ReservationStepCases ==
  ASSUME [OutboundNext]_outboundVars
  PROVE  \/ UNCHANGED reservation
         \/ \E o \in Order : ApproveOutbound(o)
         \/ \E o \in Order, k \in Key, to \in Location, q \in Nat : ScanPick(o, k, to, q)
<1>1. 1 .. MaxQty \subseteq Nat
  BY SchemaAssumption
<1>2. ASSUME NEW o \in Order, NEW loc \in Location, DispatchConfirm(o, loc)
      PROVE  UNCHANGED reservation
  BY <1>2 DEF DispatchConfirm
<1> QED
  BY <1>1, <1>2
  DEF OutboundNext, OutboundRequest, outboundVars, orderVars, CreateOutbound, GeneratePicks,
      StartTask, CompleteTask, PackingConfirm

ExpiryKept ==
  \A o \in Order : \A j, k \in Key :
    /\ reservation'[o][k] > reservation[o][k]
    /\ Promisable(j) /\ j.product = k.product
    /\ Expiry[j.batch] < Expiry[k.batch]
    => balance'[j].available = 0

LEMMA ExpiryStep ==
  Books /\ OutboundTables /\ [OutboundNext]_outboundVars => ExpiryKept
<1> SUFFICES ASSUME Books, OutboundTables, [OutboundNext]_outboundVars,
                    NEW x \in Order, NEW j \in Key, NEW k \in Key,
                    reservation'[x][k] > reservation[x][k],
                    Promisable(j), j.product = k.product, Expiry[j.batch] < Expiry[k.batch]
             PROVE  balance'[j].available = 0
  BY DEF ExpiryKept
<1>a. reservation \in [Order -> Plan] /\ reservation[x][k] \in Nat
  BY DEF OutboundTables, Plan
<1>1. ~UNCHANGED reservation
  BY <1>a
<1>2. ASSUME NEW o \in Order, NEW y \in Key, NEW to \in Location, NEW q \in Nat,
             ScanPick(o, y, to, q)
      PROVE  FALSE
  <2>1. reservation' = [reservation EXCEPT ![o][y] = @ - q]
    BY <1>2 DEF ScanPick
  <2>2. reservation[o] \in Plan /\ reservation[x] \in Plan /\ reservation[o][y] \in Nat
    BY <1>a DEF Plan
  <2>3. reservation'[x][k] = reservation[x][k] - (IF x = o /\ k = y THEN q ELSE 0)
    BY <1>a, <2>1, <2>2 DEF Plan
  <2> QED BY <1>a, <2>3
<1>3. ASSUME NEW o \in Order, ApproveOutbound(o) PROVE balance'[j].available = 0
  <2>1. PICK taken \in OrderTakings(o) :
          /\ balance' = AdjustReserved(balance, taken)
          /\ reservation' = [reservation EXCEPT ![o] = Plus(@, taken)]
    BY <1>3 DEF ApproveOutbound
  <2>2. /\ taken \in Plan /\ taken \in Delta /\ taken[k] \in Nat
        /\ TakenInExpiryOrder(balance, taken)
    BY <2>1, TakenForAllLines, PlanIsDelta DEF TakenFor, Plan
  <2>3. x = o
    BY <1>a, <2>1
  <2>4. reservation'[x][k] = reservation[x][k] + taken[k]
    BY <1>a, <2>1, <2>3 DEF Plus, Plan
  <2>5. taken[k] > 0
    BY <1>a, <2>2, <2>4
  <2>6. taken[j] = balance[j].available
    BY <2>2, <2>5 DEF TakenInExpiryOrder
  <2>7. balance'[j].available = balance[j].available - taken[j]
    BY <2>1, <2>2, AdjustReservedRow DEF Books
  <2>8. balance[j].available \in Int
    BY DEF Books, Consistent, Row
  <2> QED BY <2>6, <2>7, <2>8
<1> QED BY <1>1, <1>2, <1>3, ReservationStepCases

\* First expired, first out: approval leaves nothing available that expires
\* before anything it reserved, over all lines of the order together.
THEOREM FirstExpiredFirstOut == OutboundSpec => EarliestExpiryFirst
BY OutboundInvariant, ExpiryStep, PTL DEF OutboundSpec, EarliestExpiryFirst, ExpiryKept

-----------------------------------------------------------------------------
(* The status of an order and the work done for it *)

\* StatusAgreesWithWork, with what it needs to be inductive: what is asked for
\* is either reserved or picked from the moment a task exists, wherever the
\* status is sent by a request that does not look at it, and nothing is
\* reserved any more behind a task that is DONE.
Idle(o) == \A k \in Key : reservation[o][k] = 0

WorkOf(o) ==
  /\ order[o].status \in {"NONE", "DRAFT", "SUBMITTED"} =>
       Idle(o) /\ \A i \in DOMAIN line[o] : line[o][i].reserved = 0
  /\ order[o].status = "APPROVED" =>
       /\ task[o].status = "NONE"
       /\ \A p \in Product : Total(reservation[o], p) = LineSum(line[o], p, "requested")
  /\ task[o].status # "NONE" =>
       \A p \in Product : Total(reservation[o], p) + LineSum(line[o], p, "picked")
                            = LineSum(line[o], p, "requested")
  /\ order[o].status \in {"PICKING", "PACKING", "PACKED"} => task[o].status # "NONE"
  /\ order[o].status \in {"PACKING", "PACKED"} \/ task[o].status = "DONE" => Idle(o)

WorkInv == \A o \in Order : WorkOf(o)

LEMMA WorkInit == OutboundInit => WorkInv
BY DEF OutboundInit, WorkInv, WorkOf, Idle, NoOrder, NoTask, Nothing

\* What an order that was just approved holds is what it asked for.
LEMMA ApprovalHoldsAll ==
  ASSUME Books, OutboundTables, WorkInv, NEW o \in Order, ApproveOutbound(o),
         NEW p \in Product
  PROVE  Total(reservation'[o], p) = LineSum(line[o], p, "requested")
<1>1. PICK taken \in OrderTakings(o) : reservation' = [reservation EXCEPT ![o] = Plus(@, taken)]
  BY DEF ApproveOutbound
<1>2. /\ reservation \in [Order -> Plan] /\ line[o] \in Seq(Line) /\ line \in [Order -> Seq(Line)]
  BY DEF OutboundTables
<1>3. /\ \A k \in Key : reservation[o][k] = 0
      /\ \A i \in DOMAIN line[o] : line[o][i].reserved = 0
  BY DEF ApproveOutbound, WorkInv, WorkOf, Idle
<1>4. taken \in Plan /\ Total(taken, p) = NeedUpTo(line[o], p, Len(line[o]))
  BY TakenForAllLines DEF TakenFor
<1>5. Total(reservation'[o], p) = Total(taken, p)
  <2>1. reservation'[o] = Plus(reservation[o], taken)
    BY <1>1, <1>2
  <2>2. \A k \in Key : reservation'[o][k] = taken[k]
    BY <1>3, <1>4, <2>1 DEF Plus, Plan
  <2> QED BY <2>2, TotalAgree
<1> DEFINE ls == line[o]
<1>6. NeedUpTo(ls, p, Len(ls)) = LineSum(ls, p, "requested")
  <2>1. DOMAIN ls = 1 .. Len(ls) /\ \A i \in DOMAIN ls : ls[i] \in Line
    BY <1>2
  <2>2. \A i \in DOMAIN ls : Needs(ls, p)[i] = Column(ls, p, "requested")[i]
    <3> SUFFICES ASSUME NEW i \in DOMAIN ls PROVE Needs(ls, p)[i] = Column(ls, p, "requested")[i]
      OBVIOUS
    <3>1. ls[i].requested \in Nat /\ ls[i].reserved = 0
      BY <1>3, <2>1 DEF Line
    <3>2. Positive(StillNeeded(ls[i])) = ls[i].requested
      BY <3>1 DEF Positive, StillNeeded
    <3> QED BY <3>2 DEF Needs, Column
  <2> HIDE DEF ls
  <2>3. IsFiniteSet(DOMAIN ls)
    BY <1>2, ColumnType DEF LineField, ls
  <2>4. SumFunctionOnSet(Needs(ls, p), DOMAIN ls) = SumFunctionOnSet(Column(ls, p, "requested"), DOMAIN ls)
    BY <2>2, <2>3, SumAgree
  <2> QED BY <2>1, <2>4 DEF NeedUpTo, LineSum
<1> QED BY <1>4, <1>5, <1>6

LEMMA WorkStep ==
  Books /\ OutboundTables /\ TasksFollow /\ PicksAreAccounted /\ WorkInv
    /\ [OutboundNext]_outboundVars => WorkInv'
<1> SUFFICES ASSUME Books, OutboundTables, TasksFollow, PicksAreAccounted, WorkInv,
                    [OutboundNext]_outboundVars
             PROVE  WorkInv'
  OBVIOUS
<1>a. /\ order \in [Order -> OrderRow] /\ task \in [Order -> TaskRow]
      /\ line \in [Order -> Seq(Line)] /\ reservation \in [Order -> Plan]
  BY DEF OutboundTables
<1>b. \A x \in Order : WorkOf(x)
  BY DEF WorkInv
<1>c. \A x \in Order, p \in Product :
        task[x].status = "NONE" => LineSum(line[x], p, "picked") = 0
  BY LineTotalIsSum, NothingIsZero DEF PicksAreAccounted, TasksFollow, NoTask
<1>d. \A x \in Order, p \in Product : Total(reservation[x], p) \in Nat
  BY TaskTotalType
<1>0. ASSUME NEW x \in Order, order'[x].status = order[x].status,
             task'[x].status = task[x].status,
             line'[x] = line[x], reservation'[x] = reservation[x]
      PROVE  WorkOf(x)'
  BY <1>0, <1>b DEF WorkOf, Idle
<1>1. ASSUME NEW o \in Order, NEW form \in OrderForm, NEW status \in {"DRAFT", "SUBMITTED"},
             CreateOutbound(o, form, status)
      PROVE  WorkInv'
  <2>1. /\ order[o].status = "NONE"
        /\ order' = [order EXCEPT ![o].status = status]
        /\ UNCHANGED <<reservation, task>>
        /\ \A x \in Order \ {o} : line'[x] = line[x]
    BY <1>1, <1>a DEF CreateOutbound
  <2>2. order'[o].status = status /\ \A x \in Order \ {o} : order'[x] = order[x]
    BY <1>a, <2>1 DEF OrderRow
  <2>3. task[o].status = "NONE" /\ Idle(o)
    BY <1>b, <2>1 DEF TasksFollow, WorkOf
  <2>4. line'[o] = [i \in DOMAIN form |->
                      [product |-> form[i].product, requested |-> form[i].qty,
                       reserved |-> 0, picked |-> 0]]
    BY <1>1, <1>a DEF CreateOutbound
  <2>5. \A i \in DOMAIN line'[o] : line'[o][i].reserved = 0
    BY <2>4
  <2>6. WorkOf(o)'
    BY <2>1, <2>2, <2>3, <2>5 DEF WorkOf, Idle
  <2> QED BY <1>0, <2>1, <2>2, <2>6 DEF WorkInv
<1>2. ASSUME NEW o \in Order, ApproveOutbound(o) PROVE WorkInv'
  <2>1. /\ order[o].status \in {"SUBMITTED", "DRAFT"}
        /\ order' = [order EXCEPT ![o].status = "APPROVED"]
        /\ UNCHANGED task
        /\ \A x \in Order \ {o} : line'[x] = line[x] /\ reservation'[x] = reservation[x]
    BY <1>2, <1>a DEF ApproveOutbound
  <2>2. order'[o].status = "APPROVED" /\ \A x \in Order \ {o} : order'[x] = order[x]
    BY <1>a, <2>1 DEF OrderRow
  <2>3. task[o].status = "NONE"
    BY <2>1 DEF TasksFollow
  <2>4. \A p \in Product : Total(reservation'[o], p) = LineSum(line'[o], p, "requested")
    BY <1>2, ApprovalHoldsAll, ApprovedLines
  <2>5. WorkOf(o)'
    BY <2>1, <2>2, <2>3, <2>4 DEF WorkOf
  <2> QED BY <1>0, <2>1, <2>2, <2>5 DEF WorkInv
<1>3. ASSUME NEW o \in Order, GeneratePicks(o) PROVE WorkInv'
  <2>1. /\ order[o].status = "APPROVED" /\ task[o].status = "NONE"
        /\ order' = [order EXCEPT ![o].status = "PICKING"]
        /\ task' = [task EXCEPT ![o] = [status |-> "OPEN", to_pick |-> reservation[o],
                                        picked |-> Nothing]]
        /\ UNCHANGED <<line, reservation>>
    BY <1>3 DEF GeneratePicks
  <2>2. /\ order'[o].status = "PICKING" /\ task'[o].status = "OPEN"
        /\ \A x \in Order \ {o} : order'[x] = order[x] /\ task'[x] = task[x]
    BY <1>a, <2>1 DEF OrderRow
  <2>3. \A p \in Product : /\ Total(reservation[o], p) = LineSum(line[o], p, "requested")
                           /\ LineSum(line[o], p, "picked") = 0
    BY <1>b, <1>c, <2>1 DEF WorkOf
  <2>4. \A p \in Product : Total(reservation'[o], p) + LineSum(line'[o], p, "picked")
                             = LineSum(line'[o], p, "requested")
    BY <1>d, <2>1, <2>3
  <2>5. WorkOf(o)'
    BY <2>2, <2>4 DEF WorkOf
  <2> QED BY <1>0, <2>1, <2>2, <2>5 DEF WorkInv
<1>4. ASSUME NEW o \in Order, StartTask(o) PROVE WorkInv'
  <2>1. /\ task[o].status # "NONE"
        /\ task' = [task EXCEPT ![o].status = "IN_PROGRESS"]
        /\ UNCHANGED <<order, line, reservation>>
    BY <1>4 DEF StartTask
  <2>2. task'[o].status = "IN_PROGRESS" /\ \A x \in Order \ {o} : task'[x] = task[x]
    BY <1>a, <2>1 DEF TaskRow
  <2>3. order[o].status # "APPROVED"
    BY <1>b, <2>1 DEF WorkOf
  <2>4. WorkOf(o)'
    BY <1>b, <2>1, <2>2, <2>3 DEF WorkOf, Idle
  <2> QED BY <1>0, <2>1, <2>2, <2>4 DEF WorkInv
<1>5. ASSUME NEW o \in Order, NEW k \in Key, NEW to \in Location, NEW q \in Nat,
             ScanPick(o, k, to, q)
      PROVE  WorkInv'
  <2>1. /\ task' = [task EXCEPT ![o].picked[k] = @ + q]
        /\ reservation' = [reservation EXCEPT ![o][k] = @ - q]
        /\ task[o].to_pick[k] > 0 /\ reservation[o][k] >= q /\ q > 0
        /\ UNCHANGED order
    BY <1>5 DEF ScanPick, CanPick, CanMove
  <2>2. task[o].status # "NONE"
    BY <2>1 DEF TasksFollow, NoTask, Nothing
  <2>3. PICK i \in DOMAIN line[o] : /\ line[o][i].product = k.product
                                    /\ line' = [line EXCEPT ![o][i].picked = @ + q]
    BY <1>5 DEF ScanPick, CountPick
  <2>4. /\ task'[o].status = task[o].status
        /\ \A x \in Order \ {o} : /\ task'[x] = task[x] /\ reservation'[x] = reservation[x]
                                  /\ line'[x] = line[x]
    BY <1>a, <2>1, <2>3 DEF TaskRow
  <2>5. reservation[o] \in Plan /\ reservation[o][k] \in Nat /\ reservation[o][k] # 0
    BY <1>a, <2>1 DEF Plan
  <2>6. ~Idle(o)
    BY <2>5 DEF Idle
  <2>7. ASSUME NEW p \in Product
        PROVE  Total(reservation'[o], p) + LineSum(line'[o], p, "picked")
                 = LineSum(line'[o], p, "requested")
    <3> DEFINE f == reservation[o]
               g == reservation'[o]
               ls == line[o]
               ms == [ls EXCEPT ![i].picked = @ + q]
    <3>1. ls \in Seq(Line) /\ i \in DOMAIN ls /\ ls[i].product = k.product /\ line'[o] = ms
      BY <1>a, <2>3
    <3>2. /\ LineSum(ms, p, "picked")
               = LineSum(ls, p, "picked") + (IF k.product = p THEN q ELSE 0)
          /\ LineSum(ms, p, "requested") = LineSum(ls, p, "requested")
      <4> HIDE DEF f, g, ls
      <4>1. /\ LineSum(ms, p, "picked")
                 = LineSum(ls, p, "picked") + (IF ls[i].product = p THEN q ELSE 0)
            /\ LineSum(ms, p, "requested") = LineSum(ls, p, "requested")
        BY <3>1, LineSumCounted
      <4> HIDE DEF ms
      <4> QED BY <3>1, <4>1
    <3>3. \A z \in Key : f[z] \in Int /\ g[z] = f[z] + (IF z = k THEN -q ELSE 0)
      BY <1>a, <2>1, <2>5 DEF Plan
    <3>4. /\ Total(f, p) + LineSum(ls, p, "picked") = LineSum(ls, p, "requested")
          /\ Total(f, p) \in Nat
          /\ LineSum(ls, p, "picked") \in Nat
      BY <1>b, <1>d, <2>2, <3>1, LineSumType DEF WorkOf, LineField
    <3> HIDE DEF f, g, ls, ms
    <3>5. Total(g, p) = Total(f, p) + (IF k.product = p THEN -q ELSE 0)
      <4>1. -q \in Int
        OBVIOUS
      <4> QED BY <3>3, <4>1, TotalRaised
    <3>6. Total(g, p) + LineSum(ms, p, "picked") = LineSum(ms, p, "requested")
      BY <3>2, <3>4, <3>5
    <3> QED BY <3>1, <3>6 DEF g
  <2>8. WorkOf(o)'
    BY <1>b, <2>1, <2>2, <2>4, <2>6, <2>7 DEF WorkOf
  <2> QED BY <1>0, <2>1, <2>4, <2>8 DEF WorkInv
<1>6. ASSUME NEW o \in Order, CompleteTask(o) PROVE WorkInv'
  <2>1. /\ task[o].status # "NONE"
        /\ \A k \in Key : task[o].picked[k] >= task[o].to_pick[k]
        /\ task' = [task EXCEPT ![o].status = "DONE"]
        /\ order' = [order EXCEPT ![o].status = "PACKING"]
        /\ UNCHANGED <<line, reservation>>
    BY <1>6 DEF CompleteTask
  <2>2. /\ task'[o].status = "DONE" /\ order'[o].status = "PACKING"
        /\ \A x \in Order \ {o} : task'[x] = task[x] /\ order'[x] = order[x]
    BY <1>a, <2>1 DEF TaskRow, OrderRow
  <2>3. Idle(o)
    <3> SUFFICES ASSUME NEW k \in Key PROVE reservation[o][k] = 0
      BY DEF Idle
    <3>1. task[o].to_pick[k] \in Nat /\ task[o].picked[k] \in Nat /\ reservation[o][k] \in Nat
      BY <1>a DEF TaskRow, Plan
    <3>2. task[o].to_pick[k] - task[o].picked[k] = reservation[o][k]
      BY <2>1 DEF TasksFollow, PickLinesMatchReservations
    <3> QED BY <2>1, <3>1, <3>2
  <2>4. WorkOf(o)'
    BY <1>b, <2>1, <2>2, <2>3 DEF WorkOf, Idle
  <2> QED BY <1>0, <2>1, <2>2, <2>4 DEF WorkInv
<1>7. ASSUME NEW o \in Order, PackingConfirm(o) PROVE WorkInv'
  <2>1. task[o].status = "DONE" /\ UNCHANGED <<line, reservation, task>>
    BY <1>7 DEF PackingConfirm
  <2>2. order'[o].status = "PACKED" /\ \A x \in Order \ {o} : order'[x] = order[x]
    BY <1>7, <1>a DEF PackingConfirm, OrderRow
  <2>3. WorkOf(o)'
    BY <1>b, <2>1, <2>2 DEF WorkOf, Idle
  <2> QED BY <1>0, <2>1, <2>2, <2>3 DEF WorkInv
<1>8. ASSUME NEW o \in Order, NEW loc \in Location, DispatchConfirm(o, loc)
      PROVE  WorkInv'
  <2>1. UNCHANGED <<line, reservation, task>>
    BY <1>8 DEF DispatchConfirm
  <2>2. /\ order'[o].status \in {"DISPATCHED", order[o].status}
        /\ \A x \in Order \ {o} : order'[x] = order[x]
    BY <1>8, <1>a DEF DispatchConfirm, OrderRow
  <2>3. CASE order'[o].status = "DISPATCHED"
    <3>1. WorkOf(o)'
      BY <1>b, <2>1, <2>3 DEF WorkOf, Idle
    <3> QED BY <1>0, <2>1, <2>2, <3>1 DEF WorkInv
  <2>4. CASE order'[o].status = order[o].status
    BY <1>0, <2>1, <2>2, <2>4 DEF WorkInv
  <2> QED BY <2>2, <2>3, <2>4
<1>9. CASE UNCHANGED orderVars
  BY <1>0, <1>9 DEF orderVars, WorkInv
<1>10. UNCHANGED outboundVars => UNCHANGED orderVars
  BY DEF outboundVars, orderVars
<1>11. 1 .. MaxQty \subseteq Nat
  BY SchemaAssumption
<1> QED
  BY <1>1, <1>2, <1>3, <1>4, <1>5, <1>6, <1>7, <1>8, <1>9, <1>10, <1>11
  DEF OutboundNext, OutboundRequest

LEMMA WorkIsProperty ==
  Books /\ OutboundTables /\ TasksFollow /\ PicksAreAccounted /\ WorkInv => StatusAgreesWithWork
<1> SUFFICES ASSUME Books, OutboundTables, TasksFollow, PicksAreAccounted, WorkInv,
                    NEW o \in Order, NEW p \in Product
             PROVE  LET asked == LineTotal(o, p, "requested")
                        held == Total(reservation[o], p)
                        picked == LineTotal(o, p, "picked")
                    IN  /\ order[o].status \in {"NONE", "DRAFT", "SUBMITTED"} =>
                             held = 0 /\ picked = 0 /\ task[o].status = "NONE"
                        /\ order[o].status = "APPROVED" => held = asked /\ task[o].status = "NONE"
                        /\ order[o].status = "PICKING" => held + picked = asked
                        /\ order[o].status \in {"PACKING", "PACKED"} => held = 0 /\ picked = asked
  BY DEF StatusAgreesWithWork
<1> DEFINE asked == LineTotal(o, p, "requested")
           held == Total(reservation[o], p)
           picked == LineTotal(o, p, "picked")
<1>1. Idle(o) => held = 0
  BY TotalZero DEF Idle
<1>2. held \in Nat /\ picked \in Nat /\ asked \in Nat
  <2>1. line[o] \in Seq(Line)
    BY DEF OutboundTables
  <2> QED BY <2>1, TaskTotalType, LineTotalIsSum, LineSumType DEF LineField
<1>3. task[o].status = "NONE" => picked = 0
  BY NothingIsZero DEF PicksAreAccounted, TasksFollow, NoTask
<1>4. WorkOf(o)
  BY DEF WorkInv
<1>5. /\ order[o].status = "APPROVED" => held = asked /\ task[o].status = "NONE"
      /\ task[o].status # "NONE" => held + picked = asked
  BY <1>4, LineTotalIsSum DEF WorkOf
<1>6. /\ order[o].status \in {"NONE", "DRAFT", "SUBMITTED"} =>
           Idle(o) /\ task[o].status = "NONE"
      /\ order[o].status \in {"PICKING", "PACKING", "PACKED"} => task[o].status # "NONE"
      /\ order[o].status \in {"PACKING", "PACKED"} => Idle(o)
  BY <1>4 DEF WorkOf, TasksFollow
<1> HIDE DEF asked, held, picked
<1>7. order[o].status \in {"PACKING", "PACKED"} => held = 0 /\ picked = asked
  BY <1>1, <1>2, <1>5, <1>6
<1> QED BY <1>1, <1>3, <1>5, <1>6, <1>7 DEF asked, held, picked

LEMMA WorkInvariant == OutboundSpec => []WorkInv
BY OutboundInvariant, TasksInvariant, PicksInvariant, WorkInit, WorkStep, PTL DEF OutboundSpec

\* The status of an order says what has been done for it, although several
\* requests set it without looking at it: before approval nothing is reserved
\* or picked, an approved order has all it asked for reserved, and a packed
\* one has all of it picked.
THEOREM StatusSaysWhatWasDone == OutboundSpec => []StatusAgreesWithWork
BY OutboundInvariant, TasksInvariant, PicksInvariant, WorkInvariant, WorkIsProperty, PTL

=============================================================================
