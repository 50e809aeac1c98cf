---------------------------- MODULE InventoryProofs ----------------------------
(***************************************************************************)
(* Lemmas about the table operators of Inventory, used for every component *)
(* that changes the books: an adjustment, a post or a move whose guard     *)
(* holds takes consistent balances to consistent balances, and a typed     *)
(* ledger to a typed ledger, for all sets of items, locations and          *)
(* documents.                                                              *)
(***************************************************************************)
EXTENDS Inventory, SumProofs

\* BalanceConsistent and the type of the table, of any table b.
Consistent(b) ==
  /\ b \in [Key -> Row]
  /\ \A k \in Key :
       /\ 0 <= b[k].reserved
       /\ b[k].reserved <= b[k].on_hand
       /\ b[k].on_hand <= MaxQty
       /\ b[k].available = b[k].on_hand - b[k].reserved

LedgerTable == [Reference -> [Key -> [in : Nat, out : Nat]]]

LEMMA DeltaType ==
  ASSUME NEW k \in Key, NEW q \in Int
  PROVE  At(k, q) \in Delta
BY DEF At, Delta

LEMMA MovedType ==
  ASSUME NEW k \in Key, NEW to \in Location
  PROVE  Moved(k, to) \in Key
BY DEF Moved, Key

\* adjust_reserved keeps consistent balances consistent.
LEMMA AdjustReservedConsistent ==
  ASSUME NEW b, Consistent(b), NEW d \in Delta, CanAdjustReserved(b, d)
  PROVE  Consistent(AdjustReserved(b, d))
<1> DEFINE c == AdjustReserved(b, d)
<1>1. MaxQty \in Nat
  BY SchemaAssumption
<1>2. ASSUME NEW k \in Key
      PROVE  /\ c[k] \in Row
             /\ 0 <= c[k].reserved
             /\ c[k].reserved <= c[k].on_hand
             /\ c[k].on_hand <= MaxQty
             /\ c[k].available = c[k].on_hand - c[k].reserved
  <2>1. b[k] \in Row /\ d[k] \in Int
    BY DEF Consistent, Delta
  <2>2. CASE d[k] = 0
    BY <1>1, <2>1, <2>2 DEF Consistent, AdjustReserved, Row
  <2>3. CASE d[k] # 0
    BY <1>1, <2>1, <2>3 DEF Consistent, AdjustReserved, CanAdjustReserved, Recalculated, Row
  <2> QED BY <2>2, <2>3
<1>3. c \in [Key -> Row]
  BY <1>2 DEF AdjustReserved
<1> QED BY <1>2, <1>3 DEF Consistent

\* add_ledger_and_apply_on_hand keeps consistent balances consistent.
LEMMA PostedConsistent ==
  ASSUME NEW b, Consistent(b), NEW d \in Delta, CanPost(b, d)
  PROVE  Consistent(Posted(b, d))
<1> DEFINE c == Posted(b, d)
<1>1. MaxQty \in Nat
  BY SchemaAssumption
<1>2. ASSUME NEW k \in Key
      PROVE  /\ c[k] \in Row
             /\ 0 <= c[k].reserved
             /\ c[k].reserved <= c[k].on_hand
             /\ c[k].on_hand <= MaxQty
             /\ c[k].available = c[k].on_hand - c[k].reserved
  <2>1. b[k] \in Row /\ d[k] \in Int
    BY DEF Consistent, Delta
  <2>2. CASE d[k] = 0
    BY <1>1, <2>1, <2>2 DEF Consistent, Posted, Row
  <2>3. CASE d[k] # 0
    BY <1>1, <2>1, <2>3 DEF Consistent, Posted, CanPost, Recalculated, Row
  <2> QED BY <2>2, <2>3
<1>3. c \in [Key -> Row]
  BY <1>2 DEF Posted
<1> QED BY <1>2, <1>3 DEF Consistent

\* move_on_hand keeps consistent balances consistent.
LEMMA MovedConsistent ==
  ASSUME NEW b, Consistent(b), NEW k \in Key, NEW to \in Location, NEW q \in Int,
         CanMove(b, k, to, q)
  PROVE  Consistent(MovedBalance(b, k, to, q))
<1>1. At(k, -q) \in Delta /\ At(Moved(k, to), q) \in Delta
  BY DeltaType, MovedType
<1>2. Consistent(Posted(b, At(k, -q)))
  BY <1>1, PostedConsistent DEF CanMove
<1> QED
  BY <1>1, <1>2, PostedConsistent DEF CanMove, MovedBalance

\* The rows of a post extend the ledger by natural numbers.
LEMMA RecordedType ==
  ASSUME NEW l \in LedgerTable, NEW ref \in Reference, NEW d \in Delta
  PROVE  Recorded(l, ref, d) \in LedgerTable
<1>1. ASSUME NEW k \in Key
      PROVE  [in |-> l[ref][k].in + Positive(d[k]),
              out |-> l[ref][k].out + Positive(-d[k])] \in [in : Nat, out : Nat]
  <2>1. l[ref][k] \in [in : Nat, out : Nat] /\ d[k] \in Int
    BY DEF LedgerTable, Delta
  <2>2. Positive(d[k]) \in Nat /\ Positive(-d[k]) \in Nat
    BY <2>1 DEF Positive
  <2> QED BY <2>1, <2>2
<1> QED BY <1>1 DEF Recorded, LedgerTable

LEMMA MovedLedgerType ==
  ASSUME NEW l \in LedgerTable, NEW ref \in Reference, NEW k \in Key,
         NEW to \in Location, NEW q \in Int
  PROVE  MovedLedger(l, ref, k, to, q) \in LedgerTable
<1>1. At(k, -q) \in Delta /\ At(Moved(k, to), q) \in Delta
  BY DeltaType, MovedType
<1>2. Recorded(l, ref, At(k, -q)) \in LedgerTable
  BY <1>1, RecordedType
<1> QED BY <1>1, <1>2, RecordedType DEF MovedLedger

\* Typed tables, consistent rows: the inductive part of every component.
Books == Consistent(balance) /\ ledger \in LedgerTable

LEMMA BooksIsBoth == Books <=> StockTypeOK /\ BalanceConsistent
BY DEF Books, Consistent, LedgerTable, StockTypeOK, BalanceConsistent

-----------------------------------------------------------------------------
(* Rows of the two tables behind the services *)

\* What the two services do to one balance row.
LEMMA AdjustReservedRow ==
  ASSUME NEW b, Consistent(b), NEW d \in Delta, NEW k \in Key
  PROVE  /\ AdjustReserved(b, d)[k].on_hand = b[k].on_hand
         /\ AdjustReserved(b, d)[k].reserved = b[k].reserved + d[k]
         /\ AdjustReserved(b, d)[k].available = b[k].available - d[k]
<1>1. b[k] \in Row /\ d[k] \in Int /\ b[k].available = b[k].on_hand - b[k].reserved
  BY DEF Consistent, Delta
<1>2. CASE d[k] = 0
  BY <1>1, <1>2 DEF AdjustReserved, Row
<1>3. CASE d[k] # 0
  BY <1>1, <1>3 DEF AdjustReserved, Recalculated, Row
<1> QED BY <1>2, <1>3

LEMMA PostedRow ==
  ASSUME NEW b, Consistent(b), NEW d \in Delta, NEW k \in Key
  PROVE  /\ Posted(b, d)[k].on_hand = b[k].on_hand + d[k]
         /\ Posted(b, d)[k].reserved = b[k].reserved
         /\ Posted(b, d)[k].available = b[k].available + d[k]
<1>1. b[k] \in Row /\ d[k] \in Int /\ b[k].available = b[k].on_hand - b[k].reserved
  BY DEF Consistent, Delta
<1>2. CASE d[k] = 0
  BY <1>1, <1>2 DEF Posted, Row
<1>3. CASE d[k] # 0
  BY <1>1, <1>3 DEF Posted, Recalculated, Row
<1> QED BY <1>2, <1>3

\* The rows of a post are its delta, and the quantities of a post into stock
\* all count as brought in.
LEMMA RecordedRow ==
  ASSUME NEW l \in LedgerTable, NEW ref \in Reference, NEW d \in Delta, NEW k \in Key
  PROVE  LET flow == Recorded(l, ref, d)[ref][k]
         IN  /\ flow.in - flow.out = l[ref][k].in - l[ref][k].out + d[k]
             /\ flow.in = l[ref][k].in + (IF d[k] > 0 THEN d[k] ELSE 0)
             /\ flow.out = l[ref][k].out + (IF d[k] < 0 THEN -d[k] ELSE 0)
<1>1. l[ref][k].in \in Nat /\ l[ref][k].out \in Nat /\ d[k] \in Int
  BY DEF LedgerTable, Delta
<1>2. Recorded(l, ref, d)[ref][k]
        = [in |-> l[ref][k].in + Positive(d[k]), out |-> l[ref][k].out + Positive(-d[k])]
  BY DEF Recorded, LedgerTable
<1> QED BY <1>1, <1>2 DEF Positive

LEMMA RecordedElsewhere ==
  ASSUME NEW l \in LedgerTable, NEW ref \in Reference, NEW d,
         NEW other \in Reference \ {ref}
  PROVE  Recorded(l, ref, d)[other] = l[other]
BY DEF Recorded, LedgerTable

LEMMA MovedElsewhere ==
  ASSUME NEW l \in LedgerTable, NEW ref \in Reference, NEW k \in Key, NEW to \in Location,
         NEW q \in Int, NEW other \in Reference \ {ref}
  PROVE  MovedLedger(l, ref, k, to, q)[other] = l[other]
<1>1. At(k, -q) \in Delta
  BY DeltaType
<1>2. Recorded(l, ref, At(k, -q)) \in LedgerTable
  BY <1>1, RecordedType
<1> QED BY <1>2, RecordedElsewhere DEF MovedLedger

\* A move of q from k is recorded as q out at k and q in at its new location.
LEMMA MovedRow ==
  ASSUME NEW l \in LedgerTable, NEW ref \in Reference, NEW k \in Key, NEW to \in Location,
         NEW q \in Nat, NEW x \in Key
  PROVE  LET flow == MovedLedger(l, ref, k, to, q)[ref][x]
         IN  /\ flow.in = l[ref][x].in + (IF x = Moved(k, to) THEN q ELSE 0)
             /\ flow.out = l[ref][x].out + (IF x = k THEN q ELSE 0)
<1>1. At(k, -q) \in Delta /\ At(Moved(k, to), q) \in Delta
  BY DeltaType, MovedType
<1> DEFINE l1 == Recorded(l, ref, At(k, -q))
<1>2. l1 \in LedgerTable
  BY <1>1, RecordedType
<1>3. /\ At(k, -q)[x] = IF x = k THEN -q ELSE 0
      /\ At(Moved(k, to), q)[x] = IF x = Moved(k, to) THEN q ELSE 0
  BY DEF At
<1>4. /\ l1[ref][x].in = l[ref][x].in
      /\ l1[ref][x].out = l[ref][x].out + (IF x = k THEN q ELSE 0)
  <2>1. l[ref][x].in \in Nat /\ l[ref][x].out \in Nat
    BY DEF LedgerTable
  <2> QED BY <1>1, <1>3, <2>1, RecordedRow
<1>5. /\ MovedLedger(l, ref, k, to, q)[ref][x].in
           = l1[ref][x].in + (IF x = Moved(k, to) THEN q ELSE 0)
      /\ MovedLedger(l, ref, k, to, q)[ref][x].out = l1[ref][x].out
  <2>1. l1[ref][x].in \in Nat /\ l1[ref][x].out \in Nat
    BY <1>2 DEF LedgerTable
  <2> HIDE DEF l1
  <2>2. LET flow == Recorded(l1, ref, At(Moved(k, to), q))[ref][x]
        IN  /\ flow.in = l1[ref][x].in + (IF x = Moved(k, to) THEN q ELSE 0)
            /\ flow.out = l1[ref][x].out
    BY <1>1, <1>2, <1>3, <2>1, RecordedRow
  <2> QED BY <2>2 DEF MovedLedger, l1
<1> QED BY <1>4, <1>5

-----------------------------------------------------------------------------
(* The ledger adds up to the balances *)

LEMMA KeyFinite == IsFiniteSet(Key)
<1> DEFINE f == [x \in Product \X (Batch \X Location) |->
                   [product |-> x[1], batch |-> x[2][1], location |-> x[2][2]]]
<1>1. IsFiniteSet(Product \X (Batch \X Location))
  BY InventoryAssumption, FS_Product
<1>2. f \in Surjection(Product \X (Batch \X Location), Key)
  <2>1. f \in [Product \X (Batch \X Location) -> Key]
    BY DEF Key
  <2>2. ASSUME NEW k \in Key PROVE \E x \in Product \X (Batch \X Location) : f[x] = k
    <3>1. <<k.product, <<k.batch, k.location>>>> \in Product \X (Batch \X Location)
      BY DEF Key
    <3>2. f[<<k.product, <<k.batch, k.location>>>>] = k
      BY <3>1 DEF Key
    <3> QED BY <3>1, <3>2
  <2> QED BY <2>1, <2>2 DEF Surjection
<1> QED BY <1>1, <1>2, FS_Surjection

\* LedgerReconciles, of any pair of tables.
NetOf(l, k) == [ref \in Reference |-> l[ref][k].in - l[ref][k].out]
Reconciles(l, b) == \A k \in Key : SumFunctionOnSet(NetOf(l, k), Reference) = b[k].on_hand

LEMMA ReconcilesIsProperty == Reconciles(ledger, balance) <=> LedgerReconciles
BY DEF Reconciles, NetOf, LedgerReconciles, LedgerNet, SumFunction

LEMMA NetType ==
  ASSUME NEW l \in LedgerTable, NEW k \in Key
  PROVE  \A ref \in Reference : NetOf(l, k)[ref] \in Int
BY DEF LedgerTable, NetOf

\* A post changes the ledger and the balance row by the same amount.
LEMMA PostReconciles ==
  ASSUME NEW l \in LedgerTable, NEW b, Consistent(b), Reconciles(l, b),
         NEW ref \in Reference, NEW d \in Delta
  PROVE  Reconciles(Recorded(l, ref, d), Posted(b, d))
<1> DEFINE m == Recorded(l, ref, d)
<1> SUFFICES ASSUME NEW k \in Key
             PROVE  SumFunctionOnSet(NetOf(m, k), Reference) = Posted(b, d)[k].on_hand
  BY DEF Reconciles
<1>1. m \in LedgerTable
  BY RecordedType
<1>2. IsFiniteSet(Reference)
  BY InventoryAssumption
<1>3. NetOf(m, k)[ref] = NetOf(l, k)[ref] + d[k]
  BY RecordedRow DEF NetOf
<1>4. \A other \in Reference \ {ref} : NetOf(l, k)[other] = NetOf(m, k)[other]
  BY RecordedElsewhere DEF NetOf
<1>5. d[k] \in Int /\ NetOf(l, k)[ref] \in Int
  BY NetType DEF Delta
<1> HIDE DEF m
<1>6. SumFunctionOnSet(NetOf(m, k), Reference)
        = SumFunctionOnSet(NetOf(l, k), Reference) + (NetOf(m, k)[ref] - NetOf(l, k)[ref])
  BY <1>1, <1>2, <1>4, NetType, SumChange
<1>7. SumFunctionOnSet(NetOf(l, k), Reference) = b[k].on_hand /\ b[k].on_hand \in Int
  BY DEF Reconciles, Consistent, Row
<1> QED BY <1>3, <1>5, <1>6, <1>7, PostedRow

LEMMA MoveReconciles ==
  ASSUME NEW l \in LedgerTable, NEW b, Consistent(b), Reconciles(l, b),
         NEW ref \in Reference, NEW k \in Key, NEW to \in Location, NEW q \in Int,
         CanMove(b, k, to, q)
  PROVE  Reconciles(MovedLedger(l, ref, k, to, q), MovedBalance(b, k, to, q))
<1>1. At(k, -q) \in Delta /\ At(Moved(k, to), q) \in Delta
  BY DeltaType, MovedType
<1>2. Consistent(Posted(b, At(k, -q))) /\ Recorded(l, ref, At(k, -q)) \in LedgerTable
  BY <1>1, PostedConsistent, RecordedType DEF CanMove
<1>3. Reconciles(Recorded(l, ref, At(k, -q)), Posted(b, At(k, -q)))
  BY <1>1, PostReconciles
<1> QED BY <1>1, <1>2, <1>3, PostReconciles DEF MovedLedger, MovedBalance

LEMMA AdjustReconciles ==
  ASSUME NEW l, NEW b, Consistent(b), Reconciles(l, b), NEW d \in Delta
  PROVE  Reconciles(l, AdjustReserved(b, d))
BY AdjustReservedRow DEF Reconciles

\* An opening stock that one document brought reconciles.
LEMMA OpeningReconciles ==
  ASSUME NEW opening \in [Key -> Nat], NEW ref \in Reference,
         balance = [k \in Key |-> Recalculated(opening[k], 0)],
         ledger = [r \in Reference |-> [k \in Key |->
                     [in |-> IF r = ref THEN opening[k] ELSE 0, out |-> 0]]]
  PROVE  Reconciles(ledger, balance)
<1> SUFFICES ASSUME NEW k \in Key
             PROVE  SumFunctionOnSet(NetOf(ledger, k), Reference) = balance[k].on_hand
  BY DEF Reconciles
<1>1. IsFiniteSet(Reference)
  BY InventoryAssumption
<1>2. /\ NetOf(ledger, k)[ref] = opening[k] /\ opening[k] \in Int
      /\ \A r \in Reference \ {ref} : NetOf(ledger, k)[r] = 0
  BY DEF NetOf
<1>3. SumFunctionOnSet(NetOf(ledger, k), Reference) = opening[k]
  <2> DEFINE net == NetOf(ledger, k)
  <2>1. net[ref] = opening[k] /\ net[ref] \in Int /\ \A r \in Reference \ {ref} : net[r] = 0
    BY <1>2
  <2> HIDE DEF net
  <2>2. SumFunctionOnSet(net, Reference) = net[ref]
    BY <1>1, <2>1, SumSingle
  <2> QED BY <2>1, <2>2 DEF net
<1>4. balance[k].on_hand = opening[k]
  BY DEF Recalculated
<1> QED BY <1>3, <1>4

=============================================================================
