-------------------------- MODULE TransactionsProofs --------------------------
(***************************************************************************)
(* Proofs about Transactions, for any number of threads, items, orders and *)
(* requests: the counts of a balance row never fall below zero; a row goes *)
(* wrong against the ledger, and an order against its lines or the rows it *)
(* is reserved on, only when two requests that change it overlap.          *)
(*                                                                         *)
(* The strengthening follows a request.  As long as nobody else has        *)
(* committed a change of an item, what its session would read of the item  *)
(* is the ledger, or what the orders hold, and what its own calls have     *)
(* added, and the objects it holds are what it would read (Follows).  As   *)
(* long as nobody else has committed a change of its order, the order is   *)
(* the one it saw, and what an approval has reserved, is reserving and has *)
(* still to reserve is what the order asks for (Progress).  A commit that  *)
(* breaks this for the sessions of others is in their missed, and makes    *)
(* the item or the order raced as soon as they commit a change of it too.  *)
(***************************************************************************)
EXTENDS Transactions, SumProofs, SequenceTheorems, TLAPS

Call == [col : {"on_hand", "reserved"}, item : Item, qty : Int]
Counts == [on_hand : Nat, reserved : Nat, available : Int]
OrderType ==
  [status : {"SUBMITTED", "APPROVED", "PICKING"}, reserved : [Item -> Nat],
   tasks : Seq([Item -> [to_pick : Nat, picked : Nat]])]
Held == UNION {[S -> Counts] : S \in SUBSET RowId}
Writes == UNION {[S -> Int] : S \in SUBSET (RowId \X Col)}

SessionType ==
  [request : Request \cup {NoRequest}, lines : Seq(OrderLine),
   todo : SUBSET RowId, short : Nat, calls : Seq(Call),
   made : [{"on_hand", "reserved"} \X Item -> Int], held : Held,
   object : {NoObject} \cup [row : {NoRow}, call : Call]
              \cup [row : RowId, call : Call, image : Counts],
   writes : Writes, saw : OrderType]

\* What is flushed keeps the counts at zero or above, a row that is not
\* committed is flushed as a whole, and the session holds rows it can see.
SoundRows(w) ==
  /\ \A x \in DOMAIN tx[w].writes : x[2] # "available" => tx[w].writes[x] >= 0
  /\ \A r \in Locked(w) : r \in DOMAIN rows \/ \A c \in Col : <<r, c>> \in DOMAIN tx[w].writes
  /\ tx[w].todo \subseteq DOMAIN tx[w].held
  /\ DOMAIN tx[w].held \subseteq DOMAIN rows \cup Locked(w)
  /\ Loads(w) => tx[w].object.row \in RowsOf(w, tx[w].object.call.item)

\* An approval only adds to reservations, and a pick has its checks behind it.
SoundRequest(w) ==
  /\ tx[w].request.kind = "approve" =>
       /\ tx[w].calls = <<>>
       /\ tx[w].object # NoObject => tx[w].object.call.qty >= 0
       /\ \A i \in Item : tx[w].made[<<"reserved", i>>] >= 0
  /\ tx[w].request.kind = "pick" =>
       /\ tx[w].request.task \in DOMAIN tx[w].saw.tasks
       /\ tx[w].request.qty <= tx[w].saw.reserved[tx[w].request.item]

Types ==
  /\ DOMAIN rows \subseteq RowId
  /\ rows \in [DOMAIN rows -> Counts]
  /\ ledger \in [Item -> Int]
  /\ order \in [Order -> OrderType]
  /\ tx \in [Worker -> SessionType]
  /\ missed = [w \in Worker |-> missed[w]]
  /\ \A w \in Worker : /\ SoundRows(w) /\ SoundRequest(w)
                       /\ ~Active(w) => tx[w] = Idle

-----------------------------------------------------------------------------
(* Rows and calls *)

LEMMA RowCounts ==
  ASSUME NEW on_hand \in Nat, NEW reserved \in Nat
  PROVE  Row(on_hand, reserved) \in Counts
BY DEF Row, Counts

LEMMA AssignedCounts ==
  ASSUME NEW image \in Counts, NEW call \in Call, ~Refused(image, call)
  PROVE  Assigned(image, call) \in Counts
<1>1. image.on_hand \in Nat /\ image.reserved \in Nat
  BY DEF Counts
<1>2. call.qty \in Int /\ call.col \in {"on_hand", "reserved"}
  BY DEF Call
<1>3. OnHand(image, call) \in Nat /\ Reserved(image, call) \in Nat
  BY <1>1, <1>2 DEF Refused, OnHand, Reserved
<1> QED
  BY <1>3, RowCounts DEF Assigned

LEMMA SessionFacts ==
  ASSUME Types, NEW w \in Worker
  PROVE  /\ tx[w] \in SessionType
         /\ tx[w].writes \in [DOMAIN tx[w].writes -> Int]
         /\ DOMAIN tx[w].writes \subseteq RowId \X Col
         /\ tx[w].held \in [DOMAIN tx[w].held -> Counts]
         /\ DOMAIN tx[w].held \subseteq RowId
         /\ Locked(w) \subseteq RowId
         /\ SoundRows(w) /\ SoundRequest(w)
<1>1. tx[w] \in SessionType
  BY DEF Types
<1>2. tx[w].writes \in Writes /\ tx[w].held \in Held
  BY <1>1 DEF SessionType
<1>3. tx[w].writes \in [DOMAIN tx[w].writes -> Int] /\ DOMAIN tx[w].writes \subseteq RowId \X Col
  BY <1>2 DEF Writes
<1>4. tx[w].held \in [DOMAIN tx[w].held -> Counts] /\ DOMAIN tx[w].held \subseteq RowId
  BY <1>2 DEF Held
<1>5. Locked(w) \subseteq RowId
  BY <1>3 DEF Locked
<1> QED
  BY <1>1, <1>3, <1>4, <1>5 DEF Types

LEMMA VisibleCounts ==
  ASSUME Types, NEW w \in Worker, NEW r \in DOMAIN rows \cup Locked(w)
  PROVE  /\ r \in RowId /\ r[1] \in Item /\ Visible(w)[r] \in Counts
         /\ Visible(w)[r].on_hand = Cell(w, r, "on_hand")
         /\ Visible(w)[r].reserved = Cell(w, r, "reserved")
         /\ Visible(w)[r].available = Cell(w, r, "available")
<1>1. r \in RowId
  BY SessionFacts DEF Types
<1>2. r \in DOMAIN rows => rows[r] \in Counts
  BY DEF Types
<1>3. r \in DOMAIN rows \/ \A c \in Col : <<r, c>> \in DOMAIN tx[w].writes
  BY SessionFacts DEF SoundRows
<1>4. \A c \in Col : <<r, c>> \in DOMAIN tx[w].writes =>
        /\ tx[w].writes[<<r, c>>] \in Int
        /\ c # "available" => tx[w].writes[<<r, c>>] >= 0
  BY SessionFacts DEF SoundRows
<1>5. Cell(w, r, "on_hand") \in Nat
  BY <1>2, <1>3, <1>4 DEF Cell, Col, Counts
<1>6. Cell(w, r, "reserved") \in Nat
  BY <1>2, <1>3, <1>4 DEF Cell, Col, Counts
<1>7. Cell(w, r, "available") \in Int
  BY <1>2, <1>3, <1>4 DEF Cell, Col, Counts
<1> QED
  BY <1>1, <1>5, <1>6, <1>7 DEF Visible, Counts, RowId

LEMMA LoadedCounts ==
  ASSUME Types, NEW w \in Worker, NEW r \in DOMAIN rows \cup Locked(w)
  PROVE  Loaded(w, r) \in Counts
BY VisibleCounts, SessionFacts DEF Loaded

-----------------------------------------------------------------------------
(* The steps of a session *)

LEMMA IdleIsSession ==
  /\ Idle \in SessionType /\ DOMAIN Idle.writes = {} /\ DOMAIN Idle.held = {}
  /\ Idle.request = NoRequest /\ Idle.object = NoObject /\ Idle.todo = {}
<1>1. Empty \in [{} -> Counts] /\ Empty \in [{} -> Int]
  BY DEF Empty
<1>2. Empty \in Held /\ Empty \in Writes
  BY <1>1 DEF Held, Writes
<1>3. NewOrder \in OrderType
  BY DEF NewOrder, OrderType
<1>4. [x \in {"on_hand", "reserved"} \X Item |-> 0] \in [{"on_hand", "reserved"} \X Item -> Int]
  OBVIOUS
<1> QED
  BY <1>1, <1>2, <1>3, <1>4 DEF Idle, SessionType, Empty

LEMMA SessionAfter ==
  ASSUME Types, NEW w \in Worker, NEW s \in SessionType,
         tx' = [tx EXCEPT ![w] = s], UNCHANGED <<database, missed>>,
         SoundRows(w)', SoundRequest(w)', ~Active(w)' => s = Idle
  PROVE  Types'
<1>1. tx' \in [Worker -> SessionType] /\ tx'[w] = s
  BY DEF Types
<1>2. ASSUME NEW v \in Worker, v # w
      PROVE  SoundRows(v)' /\ SoundRequest(v)' /\ (~Active(v)' => tx'[v] = Idle)
  <2>1. tx'[v] = tx[v] /\ rows' = rows
    BY <1>2 DEF Types, database
  <2>2. SoundRows(v) /\ SoundRequest(v) /\ (~Active(v) => tx[v] = Idle)
    BY DEF Types
  <2> QED
    BY <2>1, <2>2 DEF SoundRows, SoundRequest, Active, Locked, Loads, RowsOf
<1>3. rows' = rows /\ ledger' = ledger /\ order' = order /\ missed' = missed
  BY DEF database
<1> QED
  BY <1>1, <1>2, <1>3 DEF Types

\* What a request that has begun holds.
LEMMA BegunSession ==
  ASSUME Types, NEW w \in Worker, NEW s \in SessionType,
         tx' = [tx EXCEPT ![w] = s], UNCHANGED <<database, missed>>,
         s.request \in Request, s.writes = Empty, s.todo = {}, s.object = NoObject,
         s.made = Idle.made, DOMAIN s.held \subseteq DOMAIN rows,
         s.request.kind = "approve" => s.calls = <<>>,
         s.request.kind = "pick" => /\ s.request.task \in DOMAIN s.saw.tasks
                                    /\ s.request.qty <= s.saw.reserved[s.request.item]
  PROVE  Types'
<1>1. tx'[w] = s
  BY DEF Types
<1>2. SoundRows(w)'
  <2>1. DOMAIN tx'[w].writes = {} /\ tx'[w].object.row = NoRow /\ rows' = rows
    BY <1>1 DEF Empty, NoObject, database
  <2>2. Locked(w)' = {}
    BY <2>1 DEF Locked
  <2> QED
    BY <1>1, <2>1, <2>2 DEF SoundRows, Loads
<1>3. SoundRequest(w)'
  <2>1. \A i \in Item : s.made[<<"reserved", i>>] = 0
    BY DEF Idle
  <2> QED
    BY <1>1, <2>1 DEF SoundRequest
<1>4. s.request.kind # "none"
  BY DEF Request
<1>5. Active(w)'
  BY <1>1, <1>4 DEF Active, NoRequest
<1> QED
  BY <1>2, <1>3, <1>5, SessionAfter

LEMMA BeginTypes ==
  ASSUME Types, NEW w \in Worker, Begin(w)
  PROVE  Types'
<1> USE IdleIsSession
<1>1. tx[w] = Idle /\ UNCHANGED <<database, missed>>
  BY DEF Begin, BeginApprove, BeginGenerate, BeginPick, BeginReceive, BeginTransfer, Start, Types
<1>2. PICK q \in Requests :
    \/ q.kind = "approve" /\ BeginApprove(w, q.order)
    \/ q.kind = "generate" /\ BeginGenerate(w, q.order)
    \/ q.kind = "pick" /\ BeginPick(w, q.order, q.task, q.item, q.to, q.qty)
    \/ q.kind = "receive" /\ BeginReceive(w, q.item, q.qty)
    \/ q.kind = "transfer" /\ BeginTransfer(w, q.item, q.to, q.qty)
  BY DEF Begin
<1>3. q \in Request
  BY TransactionsAssumption
<1>4. ASSUME NEW i \in Item, NEW n \in Int
      PROVE  Reserve(i, n) \in Call /\ Post(i, n) \in Call
  BY DEF Reserve, Post, Call
<1>5. CASE q.kind = "approve" /\ BeginApprove(w, q.order)
  <2> DEFINE r == [kind |-> "approve", order |-> q.order]
             s == [Idle EXCEPT !.request = r, !.lines = OrderLines[q.order],
                               !.saw = order[q.order]]
  <2>1. q.order \in Order /\ r \in Request
    BY <1>3, <1>5 DEF Request
  <2>2. OrderLines[q.order] \in Seq(OrderLine) /\ order[q.order] \in OrderType
    BY <2>1, TransactionsAssumption DEF Types
  <2>3. s \in SessionType
    BY <2>1, <2>2 DEF SessionType, Idle
  <2>4. tx' = [tx EXCEPT ![w] = s]
    BY <1>1, <1>5 DEF BeginApprove
  <2> QED
    BY <1>1, <2>1, <2>3, <2>4, BegunSession DEF Idle, Empty
<1>6. CASE q.kind = "generate" /\ BeginGenerate(w, q.order)
  <2> DEFINE r == [kind |-> "generate", order |-> q.order]
             s == [Idle EXCEPT !.request = r, !.saw = order[q.order]]
  <2>1. q.order \in Order /\ r \in Request
    BY <1>3, <1>6 DEF Request
  <2>2. order[q.order] \in OrderType
    BY <2>1 DEF Types
  <2>3. s \in SessionType
    BY <2>1, <2>2 DEF SessionType, Idle
  <2>4. tx' = [tx EXCEPT ![w] = s]
    BY <1>1, <1>6 DEF BeginGenerate
  <2> QED
    BY <1>1, <2>1, <2>3, <2>4, BegunSession DEF Idle, Empty
<1>7. CASE q.kind = "pick" /\ BeginPick(w, q.order, q.task, q.item, q.to, q.qty)
  <2> DEFINE r == [kind |-> "pick", order |-> q.order, task |-> q.task, item |-> q.item,
                   to |-> q.to, qty |-> q.qty]
             c == <<Reserve(q.item, -q.qty), Post(q.item, -q.qty), Post(q.to, q.qty)>>
             s == [Idle EXCEPT !.request = r, !.saw = order[q.order], !.calls = c]
  <2>1. /\ q.order \in Order /\ q.task \in Nat /\ q.item \in Item /\ q.to \in Item
        /\ q.qty \in Qty /\ r \in Request
    BY <1>3, <1>7 DEF Request
  <2>2. order[q.order] \in OrderType
    BY <2>1 DEF Types
  <2>3. c \in Seq(Call)
    BY <1>4, <2>1 DEF Qty
  <2>4. s \in SessionType
    BY <2>1, <2>2, <2>3 DEF SessionType, Idle
  <2>5. /\ tx' = [tx EXCEPT ![w] = s]
        /\ q.task \in DOMAIN order[q.order].tasks
        /\ q.qty <= order[q.order].reserved[q.item]
    BY <1>1, <1>7 DEF BeginPick
  <2> QED
    BY <1>1, <2>1, <2>4, <2>5, BegunSession DEF Idle, Empty
<1>8. CASE q.kind = "receive" /\ BeginReceive(w, q.item, q.qty)
  <2> DEFINE r == [kind |-> "receive", item |-> q.item, qty |-> q.qty]
             s == [Idle EXCEPT !.request = r, !.calls = <<Post(q.item, q.qty)>>]
  <2>1. q.item \in Item /\ q.qty \in Qty /\ r \in Request
    BY <1>3, <1>8 DEF Request
  <2>2. <<Post(q.item, q.qty)>> \in Seq(Call)
    BY <1>4, <2>1 DEF Qty
  <2>3. s \in SessionType
    BY <2>1, <2>2 DEF SessionType, Idle
  <2>4. tx' = [tx EXCEPT ![w] = s]
    BY <1>1, <1>8 DEF BeginReceive
  <2> QED
    BY <1>1, <2>1, <2>3, <2>4, BegunSession DEF Idle, Empty
<1>9. CASE q.kind = "transfer" /\ BeginTransfer(w, q.item, q.to, q.qty)
  <2> DEFINE r == [kind |-> "transfer", item |-> q.item, to |-> q.to, qty |-> q.qty]
             c == <<Post(q.item, -q.qty), Post(q.to, q.qty)>>
  <2>1. q.item \in Item /\ q.to \in Item /\ q.qty \in Qty /\ r \in Request
    BY <1>3, <1>9 DEF Request
  <2>2. PICK x \in RowsOf(w, q.item) :
          tx' = [tx EXCEPT ![w] = [Idle EXCEPT !.request = r,
                    !.held = [y \in {x} |-> Loaded(w, y)], !.calls = c]]
    BY <1>1, <1>9 DEF BeginTransfer
  <2> DEFINE h == [y \in {x} |-> Loaded(w, y)]
             s == [Idle EXCEPT !.request = r, !.held = h, !.calls = c]
  <2>3. c \in Seq(Call)
    BY <1>4, <2>1 DEF Qty
  <2>4. x \in DOMAIN rows \cup Locked(w) /\ x \in RowId
    BY VisibleCounts DEF RowsOf
  <2>5. x \in DOMAIN rows
    BY <1>1, <2>4 DEF Locked
  <2>6. h \in [{x} -> Counts]
    BY <2>4, LoadedCounts
  <2>7. h \in Held
    BY <2>4, <2>6 DEF Held
  <2>8. s \in SessionType
    BY <2>1, <2>3, <2>7 DEF SessionType, Idle
  <2>9. DOMAIN s.held \subseteq DOMAIN rows
    BY <2>5 DEF Idle
  <2>10. /\ s.request = r /\ s.writes = Empty /\ s.todo = {} /\ s.object = NoObject
         /\ s.made = Idle.made /\ r.kind = "transfer"
    BY DEF Idle
  <2>11. tx' = [tx EXCEPT ![w] = s]
    BY <2>2
  <2> HIDE DEF s
  <2> QED
    BY <1>1, <2>1, <2>8, <2>9, <2>10, <2>11, BegunSession
<1> QED
  BY <1>2, <1>5, <1>6, <1>7, <1>8, <1>9

\* The SELECT of a service call.
LEMMA FindTypes ==
  ASSUME Types, NEW w \in Worker, NEW call \in Call, NEW session \in SessionType,
         Find(w, call, session), Active(w), UNCHANGED <<database, missed>>,
         session.request = tx[w].request, session.writes = tx[w].writes,
         session.held = tx[w].held, session.todo \subseteq tx[w].todo,
         session.made = tx[w].made, session.saw = tx[w].saw,
         tx[w].request.kind = "approve" => session.calls = <<>> /\ call.qty >= 0
  PROVE  Types'
<1>1. SoundRows(w) /\ SoundRequest(w)
  BY SessionFacts
<1>2. ASSUME NEW object,
             \/ object = [row |-> NoRow, call |-> call]
             \/ \E r \in RowsOf(w, call.item) :
                  object = [row |-> r, call |-> call, image |-> Loaded(w, r)],
             tx' = [tx EXCEPT ![w] = [session EXCEPT !.object = object]]
      PROVE  Types'
  <2> DEFINE s == [session EXCEPT !.object = object]
  <2>1. \/ object \in [row : {NoRow}, call : Call]
        \/ object \in [row : RowId, call : Call, image : Counts]
    BY <1>2, VisibleCounts, LoadedCounts DEF RowsOf
  <2>2. /\ object.call = call
        /\ object.row = NoRow \/ object.row \in RowsOf(w, call.item)
    BY <1>2
  <2>3. s \in SessionType
    BY <2>1 DEF SessionType
  <2>4. /\ s.request = tx[w].request /\ s.writes = tx[w].writes /\ s.held = tx[w].held
        /\ s.todo \subseteq tx[w].todo /\ s.made = tx[w].made /\ s.saw = tx[w].saw
        /\ s.calls = session.calls /\ s.object = object
    BY DEF SessionType
  <2>5. tx' = [tx EXCEPT ![w] = s]
    BY <1>2
  <2> HIDE DEF s
  <2>6. tx'[w] = s /\ rows' = rows
    BY <2>5 DEF Types, database
  <2>7. Locked(w)' = Locked(w) /\ RowsOf(w, call.item)' = RowsOf(w, call.item)
    BY <2>4, <2>6 DEF Locked, RowsOf
  <2>8. SoundRows(w)'
    BY <1>1, <2>2, <2>4, <2>6, <2>7 DEF SoundRows, Loads
  <2>9. SoundRequest(w)'
    BY <1>1, <2>2, <2>4, <2>6 DEF SoundRequest
  <2>10. Active(w)'
    BY <2>4, <2>6 DEF Active
  <2> QED
    BY <2>3, <2>5, <2>8, <2>9, <2>10, SessionAfter
<1> QED
  BY <1>2 DEF Find

LEMMA ReadCandidatesTypes ==
  ASSUME Types, NEW w \in Worker, ReadCandidates(w)
  PROVE  Types'
<1> DEFINE line == Head(tx[w].lines)
           seen == Visible(w)
           cand == {r \in DOMAIN seen : /\ ProductOf[r[1]] = line.product
                                        /\ seen[r].available > 0}
           s == [tx[w] EXCEPT !.lines = Tail(tx[w].lines), !.todo = cand,
                              !.short = line.qty, !.held = [r \in cand |-> seen[r]]]
<1>1. tx[w] \in SessionType /\ SoundRows(w) /\ SoundRequest(w)
  BY SessionFacts
<1>2. /\ tx[w].lines # <<>> /\ tx[w].object = NoObject
      /\ UNCHANGED <<database, missed>>
  BY DEF ReadCandidates
<1>3. tx' = [tx EXCEPT ![w] = s]
  BY <1>1 DEF ReadCandidates, Types, SessionType
<1>4. Tail(tx[w].lines) \in Seq(OrderLine) /\ line \in OrderLine
  BY <1>1, <1>2, HeadTailProperties DEF SessionType
<1>5. line.qty \in Nat
  BY <1>4 DEF OrderLine, Qty
<1>6. cand \subseteq DOMAIN rows \cup Locked(w)
  BY DEF Visible
<1>7. cand \subseteq RowId /\ [r \in cand |-> seen[r]] \in [cand -> Counts]
  BY <1>6, VisibleCounts
<1>8. [r \in cand |-> seen[r]] \in Held
  BY <1>7 DEF Held
<1>9. s \in SessionType
  <2> HIDE DEF cand, line, seen
  <2> QED
    BY <1>1, <1>4, <1>5, <1>7, <1>8 DEF SessionType
<1>10. /\ s.request = tx[w].request /\ s.writes = tx[w].writes /\ DOMAIN s.held = cand
       /\ s.todo = cand /\ s.made = tx[w].made /\ s.saw = tx[w].saw
       /\ s.calls = tx[w].calls /\ s.object = NoObject
  <2> HIDE DEF cand, line, seen
  <2> QED
    BY <1>1, <1>2 DEF SessionType
<1> HIDE DEF s, cand, line, seen
<1>11. tx'[w] = s /\ rows' = rows
  BY <1>2, <1>3 DEF Types, database
<1>12. Locked(w)' = Locked(w)
  BY <1>10, <1>11 DEF Locked
<1>13. SoundRows(w)'
  BY <1>1, <1>6, <1>10, <1>11, <1>12 DEF SoundRows, Loads, NoObject
<1>14. SoundRequest(w)'
  BY <1>1, <1>10, <1>11 DEF SoundRequest
<1>15. Active(w)
  BY <1>2 DEF Types, Idle
<1>16. Active(w)'
  BY <1>10, <1>11, <1>15 DEF Active
<1> QED
  BY <1>2, <1>3, <1>9, <1>13, <1>14, <1>16, SessionAfter

LEMMA NextReserveTypes ==
  ASSUME Types, NEW w \in Worker, NextReserve(w)
  PROVE  Types'
<1>1. tx[w] \in SessionType /\ SoundRows(w) /\ SoundRequest(w)
  BY SessionFacts
<1>2. tx[w].short > 0 /\ UNCHANGED <<database, missed>>
  BY DEF NextReserve
<1>3. Active(w)
  BY <1>2 DEF Types, Idle
<1>4. PICK r \in Left(w) :
        LET available == tx[w].held[r].available
            take == IF tx[w].short < available THEN tx[w].short ELSE available
        IN  Find(w, Reserve(r[1], take), [tx[w] EXCEPT !.todo = @ \ {r}, !.short = @ - take])
  BY DEF NextReserve
<1> DEFINE available == tx[w].held[r].available
           take == IF tx[w].short < available THEN tx[w].short ELSE available
           s == [tx[w] EXCEPT !.todo = @ \ {r}, !.short = @ - take]
<1>5. r \in tx[w].todo /\ r \in DOMAIN tx[w].held /\ available > 0
  BY <1>1 DEF Left, SoundRows
<1>6. available \in Int /\ r[1] \in Item
  BY <1>5, SessionFacts DEF Counts, RowId
<1>7. tx[w].short \in Nat
  BY <1>1 DEF SessionType
<1>8. take \in Nat /\ take <= tx[w].short
  BY <1>2, <1>5, <1>6, <1>7
<1> HIDE DEF take
<1>9. Reserve(r[1], take) \in Call /\ Reserve(r[1], take).qty >= 0
  BY <1>6, <1>8 DEF Reserve, Call
<1>10. tx[w].short - take \in Nat
  BY <1>7, <1>8
<1>11. s \in SessionType
  BY <1>1, <1>10 DEF SessionType
<1>12. /\ s.request = tx[w].request /\ s.writes = tx[w].writes /\ s.held = tx[w].held
       /\ s.todo \subseteq tx[w].todo /\ s.made = tx[w].made /\ s.saw = tx[w].saw
       /\ s.calls = tx[w].calls
  BY <1>1 DEF SessionType
<1>13. Find(w, Reserve(r[1], take), s)
  BY <1>4 DEF take
<1> HIDE DEF s
<1> QED
  BY <1>1, <1>2, <1>3, <1>9, <1>11, <1>12, <1>13, FindTypes DEF SoundRequest

LEMMA NextCallTypes ==
  ASSUME Types, NEW w \in Worker, NextCall(w)
  PROVE  Types'
<1> DEFINE call == Head(tx[w].calls)
           s == [tx[w] EXCEPT !.calls = Tail(@)]
<1>1. tx[w] \in SessionType /\ SoundRows(w) /\ SoundRequest(w)
  BY SessionFacts
<1>2. tx[w].calls # <<>> /\ Find(w, call, s) /\ UNCHANGED <<database, missed>>
  BY DEF NextCall
<1>3. Active(w)
  BY <1>2 DEF Types, Idle
<1>4. call \in Call /\ Tail(tx[w].calls) \in Seq(Call)
  BY <1>1, <1>2, HeadTailProperties DEF SessionType
<1>5. s \in SessionType
  BY <1>1, <1>4 DEF SessionType
<1>6. /\ s.request = tx[w].request /\ s.writes = tx[w].writes /\ s.held = tx[w].held
      /\ s.todo \subseteq tx[w].todo /\ s.made = tx[w].made /\ s.saw = tx[w].saw
  BY <1>1 DEF SessionType
<1>7. tx[w].request.kind # "approve"
  BY <1>1, <1>2 DEF SoundRequest
<1> HIDE DEF s, call
<1> QED
  BY <1>2, <1>3, <1>4, <1>5, <1>6, <1>7, FindTypes

LEMMA InsertRowTypes ==
  ASSUME Types, NEW w \in Worker, InsertRow(w)
  PROVE  Types'
<1> DEFINE call == tx[w].object.call
<1>1. tx[w] \in SessionType /\ SoundRows(w) /\ SoundRequest(w) /\ Locked(w) \subseteq RowId
  BY SessionFacts
<1>2. Missing(w) /\ UNCHANGED <<database, missed>>
  BY DEF InsertRow
<1>3. PICK c \in Copy :
        LET r == <<call.item, c>>
        IN  tx' = [tx EXCEPT ![w] = [tx[w] EXCEPT
                !.object = [row |-> r, call |-> call, image |-> Row(0, 0)],
                !.writes = [x \in DOMAIN tx[w].writes \cup ({r} \X Col) |->
                              IF x[1] = r THEN 0 ELSE tx[w].writes[x]]]]
  BY DEF InsertRow
<1> DEFINE r == <<call.item, c>>
           writes == [x \in DOMAIN tx[w].writes \cup ({r} \X Col) |->
                        IF x[1] = r THEN 0 ELSE tx[w].writes[x]]
           object == [row |-> r, call |-> call, image |-> Row(0, 0)]
           s == [tx[w] EXCEPT !.object = object, !.writes = writes]
<1>4. call \in Call /\ tx[w].object # NoObject
  BY <1>1, <1>2 DEF Missing, SessionType, RowId
<1>5. r \in RowId /\ Row(0, 0) \in Counts
  BY <1>4, RowCounts DEF RowId, Call
<1>6. object \in [row : RowId, call : Call, image : Counts]
  BY <1>4, <1>5
<1>7. /\ tx[w].writes \in [DOMAIN tx[w].writes -> Int]
      /\ DOMAIN tx[w].writes \subseteq RowId \X Col
  BY SessionFacts
<1>8. /\ writes \in [DOMAIN tx[w].writes \cup ({r} \X Col) -> Int]
      /\ DOMAIN tx[w].writes \cup ({r} \X Col) \subseteq RowId \X Col
  BY <1>5, <1>7
<1>9. writes \in Writes
  BY <1>8 DEF Writes
<1>10. s \in SessionType
  BY <1>1, <1>6, <1>9 DEF SessionType
<1>11. /\ s.request = tx[w].request /\ s.writes = writes /\ s.held = tx[w].held
       /\ s.todo = tx[w].todo /\ s.made = tx[w].made /\ s.saw = tx[w].saw
       /\ s.calls = tx[w].calls /\ s.object = object
  BY <1>1 DEF SessionType
<1>12. tx' = [tx EXCEPT ![w] = s]
  BY <1>3
<1> HIDE DEF s
<1>13. tx'[w] = s /\ rows' = rows
  BY <1>2, <1>12 DEF Types, database
<1>14. DOMAIN tx'[w].writes = DOMAIN tx[w].writes \cup ({r} \X Col)
  BY <1>11, <1>13
<1>15. Locked(w)' = Locked(w) \cup {r}
  <2> HIDE DEF r
  <2>1. <<r, "on_hand">> \in {r} \X Col
    BY DEF Col
  <2>2. \A x \in {r} \X Col : x[1] = r
    OBVIOUS
  <2> QED
    BY <1>14, <2>1, <2>2 DEF Locked
<1>16. \A x \in DOMAIN writes : x[2] # "available" => writes[x] >= 0
  BY <1>1 DEF SoundRows
<1>17. r \in Locked(w)' /\ r[1] = call.item /\ tx'[w].object = object
  BY <1>11, <1>13, <1>15
<1>18. SoundRows(w)'
  <2>1. \A x \in Locked(w)' : x \in DOMAIN rows' \/ \A d \in Col : <<x, d>> \in DOMAIN tx'[w].writes
    BY <1>1, <1>13, <1>14, <1>15 DEF SoundRows
  <2>2. tx'[w].object.row \in RowsOf(w, tx[w].object.call.item)' /\ tx'[w].object.call = call
    BY <1>17 DEF RowsOf
  <2> QED
    BY <1>1, <1>11, <1>13, <1>15, <1>16, <2>1, <2>2 DEF SoundRows
<1>19. SoundRequest(w)'
  BY <1>1, <1>4, <1>11, <1>13 DEF SoundRequest
<1>20. Active(w)
  BY <1>4 DEF Types, Idle
<1>21. Active(w)'
  BY <1>11, <1>13, <1>20 DEF Active
<1> QED
  BY <1>2, <1>10, <1>12, <1>18, <1>19, <1>21, SessionAfter

LEMMA UpdateRowTypes ==
  ASSUME Types, NEW w \in Worker, UpdateRow(w)
  PROVE  Types'
<1> DEFINE object == tx[w].object
           new == Assigned(object.image, object.call)
           cells == {object.row} \X {c \in Col : new[c] # object.image[c]}
           writes == [x \in DOMAIN tx[w].writes \cup cells |->
                        IF x \in cells THEN new[x[2]] ELSE tx[w].writes[x]]
           held == [r \in DOMAIN tx[w].held |->
                      IF r = object.row THEN new ELSE tx[w].held[r]]
           cell == <<object.call.col, object.call.item>>
           made == [tx[w].made EXCEPT ![cell] = @ + object.call.qty]
           s == [tx[w] EXCEPT !.writes = writes, !.held = held, !.made = made,
                              !.object = NoObject]
<1>1. tx[w] \in SessionType /\ SoundRows(w) /\ SoundRequest(w)
  BY SessionFacts
<1>2. Loads(w) /\ ~Refused(object.image, object.call) /\ UNCHANGED <<database, missed>>
  BY DEF UpdateRow
<1>3. /\ object.row \in RowId /\ object.call \in Call /\ object.image \in Counts
      /\ object # NoObject /\ object.row \in RowsOf(w, object.call.item)
  BY <1>1, <1>2 DEF Loads, SessionType, SoundRows, NoObject
<1>4. new \in Counts
  BY <1>2, <1>3, AssignedCounts
<1>5. tx' = [tx EXCEPT ![w] = s]
  BY <1>1 DEF UpdateRow, Types, SessionType
<1> HIDE DEF new
<1>6. /\ tx[w].writes \in [DOMAIN tx[w].writes -> Int]
      /\ DOMAIN tx[w].writes \subseteq RowId \X Col
      /\ tx[w].held \in [DOMAIN tx[w].held -> Counts] /\ DOMAIN tx[w].held \subseteq RowId
  BY SessionFacts
<1>7. \A c \in Col : new[c] \in Int /\ (c # "available" => new[c] >= 0)
  BY <1>4 DEF Counts, Col
<1>8. cells \subseteq {object.row} \X Col /\ cells \subseteq RowId \X Col
  BY <1>3
<1> HIDE DEF cells
<1>9. writes \in [DOMAIN tx[w].writes \cup cells -> Int]
  <2>1. ASSUME NEW x \in DOMAIN tx[w].writes \cup cells
        PROVE  (IF x \in cells THEN new[x[2]] ELSE tx[w].writes[x]) \in Int
    BY <1>6, <1>7, <1>8
  <2> QED
    BY <2>1
<1>10. writes \in Writes
  BY <1>6, <1>8, <1>9 DEF Writes
<1>11. held \in [DOMAIN tx[w].held -> Counts]
  BY <1>4, <1>6
<1>12. held \in Held
  BY <1>6, <1>11 DEF Held
<1>13. /\ made \in [{"on_hand", "reserved"} \X Item -> Int]
       /\ cell \in {"on_hand", "reserved"} \X Item
       /\ tx[w].made \in [{"on_hand", "reserved"} \X Item -> Int]
  BY <1>1, <1>3 DEF SessionType, Call
<1>14. \A x \in DOMAIN writes : x[2] # "available" => writes[x] >= 0
  BY <1>1, <1>7, <1>8 DEF SoundRows
<1>15. tx[w].request.kind = "approve" => \A i \in Item : made[<<"reserved", i>>] >= 0
  <2> SUFFICES ASSUME tx[w].request.kind = "approve", NEW i \in Item
               PROVE  made[<<"reserved", i>>] >= 0
    OBVIOUS
  <2>1. object.call.qty >= 0 /\ object.call.qty \in Int
        /\ tx[w].made[<<"reserved", i>>] >= 0 /\ tx[w].made[<<"reserved", i>>] \in Int
    BY <1>1, <1>3, <1>13 DEF SoundRequest, Call
  <2>2. made[<<"reserved", i>>] = tx[w].made[<<"reserved", i>>] + object.call.qty
        \/ made[<<"reserved", i>>] = tx[w].made[<<"reserved", i>>]
    BY <1>13
  <2> QED
    BY <2>1, <2>2
<1>16. DOMAIN writes = DOMAIN tx[w].writes \cup cells /\ DOMAIN held = DOMAIN tx[w].held
  OBVIOUS
<1> HIDE DEF writes, held, made
<1>17. s \in SessionType
  BY <1>1, <1>10, <1>12, <1>13 DEF SessionType
<1>18. /\ s.request = tx[w].request /\ s.writes = writes /\ s.held = held
       /\ s.todo = tx[w].todo /\ s.made = made /\ s.saw = tx[w].saw
       /\ s.calls = tx[w].calls /\ s.object = NoObject
  BY <1>1 DEF SessionType
<1> HIDE DEF s
<1>19. tx'[w] = s /\ rows' = rows
  BY <1>2, <1>5 DEF Types, database
<1>20. \A x \in cells : x[1] = object.row
  BY <1>8
<1>21. DOMAIN tx'[w].writes = DOMAIN tx[w].writes \cup cells
  BY <1>16, <1>18, <1>19
<1>22. Locked(w) \subseteq Locked(w)' /\ Locked(w)' \subseteq Locked(w) \cup {object.row}
  BY <1>20, <1>21 DEF Locked
<1>23. SoundRows(w)'
  <2>1. \A r \in Locked(w)' : r \in DOMAIN rows' \/ \A c \in Col : <<r, c>> \in DOMAIN tx'[w].writes
    <3>1. object.row \in DOMAIN rows \/ object.row \in Locked(w)
      BY <1>3 DEF RowsOf
    <3> QED
      BY <1>1, <1>19, <1>21, <1>22, <3>1 DEF SoundRows
  <2>2. ~Loads(w)'
    BY <1>18, <1>19 DEF Loads, NoObject
  <2> QED
    BY <1>1, <1>14, <1>16, <1>18, <1>19, <1>22, <2>1, <2>2 DEF SoundRows
<1>24. SoundRequest(w)'
  BY <1>1, <1>15, <1>18, <1>19 DEF SoundRequest
<1>25. Active(w)
  BY <1>3 DEF Types, Idle
<1>26. Active(w)'
  BY <1>18, <1>19, <1>25 DEF Active
<1> QED
  BY <1>2, <1>5, <1>17, <1>23, <1>24, <1>26, SessionAfter

\* A session that ends leaves rows that are sound for the others.
LEMMA IdleIsSound ==
  ASSUME NEW w \in Worker, tx[w] = Idle
  PROVE  SoundRows(w) /\ SoundRequest(w)
<1>1. /\ DOMAIN tx[w].writes = {} /\ DOMAIN tx[w].held = {} /\ tx[w].todo = {}
      /\ tx[w].object.row = NoRow /\ tx[w].request.kind = "none"
  BY IdleIsSession DEF NoObject, NoRequest
<1>2. Locked(w) = {}
  BY <1>1 DEF Locked
<1> QED
  BY <1>1, <1>2 DEF SoundRows, SoundRequest, Loads

LEMMA RollbackTypes ==
  ASSUME Types, NEW w \in Worker, Rollback(w)
  PROVE  Types'
<1>1. /\ rows' = rows /\ ledger' = ledger /\ order' = order
      /\ missed' = [missed EXCEPT ![w] = {}]
  BY DEF Rollback, database
<1>2. tx' = [tx EXCEPT ![w] = Idle]
  BY DEF Rollback, Closed
<1>3. tx' \in [Worker -> SessionType] /\ tx'[w] = Idle
  BY <1>2, IdleIsSession DEF Types
<1>4. SoundRows(w)' /\ SoundRequest(w)'
  <2>1. /\ DOMAIN tx'[w].writes = {} /\ DOMAIN tx'[w].held = {} /\ tx'[w].todo = {}
        /\ tx'[w].object.row = NoRow /\ tx'[w].request.kind = "none"
    BY <1>3, IdleIsSession DEF NoObject, NoRequest
  <2>2. Locked(w)' = {}
    BY <2>1 DEF Locked
  <2> QED
    BY <2>1, <2>2 DEF SoundRows, SoundRequest, Loads
<1>5. ASSUME NEW v \in Worker, v # w
      PROVE  SoundRows(v)' /\ SoundRequest(v)' /\ (~Active(v)' => tx'[v] = Idle)
  <2>1. tx'[v] = tx[v] /\ rows' = rows
    BY <1>1, <1>2, <1>5 DEF Types
  <2>2. SoundRows(v) /\ SoundRequest(v) /\ (~Active(v) => tx[v] = Idle)
    BY DEF Types
  <2> QED
    BY <2>1, <2>2 DEF SoundRows, SoundRequest, Active, Locked, Loads, RowsOf
<1>6. missed' = [v \in Worker |-> missed'[v]]
  BY <1>1 DEF Types
<1> QED
  BY <1>1, <1>3, <1>4, <1>5, <1>6 DEF Types

\* The order a commit leaves is an order.
LEMMA OrderAfterType ==
  ASSUME Types, NEW w \in Worker, NEW o \in Order, o \in Touched(w)
  PROVE  OrderAfter(w) \in OrderType /\ tx[w].request.order = o
<1> DEFINE q == tx[w].request
           now == order[o]
           saw == tx[w].saw
           fresh == [i \in Item |-> [to_pick |-> saw.reserved[i], picked |-> 0]]
<1>1. /\ tx[w] \in SessionType /\ SoundRequest(w) /\ Locked(w) \subseteq RowId
      /\ q \in Request \cup {NoRequest} /\ saw \in OrderType
      /\ tx[w].made \in [{"on_hand", "reserved"} \X Item -> Int]
  BY SessionFacts DEF SessionType
<1>2. \A r \in Locked(w) : r[1] # o
  BY <1>1, TransactionsAssumption DEF RowId
<1>3. "order" \in DOMAIN q /\ q.order = o
  BY <1>2 DEF Touched
<1>4. now \in OrderType
  BY DEF Types
<1>5. q.kind \in {"approve", "generate", "pick"} /\ (q.kind = "pick" =>
        q.task \in Nat /\ q.item \in Item /\ q.qty \in Nat)
  BY <1>1, <1>3 DEF Request, NoRequest, Qty
<1>6. CASE q.kind = "approve"
  <2> DEFINE reserved == [i \in Item |-> now.reserved[i] + tx[w].made[<<"reserved", i>>]]
  <2>1. reserved \in [Item -> Nat]
    BY <1>1, <1>4, <1>6 DEF SoundRequest, OrderType
  <2>2. OrderAfter(w) = [now EXCEPT !.status = "APPROVED", !.reserved = reserved]
    BY <1>3, <1>4, <1>6 DEF OrderAfter, OrderApproved, OrderType
  <2> QED
    BY <1>3, <1>4, <2>1, <2>2 DEF OrderType
<1>7. CASE q.kind = "generate"
  <2>1. fresh \in [Item -> [to_pick : Nat, picked : Nat]]
    BY <1>1 DEF OrderType
  <2>2. Append(now.tasks, fresh) \in Seq([Item -> [to_pick : Nat, picked : Nat]])
    BY <1>4, <2>1, AppendProperties DEF OrderType
  <2>3. OrderAfter(w) = [now EXCEPT !.status = "PICKING", !.tasks = Append(now.tasks, fresh)]
    BY <1>3, <1>4, <1>7 DEF OrderAfter, OrderTasked, OrderType
  <2> QED
    BY <1>3, <1>4, <2>2, <2>3 DEF OrderType
<1>8. CASE q.kind = "pick"
  <2> DEFINE left == saw.reserved[q.item] - q.qty
             picked == saw.tasks[q.task][q.item].picked + q.qty
             reserved == [now.reserved EXCEPT ![q.item] = left]
             Lines == [Item -> [to_pick : Nat, picked : Nat]]
             line == [now.tasks[q.task] EXCEPT ![q.item] = [@ EXCEPT !.picked = picked]]
             tasks == [now.tasks EXCEPT ![q.task] = line]
  <2>1. q.task \in DOMAIN saw.tasks /\ q.qty <= saw.reserved[q.item]
    BY <1>1, <1>8 DEF SoundRequest
  <2>2. saw.reserved[q.item] \in Nat /\ saw.tasks[q.task] \in Lines
    <3>1. saw.tasks \in Seq(Lines) /\ saw.reserved \in [Item -> Nat]
      BY <1>1 DEF OrderType
    <3>2. q.task \in 1 .. Len(saw.tasks)
      BY <2>1, <3>1, LenProperties
    <3> QED
      BY <1>5, <1>8, <3>1, <3>2, ElementOfSeq
  <2>3. left \in Nat
    BY <1>5, <1>8, <2>1, <2>2
  <2>4. picked \in Nat
    <3>1. q.item \in Item /\ q.qty \in Nat
      BY <1>5, <1>8
    <3>2. saw.tasks[q.task][q.item].picked \in Nat
      <4> DEFINE t == saw.tasks[q.task]
                 entry == t[q.item]
      <4>1. t \in Lines
        BY <2>2
      <4> HIDE DEF t
      <4>2. entry \in [to_pick : Nat, picked : Nat]
        BY <3>1, <4>1
      <4> HIDE DEF entry
      <4>3. entry.picked \in Nat
        BY <4>2
      <4> QED
        BY <4>3 DEF entry, t
    <3> QED
      BY <3>1, <3>2
  <2>5. reserved \in [Item -> Nat]
    BY <1>4, <2>3 DEF OrderType
  <2> HIDE DEF left, picked
  <2>6. now.tasks \in Seq(Lines)
    BY <1>4 DEF OrderType
  <2>7. q.task \in DOMAIN now.tasks => line \in Lines
    <3> SUFFICES ASSUME q.task \in DOMAIN now.tasks
                 PROVE  line \in Lines
      OBVIOUS
    <3>1. now.tasks[q.task] \in Lines
      BY <2>6, LenProperties, ElementOfSeq
    <3> QED
      BY <2>4, <3>1
  <2> HIDE DEF line
  <2>8. tasks \in Seq(Lines)
    <3>1. CASE q.task \in DOMAIN now.tasks
      BY <2>6, <2>7, <3>1, LenProperties, ExceptSeq
    <3>2. CASE q.task \notin DOMAIN now.tasks
      <4>1. now.tasks = [n \in 1 .. Len(now.tasks) |-> now.tasks[n]]
        BY <2>6, LenProperties
      <4>2. tasks = now.tasks
        BY <3>2, <4>1
      <4> QED
        BY <2>6, <4>2
    <3> QED
      BY <3>1, <3>2
  <2>9. OrderAfter(w) = [now EXCEPT !.reserved = reserved, !.tasks = tasks]
    BY <1>3, <1>4, <1>8 DEF OrderAfter, OrderPicked, OrderType, line, left, picked
  <2> HIDE DEF reserved, tasks
  <2> QED
    BY <1>3, <1>4, <2>5, <2>8, <2>9 DEF OrderType
<1> QED
  BY <1>5, <1>6, <1>7, <1>8

LEMMA CommitTypes ==
  ASSUME Types, NEW w \in Worker, Commit(w)
  PROVE  Types'
<1>1. /\ rows' = Visible(w)
      /\ ledger' = [i \in Item |-> ledger[i] + tx[w].made[<<"on_hand", i>>]]
      /\ order' = [o \in Order |-> IF o \in Touched(w) THEN OrderAfter(w) ELSE order[o]]
      /\ missed' = [v \in Worker |-> IF v = w THEN {}
                                 ELSE IF Active(v) THEN missed[v] \cup Touched(w) ELSE {}]
      /\ tx' = [tx EXCEPT ![w] = Idle]
  BY DEF Commit, Closed
<1>2. /\ tx[w].made \in [{"on_hand", "reserved"} \X Item -> Int]
      /\ Locked(w) \subseteq RowId
  BY SessionFacts DEF SessionType
<1>3. DOMAIN rows' = DOMAIN rows \cup Locked(w)
  BY <1>1 DEF Visible
<1>4. /\ DOMAIN rows' \subseteq RowId
      /\ rows' \in [DOMAIN rows' -> Counts]
  <2>1. \A r \in DOMAIN rows' : rows'[r] \in Counts
    BY <1>1, <1>3, VisibleCounts
  <2>2. rows' = [r \in DOMAIN rows' |-> rows'[r]]
    BY <1>1 DEF Visible
  <2> QED
    BY <1>2, <1>3, <2>1, <2>2 DEF Types
<1>5. ledger' \in [Item -> Int]
  BY <1>1, <1>2 DEF Types
<1>6. order' \in [Order -> OrderType]
  BY <1>1, OrderAfterType DEF Types
<1>7. tx' \in [Worker -> SessionType] /\ tx'[w] = Idle
  BY <1>1, IdleIsSession DEF Types
<1>8. SoundRows(w)' /\ SoundRequest(w)'
  <2>1. /\ DOMAIN tx'[w].writes = {} /\ DOMAIN tx'[w].held = {} /\ tx'[w].todo = {}
        /\ tx'[w].object.row = NoRow /\ tx'[w].request.kind = "none"
    BY <1>7, IdleIsSession DEF NoObject, NoRequest
  <2>2. Locked(w)' = {}
    BY <2>1 DEF Locked
  <2> QED
    BY <2>1, <2>2 DEF SoundRows, SoundRequest, Loads
<1>9. ASSUME NEW v \in Worker, v # w
      PROVE  SoundRows(v)' /\ SoundRequest(v)' /\ (~Active(v)' => tx'[v] = Idle)
  <2>1. tx'[v] = tx[v] /\ DOMAIN rows \subseteq DOMAIN rows'
    BY <1>1, <1>3, <1>9 DEF Types
  <2>2. SoundRows(v) /\ SoundRequest(v) /\ (~Active(v) => tx[v] = Idle)
    BY DEF Types
  <2>3. SoundRows(v)'
    BY <2>1, <2>2 DEF SoundRows, Locked, Loads, RowsOf
  <2> QED
    BY <2>1, <2>2, <2>3 DEF SoundRequest, Active
<1>10. missed' = [v \in Worker |-> missed'[v]]
  BY <1>1
<1> QED
  BY <1>4, <1>5, <1>6, <1>7, <1>8, <1>9, <1>10 DEF Types

LEMMA InitTypes ==
  ASSUME Init
  PROVE  Types
<1>1. order \in [Order -> OrderType]
  BY TransactionsAssumption DEF Init, OrderType
<1>2. /\ DOMAIN rows \subseteq RowId
      /\ rows \in [DOMAIN rows -> Counts]
  <2>1. \A i \in DOMAIN OpeningStock :
          Row(OpeningStock[i].on_hand, OpeningStock[i].reserved) \in Counts
    BY TransactionsAssumption, RowCounts
  <2>2. 1 \in Copy /\ DOMAIN OpeningStock \subseteq Item
    BY TransactionsAssumption DEF Copy, Qty
  <2> QED
    BY <2>1, <2>2 DEF Init, RowId
<1>3. ledger \in [Item -> Int]
  BY TransactionsAssumption DEF Init
<1>4. tx = [w \in Worker |-> Idle] /\ tx \in [Worker -> SessionType]
  BY IdleIsSession DEF Init
<1>5. missed = [w \in Worker |-> missed[w]]
  BY DEF Init
<1>6. \A w \in Worker : SoundRows(w) /\ SoundRequest(w)
  BY <1>4, IdleIsSound
<1> QED
  BY <1>1, <1>2, <1>3, <1>4, <1>5, <1>6 DEF Types

LEMMA NextTypes ==
  ASSUME Types, [Next]_vars
  PROVE  Types'
<1>1. CASE UNCHANGED vars
  BY <1>1 DEF vars, database, Types, SoundRows, SoundRequest, Active, Locked, Loads, RowsOf
<1>2. ASSUME NEW w \in Worker, Begin(w) \/ Proceed(w) \/ Crash(w)
      PROVE  Types'
  BY <1>2, BeginTypes, ReadCandidatesTypes, NextReserveTypes, NextCallTypes, InsertRowTypes,
     UpdateRowTypes, CommitTypes, RollbackTypes DEF Proceed, Fail, Crash
<1>3. CASE CancelDeadlock
  BY <1>3, RollbackTypes DEF CancelDeadlock
<1> QED
  BY <1>1, <1>2, <1>3 DEF Next

\* What the tables hold is well typed, however requests interleave, fail, wait
\* and are cancelled.
THEOREM TablesTypeCorrect == Spec => []TransactionsTypeOK
<1>1. Init => Types
  BY InitTypes
<1>2. Types /\ [Next]_vars => Types'
  BY NextTypes
<1>3. Types => TransactionsTypeOK
  BY DEF Types, TransactionsTypeOK, Counts, OrderType
<1> QED
  BY <1>1, <1>2, <1>3, PTL DEF Spec

\* No race takes a count of a row below zero: adjust_reserved and
\* add_ledger_and_apply_on_hand check the values they write.
THEOREM CountsStayNonNegative == Spec => []NeverBelowZero
<1>1. Init => Types
  BY InitTypes
<1>2. Types /\ [Next]_vars => Types'
  BY NextTypes
<1>3. Types => NeverBelowZero
  BY DEF Types, NeverBelowZero, Counts
<1> QED
  BY <1>1, <1>2, <1>3, PTL DEF Spec

-----------------------------------------------------------------------------
(* What a request does to its order *)

\* Only what is flushed was added to.
WritesWhatItMade(w) ==
  \A i \in Item, col \in {"on_hand", "reserved"} :
    tx[w].made[<<col, i>>] # 0 => \E r \in Locked(w) : r[1] = i

OnHandOnly(calls) == \A n \in 1 .. Len(calls) : calls[n].col = "on_hand"
CallsOnHand(s) ==
  OnHandOnly(s.calls) /\ (s.object # NoObject => s.object.call.col = "on_hand")

\* A request that reserves nothing.
Quiet(s) ==
  /\ s.lines = <<>> /\ s.short = 0 /\ CallsOnHand(s)
  /\ \A i \in Item : s.made[<<"reserved", i>>] = 0

\* A pick: its release is still to come, or under way, or made.
Picking(s) ==
  LET q == s.request
      release == Reserve(q.item, -q.qty)
  IN  /\ s.lines = <<>> /\ s.short = 0
      /\ \/ /\ s.calls # <<>> /\ Head(s.calls) = release /\ OnHandOnly(Tail(s.calls))
            /\ s.object = NoObject
            /\ \A i \in Item : s.made[<<"reserved", i>>] = 0
         \/ /\ s.object # NoObject /\ s.object.call = release /\ OnHandOnly(s.calls)
            /\ \A i \in Item : s.made[<<"reserved", i>>] = 0
         \/ /\ CallsOnHand(s)
            /\ \A i \in Item :
                 s.made[<<"reserved", i>>] = IF i = q.item THEN -q.qty ELSE 0

\* Of a product: what an approval has reserved, what it is reserving, what it
\* is short of for the m-th line, and what the lines after it ask for.
Product == {ProductOf[i] : i \in Item}
ItemsOf(p) == {i \in Item : ProductOf[i] = p}
MadeFor(made, p) == OrderTotal([i \in Item |-> made[<<"reserved", i>>]], p)
Pending(s, p) ==
  IF s.object # NoObject /\ ProductOf[s.object.call.item] = p THEN s.object.call.qty ELSE 0
Short(s, L, m, p) == IF s.short > 0 /\ L[m].product = p THEN s.short ELSE 0
LinesAfter(L, m, p) == {n \in DOMAIN L : n > m /\ L[n].product = p}
Later(L, m, p) == SumFunctionOnSet([n \in DOMAIN L |-> L[n].qty], LinesAfter(L, m, p))

Reserving(s) ==
  LET o == s.request.order
      L == OrderLines[o]
      m == Len(L) - Len(s.lines)
  IN  /\ m >= 0 /\ \A n \in 1 .. Len(s.lines) : s.lines[n] = L[m + n]
      /\ s.short > 0 => m > 0 /\ \A r \in s.todo : ProductOf[r[1]] = L[m].product
      /\ s.object # NoObject => s.object.call.col = "reserved"
      /\ \A p \in Product :
           MadeFor(s.made, p) + Pending(s, p) + Short(s, L, m, p) + Later(L, m, p)
             = Requested(o, p)

\* Where a request stands, and what it knows of its order as long as nobody
\* else has committed a change of it.
Progress(s, ord, miss) ==
  LET q == s.request
  IN  /\ q.kind \in {"generate", "receive", "transfer"} => Quiet(s)
      /\ q.kind = "generate" => s.saw.status = "APPROVED" /\ s.saw.tasks = <<>>
      /\ q.kind = "approve" => Reserving(s) /\ s.saw.status = "SUBMITTED"
      /\ q.kind = "pick" =>
           /\ Picking(s)
           /\ q.item \notin miss =>
                ord[q.order].reserved[q.item] = s.saw.reserved[q.item]
           /\ s.saw.tasks[q.task][q.item].picked + q.qty <= s.saw.tasks[q.task][q.item].to_pick
      /\ q.kind \in {"approve", "generate", "pick"} /\ q.order \notin miss =>
           ord[q.order] = s.saw

RequestsInv == \A w \in Worker : Progress(tx[w], order, missed[w])

\* What the orders of a table hold of an item.
HeldBy(ord, i) == SumFunctionOnSet([o \in Order |-> ord[o].reserved[i]], Order)

LEMMA ReservedIsSum ==
  \A i : ReservedFor(i) = HeldBy(order, i) /\ ReservedFor(i)' = HeldBy(order', i)
BY DEF ReservedFor, SumFunction, HeldBy

LEMMA SameReserved ==
  ASSUME order' = order
  PROVE  \A i : ReservedFor(i)' = ReservedFor(i)
BY ReservedIsSum

LEMMA OrdersFinite == IsFiniteSet(Order)
<1>1. 1 \in Int /\ NumOrders \in Int
  BY TransactionsAssumption
<1> QED BY <1>1, FS_Interval DEF Order

LEMMA ReservedType ==
  ASSUME Types, NEW i \in Item
  PROVE  ReservedFor(i) \in Nat
<1> DEFINE f == [o \in Order |-> order[o].reserved[i]]
<1>1. \A o \in Order : f[o] \in Nat
  BY DEF Types, OrderType
<1> HIDE DEF f
<1>2. SumFunctionOnSet(f, Order) \in Nat
  BY <1>1, SumNat, OrdersFinite
<1> QED BY <1>2, ReservedIsSum DEF f, HeldBy

-----------------------------------------------------------------------------
(* The books of an item *)

\* What w would read of item i is what the ledger and its own calls make of
\* it, and w holds it as it would read it.
Follows(w, i) ==
  /\ \A r, s \in RowsOf(w, i) : r = s
  /\ RowsOf(w, i) = {} => /\ ledger[i] + tx[w].made[<<"on_hand", i>>] = 0
                          /\ ReservedFor(i) + tx[w].made[<<"reserved", i>>] = 0
  /\ \A r \in RowsOf(w, i) :
       /\ Cell(w, r, "on_hand") = ledger[i] + tx[w].made[<<"on_hand", i>>]
       /\ Cell(w, r, "reserved") = ReservedFor(i) + tx[w].made[<<"reserved", i>>]
       /\ Cell(w, r, "available") = Cell(w, r, "on_hand") - Cell(w, r, "reserved")
  /\ \A r \in RowsOf(w, i) \cap DOMAIN tx[w].held : tx[w].held[r] = Visible(w)[r]
  /\ Loads(w) /\ tx[w].object.call.item = i =>
       tx[w].object.image = Visible(w)[tx[w].object.row]
  /\ Missing(w) /\ tx[w].object.call.item = i => RowsOf(w, i) = {}

RowsInv ==
  /\ \A i \in Item \ raced : RowAgrees(i) /\ ReservedAgrees(i)
  /\ \A w \in Worker :
       /\ ~Active(w) => missed[w] = {}
       /\ WritesWhatItMade(w)
       /\ Active(w) => \A i \in Item \ (raced \cup missed[w]) : Follows(w, i)

\* A step that leaves what w has flushed and the rows leaves what it reads.
LEMMA SameReads ==
  ASSUME NEW w \in Worker, rows' = rows, tx'[w].writes = tx[w].writes
  PROVE  /\ Locked(w)' = Locked(w)
         /\ \A i \in Item : RowsOf(w, i)' = RowsOf(w, i)
         /\ \A r, c : Cell(w, r, c)' = Cell(w, r, c)
         /\ Visible(w)' = Visible(w)
<1>1. Locked(w)' = Locked(w)
  BY DEF Locked
<1>2. \A i \in Item : RowsOf(w, i)' = RowsOf(w, i)
  BY <1>1 DEF RowsOf
<1>3. \A r, c : Cell(w, r, c)' = Cell(w, r, c)
  BY DEF Cell
<1>4. Visible(w)' = Visible(w)
  BY <1>1, <1>3 DEF Visible
<1> QED
  BY <1>1, <1>2, <1>3, <1>4

\* A session reads an item as before as long as nobody commits a change of it.
LEMMA FollowsStill ==
  ASSUME Types, NEW v \in Worker, NEW i \in Item, Follows(v, i), tx'[v] = tx[v],
         ledger'[i] = ledger[i], ReservedFor(i)' = ReservedFor(i),
         \A r \in RowId : r[1] = i => (r \in DOMAIN rows' <=> r \in DOMAIN rows),
         \A r \in DOMAIN rows : r[1] = i => rows'[r] = rows[r],
         DOMAIN rows' \subseteq RowId
  PROVE  Follows(v, i)'
<1>1. SoundRows(v) /\ Locked(v) \subseteq RowId /\ DOMAIN rows \subseteq RowId
  BY SessionFacts DEF Types
<1>2. Locked(v)' = Locked(v)
  BY DEF Locked
<1>3. RowsOf(v, i)' = RowsOf(v, i)
  BY <1>1, <1>2 DEF RowsOf
<1>4. ASSUME NEW r \in RowsOf(v, i), NEW c \in Col
      PROVE  Cell(v, r, c)' = Cell(v, r, c)
  <2>1. r \in DOMAIN rows \/ <<r, c>> \in DOMAIN tx[v].writes
    BY <1>1 DEF RowsOf, SoundRows
  <2>2. r[1] = i
    BY DEF RowsOf
  <2> QED
    BY <2>1, <2>2 DEF Cell
<1>5. ASSUME NEW r \in RowsOf(v, i)
      PROVE  Visible(v)'[r] = Visible(v)[r]
  <2>1. r \in DOMAIN rows' \cup Locked(v)' /\ r \in DOMAIN rows \cup Locked(v)
    BY <1>3 DEF RowsOf
  <2> QED
    BY <1>4, <2>1 DEF Visible, Col
<1>6. Loads(v) /\ tx[v].object.call.item = i => tx[v].object.row \in RowsOf(v, i)
  BY <1>1 DEF SoundRows
<1>7. (Loads(v)' <=> Loads(v)) /\ (Missing(v)' <=> Missing(v))
  BY DEF Loads, Missing
<1>8. \A r \in RowsOf(v, i) :
        /\ Cell(v, r, "on_hand")' = Cell(v, r, "on_hand")
        /\ Cell(v, r, "reserved")' = Cell(v, r, "reserved")
        /\ Cell(v, r, "available")' = Cell(v, r, "available")
  BY <1>4 DEF Col
<1> QED
  BY <1>3, <1>5, <1>6, <1>7, <1>8 DEF Follows

\* A step of w that commits nothing.
LEMMA RowsAfter ==
  ASSUME Types, RowsInv, NEW w \in Worker,
         tx' = [tx EXCEPT ![w] = tx'[w]], UNCHANGED <<database, missed, raced>>,
         WritesWhatItMade(w)', Active(w)',
         \A i \in Item \ (raced \cup missed[w]) : Follows(w, i)'
  PROVE  RowsInv'
<1>1. /\ rows' = rows /\ ledger' = ledger /\ order' = order
      /\ missed' = missed /\ raced' = raced
      /\ \A i : ReservedFor(i)' = ReservedFor(i)
  BY SameReserved DEF database
<1>2. \A i \in Item \ raced' : RowAgrees(i)' /\ ReservedAgrees(i)'
  BY <1>1 DEF RowsInv, RowAgrees, ReservedAgrees, CommittedRows
<1>3. ASSUME NEW v \in Worker, v # w
      PROVE  /\ ~Active(v)' => missed'[v] = {}
             /\ WritesWhatItMade(v)'
             /\ Active(v)' => \A i \in Item \ (raced' \cup missed'[v]) : Follows(v, i)'
  <2>1. tx'[v] = tx[v]
    BY <1>3 DEF Types
  <2>2. (Active(v)' <=> Active(v)) /\ WritesWhatItMade(v)'
    BY <2>1 DEF Active, RowsInv, WritesWhatItMade, Locked
  <2>3. ASSUME Active(v), NEW i \in Item \ (raced \cup missed[v])
        PROVE  Follows(v, i)'
    <3>1. Follows(v, i)
      BY <2>3 DEF RowsInv
    <3>2. DOMAIN rows' \subseteq RowId
      BY <1>1 DEF Types
    <3> QED
      BY <1>1, <2>1, <3>1, <3>2, FollowsStill
  <2> QED
    BY <1>1, <2>2, <2>3 DEF RowsInv
<1> QED
  BY <1>1, <1>2, <1>3 DEF RowsInv

\* A request that begins reads the rows as they are committed.
LEMMA BeginRows ==
  ASSUME Types, RowsInv, NEW w \in Worker, Begin(w)
  PROVE  RowsInv'
<1> USE IdleIsSession
<1>1. tx[w] = Idle /\ UNCHANGED <<database, missed, raced>> /\ ~Active(w)
  BY DEF Begin, BeginApprove, BeginGenerate, BeginPick, BeginReceive, BeginTransfer, Start, Types
<1> DEFINE Begun(s) ==
             /\ s.writes = Idle.writes /\ s.made = Idle.made /\ s.object = NoObject
             /\ s.request.kind # "none"
             /\ DOMAIN s.held \subseteq DOMAIN rows \cup Locked(w)
             /\ \A x \in DOMAIN s.held : s.held[x] = Visible(w)[x]
<1>2. Begun(tx'[w]) /\ tx' = [tx EXCEPT ![w] = tx'[w]]
  <2>1. PICK q \in Requests :
    \/ q.kind = "approve" /\ BeginApprove(w, q.order)
    \/ q.kind = "generate" /\ BeginGenerate(w, q.order)
    \/ q.kind = "pick" /\ BeginPick(w, q.order, q.task, q.item, q.to, q.qty)
    \/ q.kind = "receive" /\ BeginReceive(w, q.item, q.qty)
    \/ q.kind = "transfer" /\ BeginTransfer(w, q.item, q.to, q.qty)
    BY DEF Begin
  <2>2. CASE q.kind = "approve" /\ BeginApprove(w, q.order)
    <3> DEFINE r == [kind |-> "approve", order |-> q.order]
               s == [Idle EXCEPT !.request = r, !.lines = OrderLines[q.order], !.saw = order[q.order]]
    <3>1. tx' = [tx EXCEPT ![w] = s]
      BY <1>1, <2>2 DEF BeginApprove
    <3>2. Begun(s)
      BY DEF Idle, Empty
    <3> QED
      BY <3>1, <3>2 DEF Types
  <2>3. CASE q.kind = "generate" /\ BeginGenerate(w, q.order)
    <3> DEFINE r == [kind |-> "generate", order |-> q.order]
               s == [Idle EXCEPT !.request = r, !.saw = order[q.order]]
    <3>1. tx' = [tx EXCEPT ![w] = s]
      BY <1>1, <2>3 DEF BeginGenerate
    <3>2. Begun(s)
      BY DEF Idle, Empty
    <3> QED
      BY <3>1, <3>2 DEF Types
  <2>4. CASE q.kind = "pick" /\ BeginPick(w, q.order, q.task, q.item, q.to, q.qty)
    <3> DEFINE r == [kind |-> "pick", order |-> q.order, task |-> q.task, item |-> q.item,
                     to |-> q.to, qty |-> q.qty]
               s == [Idle EXCEPT !.request = r, !.saw = order[q.order],
                 !.calls = <<Reserve(q.item, -q.qty), Post(q.item, -q.qty), Post(q.to, q.qty)>>]
    <3>1. tx' = [tx EXCEPT ![w] = s]
      BY <1>1, <2>4 DEF BeginPick
    <3>2. Begun(s)
      BY DEF Idle, Empty
    <3> QED
      BY <3>1, <3>2 DEF Types
  <2>5. CASE q.kind = "receive" /\ BeginReceive(w, q.item, q.qty)
    <3> DEFINE r == [kind |-> "receive", item |-> q.item, qty |-> q.qty]
               s == [Idle EXCEPT !.request = r, !.calls = <<Post(q.item, q.qty)>>]
    <3>1. tx' = [tx EXCEPT ![w] = s]
      BY <1>1, <2>5 DEF BeginReceive
    <3>2. Begun(s)
      BY DEF Idle, Empty
    <3> QED
      BY <3>1, <3>2 DEF Types
  <2>6. CASE q.kind = "transfer" /\ BeginTransfer(w, q.item, q.to, q.qty)
    <3> DEFINE r == [kind |-> "transfer", item |-> q.item, to |-> q.to, qty |-> q.qty]
               c == <<Post(q.item, -q.qty), Post(q.to, q.qty)>>
    <3>1. PICK x \in RowsOf(w, q.item) :
            tx' = [tx EXCEPT ![w] = [Idle EXCEPT !.request = r,
                    !.held = [y \in {x} |-> Loaded(w, y)], !.calls = c]]
      BY <1>1, <2>6 DEF BeginTransfer
    <3> DEFINE h == [y \in {x} |-> Loaded(w, y)]
               s == [Idle EXCEPT !.request = r, !.held = h, !.calls = c]
    <3>2. \A y \in DOMAIN h : h[y] = Visible(w)[y]
      BY <1>1 DEF Loaded
    <3>3. DOMAIN h \subseteq DOMAIN rows \cup Locked(w)
      BY DEF RowsOf
    <3>4. r.kind # "none"
      OBVIOUS
    <3> HIDE DEF c, h, r
    <3>5. Begun(s)
      BY <3>2, <3>3, <3>4 DEF Idle
    <3>6. tx' = [tx EXCEPT ![w] = s]
      BY <3>1 DEF h
    <3> HIDE DEF s
    <3> QED
      BY <3>5, <3>6 DEF Types
  <2> QED
    BY <2>1, <2>2, <2>3, <2>4, <2>5, <2>6
<1>6. /\ rows' = rows /\ ledger' = ledger /\ missed[w] = {}
      /\ \A i : ReservedFor(i)' = ReservedFor(i)
  BY <1>1, SameReserved DEF database, RowsInv
<1>7. Active(w)'
  BY <1>2 DEF Active, NoRequest
<1>8. \A i \in Item : tx'[w].made[<<"on_hand", i>>] = 0 /\ tx'[w].made[<<"reserved", i>>] = 0
  BY <1>2 DEF Idle
<1>9. WritesWhatItMade(w)'
  BY <1>8 DEF WritesWhatItMade
<1>10. /\ Locked(w)' = Locked(w) /\ Visible(w)' = Visible(w)
       /\ \A i \in Item : RowsOf(w, i)' = RowsOf(w, i)
       /\ \A r, c : Cell(w, r, c)' = Cell(w, r, c)
  BY <1>1, <1>2, <1>6, SameReads
<1>11. Locked(w) = {}
  BY <1>1 DEF Locked
<1>12. ~Loads(w)' /\ ~Missing(w)'
  BY <1>2 DEF Loads, Missing, NoObject
<1>13. ASSUME NEW i \in Item \ raced
       PROVE  Follows(w, i)'
  <2>1. RowAgrees(i) /\ ReservedAgrees(i)
    BY DEF RowsInv
  <2>2. RowsOf(w, i) = CommittedRows(i)
    BY <1>11 DEF RowsOf, CommittedRows
  <2>3. \A r, c : Cell(w, r, c) = rows[r][c]
    BY <1>1 DEF Cell
  <2>4. ledger[i] \in Int /\ ReservedFor(i) \in Int
    BY ReservedType DEF Types
  <2>5. \A r \in CommittedRows(i) : rows[r] \in Counts
    BY DEF Types, CommittedRows
  <2>6. \A r \in RowsOf(w, i)' :
          /\ Cell(w, r, "on_hand")' = ledger'[i] + tx'[w].made[<<"on_hand", i>>]
          /\ Cell(w, r, "reserved")' = ReservedFor(i)' + tx'[w].made[<<"reserved", i>>]
          /\ Cell(w, r, "available")' = Cell(w, r, "on_hand")' - Cell(w, r, "reserved")'
    BY <1>6, <1>8, <1>10, <2>1, <2>2, <2>3, <2>4, <2>5 DEF RowAgrees, ReservedAgrees, Counts
  <2>7. RowsOf(w, i)' = {} => /\ ledger'[i] + tx'[w].made[<<"on_hand", i>>] = 0
                             /\ ReservedFor(i)' + tx'[w].made[<<"reserved", i>>] = 0
    BY <1>6, <1>8, <1>10, <2>1, <2>2, <2>4 DEF RowAgrees, ReservedAgrees
  <2>8. \A r, x \in RowsOf(w, i)' : r = x
    BY <1>10, <2>1, <2>2 DEF RowAgrees
  <2>9. \A r \in DOMAIN tx'[w].held : tx'[w].held[r] = Visible(w)'[r]
    BY <1>2, <1>10
  <2> QED
    BY <1>12, <2>6, <2>7, <2>8, <2>9 DEF Follows
<1> QED
  BY <1>1, <1>2, <1>6, <1>7, <1>9, <1>13, RowsAfter

LEMMA ReadCandidatesRows ==
  ASSUME Types, RowsInv, NEW w \in Worker, ReadCandidates(w)
  PROVE  RowsInv'
<1> DEFINE line == Head(tx[w].lines)
           seen == Visible(w)
           cand == {r \in DOMAIN seen : /\ ProductOf[r[1]] = line.product
                                        /\ seen[r].available > 0}
           s == [tx[w] EXCEPT !.lines = Tail(tx[w].lines), !.todo = cand,
                              !.short = line.qty, !.held = [r \in cand |-> seen[r]]]
<1>1. tx[w] \in SessionType
  BY SessionFacts
<1>2. /\ tx[w].lines # <<>> /\ tx[w].object = NoObject
      /\ UNCHANGED <<database, missed, raced>>
  BY DEF ReadCandidates
<1>3. tx' = [tx EXCEPT ![w] = s]
  BY <1>1 DEF ReadCandidates, Types, SessionType
<1>4. /\ s.request = tx[w].request /\ s.writes = tx[w].writes /\ s.made = tx[w].made
      /\ s.object = NoObject /\ s.held = [r \in cand |-> seen[r]]
  <2> HIDE DEF cand, line, seen
  <2> QED
    BY <1>1, <1>2 DEF SessionType
<1> HIDE DEF s
<1>5. /\ tx'[w] = s /\ tx' = [tx EXCEPT ![w] = tx'[w]] /\ rows' = rows /\ ledger' = ledger
      /\ \A i : ReservedFor(i)' = ReservedFor(i)
  BY <1>2, <1>3, SameReserved DEF Types, database
<1>6. /\ Locked(w)' = Locked(w) /\ Visible(w)' = Visible(w)
      /\ \A i \in Item : RowsOf(w, i)' = RowsOf(w, i)
      /\ \A r, c : Cell(w, r, c)' = Cell(w, r, c)
  BY <1>4, <1>5, SameReads
<1>7. Active(w)
  BY <1>2 DEF Types, Idle
<1>8. Active(w)' /\ WritesWhatItMade(w)'
  BY <1>4, <1>5, <1>6, <1>7 DEF Active, RowsInv, WritesWhatItMade
<1>9. ~Loads(w)' /\ ~Missing(w)'
  BY <1>4, <1>5 DEF Loads, Missing, NoObject
<1>10. \A r \in DOMAIN tx'[w].held : tx'[w].held[r] = Visible(w)'[r]
  BY <1>4, <1>5, <1>6
<1>11. ASSUME NEW i \in Item \ (raced \cup missed[w])
       PROVE  Follows(w, i)'
  <2>1. Follows(w, i)
    BY <1>7 DEF RowsInv
  <2> QED
    BY <1>4, <1>5, <1>6, <1>9, <1>10, <2>1 DEF Follows
<1> QED
  BY <1>2, <1>5, <1>8, <1>11, RowsAfter

LEMMA FindRows ==
  ASSUME Types, RowsInv, NEW w \in Worker, NEW call \in Call, NEW session \in SessionType,
         Find(w, call, session), Active(w), UNCHANGED <<database, missed, raced>>,
         session.request = tx[w].request, session.writes = tx[w].writes,
         session.held = tx[w].held, session.made = tx[w].made
  PROVE  RowsInv'
<1>1. PICK object :
        /\ tx' = [tx EXCEPT ![w] = [session EXCEPT !.object = object]]
        /\ \/ object = [row |-> NoRow, call |-> call] /\ RowsOf(w, call.item) = {}
           \/ \E r \in RowsOf(w, call.item) :
                object = [row |-> r, call |-> call, image |-> Loaded(w, r)]
  BY DEF Find
<1> DEFINE s == [session EXCEPT !.object = object]
<1>2. /\ s.request = tx[w].request /\ s.writes = tx[w].writes /\ s.held = tx[w].held
      /\ s.made = tx[w].made /\ s.object = object
  BY DEF SessionType
<1>3. tx' = [tx EXCEPT ![w] = s]
  BY <1>1
<1> HIDE DEF s
<1>4. /\ tx'[w] = s /\ tx' = [tx EXCEPT ![w] = tx'[w]] /\ rows' = rows /\ ledger' = ledger
      /\ \A i : ReservedFor(i)' = ReservedFor(i)
  BY <1>3, SameReserved DEF Types, database
<1>5. /\ Locked(w)' = Locked(w) /\ Visible(w)' = Visible(w)
      /\ \A i \in Item : RowsOf(w, i)' = RowsOf(w, i)
      /\ \A r, c : Cell(w, r, c)' = Cell(w, r, c)
  BY <1>2, <1>4, SameReads
<1>6. Active(w)' /\ WritesWhatItMade(w)'
  BY <1>2, <1>4, <1>5 DEF Active, RowsInv, WritesWhatItMade
<1>7. ASSUME NEW i \in Item \ (raced \cup missed[w])
      PROVE  Follows(w, i)'
  <2>1. Follows(w, i)
    BY DEF RowsInv
  <2>2. \A r \in RowsOf(w, i) : Loaded(w, r) = Visible(w)[r]
    BY <2>1 DEF Follows, Loaded
  <2>3. ASSUME Loads(w)', tx'[w].object.call.item = i
        PROVE  tx'[w].object.image = Visible(w)'[tx'[w].object.row]
    <3>1. PICK r \in RowsOf(w, call.item) :
            object = [row |-> r, call |-> call, image |-> Loaded(w, r)]
      BY <1>1, <1>2, <1>4, <2>3 DEF Loads
    <3>2. call.item = i
      BY <1>2, <1>4, <2>3, <3>1
    <3> QED
      BY <1>2, <1>4, <1>5, <2>2, <3>1, <3>2
  <2>4. ASSUME Missing(w)', tx'[w].object.call.item = i
        PROVE  RowsOf(w, i)' = {}
    <3>1. object.row = NoRow /\ object.call = call
      BY <1>1, <1>2, <1>4, <2>4 DEF Missing
    <3>2. CASE RowsOf(w, call.item) = {}
      BY <1>2, <1>4, <1>5, <2>4, <3>1, <3>2
    <3>3. CASE NoRow \in RowsOf(w, call.item)
      <4>1. NoRow \in RowId
        BY <3>3, VisibleCounts DEF RowsOf
      <4> QED
        BY <4>1 DEF NoRow, RowId
    <3> QED
      BY <1>1, <3>1, <3>2, <3>3
  <2> QED
    BY <1>2, <1>4, <1>5, <2>1, <2>3, <2>4 DEF Follows
<1> QED
  BY <1>4, <1>6, <1>7, RowsAfter

LEMMA NextReserveRows ==
  ASSUME Types, RowsInv, NEW w \in Worker, NextReserve(w)
  PROVE  RowsInv'
<1>1. tx[w] \in SessionType /\ SoundRows(w)
  BY SessionFacts
<1>2. tx[w].short > 0 /\ UNCHANGED <<database, missed, raced>>
  BY DEF NextReserve
<1>3. Active(w)
  BY <1>2 DEF Types, Idle
<1>4. PICK r \in Left(w) :
        LET available == tx[w].held[r].available
            take == IF tx[w].short < available THEN tx[w].short ELSE available
        IN  Find(w, Reserve(r[1], take), [tx[w] EXCEPT !.todo = @ \ {r}, !.short = @ - take])
  BY DEF NextReserve
<1> DEFINE available == tx[w].held[r].available
           take == IF tx[w].short < available THEN tx[w].short ELSE available
           s == [tx[w] EXCEPT !.todo = @ \ {r}, !.short = @ - take]
<1>5. r \in tx[w].todo /\ r \in DOMAIN tx[w].held /\ available > 0
  BY <1>1 DEF Left, SoundRows
<1>6. available \in Int /\ r[1] \in Item
  BY <1>5, SessionFacts DEF Counts, RowId
<1>7. tx[w].short \in Nat
  BY <1>1 DEF SessionType
<1>8. take \in Int /\ tx[w].short - take \in Nat
  BY <1>2, <1>5, <1>6, <1>7
<1> HIDE DEF take
<1>9. Reserve(r[1], take) \in Call
  BY <1>6, <1>8 DEF Reserve, Call
<1>10. s \in SessionType
  BY <1>1, <1>8 DEF SessionType
<1>11. /\ s.request = tx[w].request /\ s.writes = tx[w].writes /\ s.held = tx[w].held
       /\ s.made = tx[w].made
  BY <1>1 DEF SessionType
<1>12. Find(w, Reserve(r[1], take), s)
  BY <1>4 DEF take
<1> HIDE DEF s
<1> QED
  BY <1>2, <1>3, <1>9, <1>10, <1>11, <1>12, FindRows

LEMMA NextCallRows ==
  ASSUME Types, RowsInv, NEW w \in Worker, NextCall(w)
  PROVE  RowsInv'
<1> DEFINE call == Head(tx[w].calls)
           s == [tx[w] EXCEPT !.calls = Tail(@)]
<1>1. tx[w] \in SessionType
  BY SessionFacts
<1>2. tx[w].calls # <<>> /\ Find(w, call, s) /\ UNCHANGED <<database, missed, raced>>
  BY DEF NextCall
<1>3. Active(w)
  BY <1>2 DEF Types, Idle
<1>4. call \in Call /\ Tail(tx[w].calls) \in Seq(Call)
  BY <1>1, <1>2, HeadTailProperties DEF SessionType
<1>5. s \in SessionType
  BY <1>1, <1>4 DEF SessionType
<1>6. /\ s.request = tx[w].request /\ s.writes = tx[w].writes /\ s.held = tx[w].held
      /\ s.made = tx[w].made
  BY <1>1 DEF SessionType
<1> HIDE DEF s, call
<1> QED
  BY <1>2, <1>3, <1>4, <1>5, <1>6, FindRows

\* A row inserted for an item that has none begins at what the ledger says.
LEMMA InsertRowRows ==
  ASSUME Types, RowsInv, NEW w \in Worker, InsertRow(w)
  PROVE  RowsInv'
<1> DEFINE call == tx[w].object.call
<1>1. tx[w] \in SessionType /\ SoundRows(w)
  BY SessionFacts
<1>2. Missing(w) /\ UNCHANGED <<database, missed, raced>>
  BY DEF InsertRow
<1>3. PICK r \in {<<call.item, c>> : c \in Copy} :
        tx' = [tx EXCEPT ![w] = [tx[w] EXCEPT
                !.object = [row |-> r, call |-> call, image |-> Row(0, 0)],
                !.writes = [x \in DOMAIN tx[w].writes \cup ({r} \X Col) |->
                              IF x[1] = r THEN 0 ELSE tx[w].writes[x]]]]
  <2>1. PICK c \in Copy :
          LET r == <<call.item, c>>
          IN  tx' = [tx EXCEPT ![w] = [tx[w] EXCEPT
                !.object = [row |-> r, call |-> call, image |-> Row(0, 0)],
                !.writes = [x \in DOMAIN tx[w].writes \cup ({r} \X Col) |->
                              IF x[1] = r THEN 0 ELSE tx[w].writes[x]]]]
    BY DEF InsertRow
  <2> QED
    BY <2>1
<1> DEFINE writes == [x \in DOMAIN tx[w].writes \cup ({r} \X Col) |->
                        IF x[1] = r THEN 0 ELSE tx[w].writes[x]]
           object == [row |-> r, call |-> call, image |-> Row(0, 0)]
           s == [tx[w] EXCEPT !.object = object, !.writes = writes]
<1>4. call \in Call /\ tx[w].object # NoObject
  BY <1>1, <1>2 DEF Missing, SessionType, RowId
<1>5. /\ s.request = tx[w].request /\ s.writes = writes /\ s.held = tx[w].held
      /\ s.made = tx[w].made /\ s.object = object
  BY <1>1 DEF SessionType
<1>6. tx' = [tx EXCEPT ![w] = s]
  BY <1>3
<1> HIDE DEF s
<1>7. /\ tx'[w] = s /\ tx' = [tx EXCEPT ![w] = tx'[w]] /\ rows' = rows /\ ledger' = ledger
      /\ \A i : ReservedFor(i)' = ReservedFor(i)
  BY <1>2, <1>6, SameReserved DEF Types, database
<1>8. r[1] = call.item /\ r # NoRow
  BY DEF NoRow
<1>9. object.row = r /\ object.call = call /\ object.image = Row(0, 0)
  OBVIOUS
<1>10. /\ DOMAIN writes = DOMAIN tx[w].writes \cup ({r} \X Col)
       /\ \A x \in DOMAIN writes : writes[x] = IF x[1] = r THEN 0 ELSE tx[w].writes[x]
  OBVIOUS
<1> HIDE DEF object, writes
<1>11. Locked(w)' = Locked(w) \cup {r}
  <2>1. <<r, "on_hand">> \in {r} \X Col
    BY DEF Col
  <2>2. \A x \in {r} \X Col : x[1] = r
    OBVIOUS
  <2> QED
    BY <1>5, <1>7, <1>10, <2>1, <2>2 DEF Locked
<1>12. \A d \in Col : Cell(w, r, d)' = 0
  BY <1>5, <1>7, <1>10 DEF Cell
<1>13. \A x, d : x # r => Cell(w, x, d)' = Cell(w, x, d)
  BY <1>5, <1>7, <1>10 DEF Cell
<1>14. \A x \in DOMAIN rows \cup Locked(w) : x # r => Visible(w)'[x] = Visible(w)[x]
  BY <1>7, <1>11, <1>13 DEF Visible
<1>15. Visible(w)'[r] = Row(0, 0)
  BY <1>11, <1>12 DEF Visible, Row, Col
<1>16. Active(w)
  BY <1>4 DEF Types, Idle
<1>17. Active(w)' /\ WritesWhatItMade(w)'
  BY <1>5, <1>7, <1>11, <1>16 DEF Active, RowsInv, WritesWhatItMade
<1>18. ~Missing(w)'
  BY <1>5, <1>7, <1>8, <1>9 DEF Missing
<1>19. ASSUME NEW i \in Item \ (raced \cup missed[w])
       PROVE  Follows(w, i)'
  <2>1. Follows(w, i)
    BY <1>16 DEF RowsInv
  <2>2. CASE i = call.item
    <3>1. /\ RowsOf(w, i) = {} /\ ledger[i] + tx[w].made[<<"on_hand", i>>] = 0
          /\ ReservedFor(i) + tx[w].made[<<"reserved", i>>] = 0
      BY <1>2, <2>1, <2>2 DEF Follows
    <3>2. RowsOf(w, i)' = {r}
      BY <1>7, <1>8, <1>11, <2>2, <3>1 DEF RowsOf
    <3>3. \A x \in DOMAIN tx[w].held : x[1] # i
      BY <1>1, <3>1 DEF SoundRows, RowsOf
    <3>4. RowsOf(w, i)' \cap DOMAIN tx'[w].held = {}
      BY <1>5, <1>7, <1>8, <2>2, <3>2, <3>3
    <3>5. /\ Cell(w, r, "on_hand")' = 0 /\ Cell(w, r, "reserved")' = 0
          /\ Cell(w, r, "available")' = 0
      BY <1>12 DEF Col
    <3> QED
      BY <1>5, <1>7, <1>9, <1>15, <1>18, <3>1, <3>2, <3>4, <3>5 DEF Follows
  <2>3. CASE i # call.item
    <3>1. RowsOf(w, i)' = RowsOf(w, i) /\ \A x \in RowsOf(w, i) : x # r
      BY <1>7, <1>8, <1>11, <2>3 DEF RowsOf
    <3>2. \A x \in RowsOf(w, i) : Visible(w)'[x] = Visible(w)[x]
      BY <1>14, <3>1 DEF RowsOf
    <3>3. \A x \in RowsOf(w, i), d \in Col : Cell(w, x, d)' = Cell(w, x, d)
      BY <1>13, <3>1
    <3>4. tx'[w].object.call.item # i
      BY <1>5, <1>7, <1>9, <2>3
    <3>5. \A x \in RowsOf(w, i) :
            /\ Cell(w, x, "on_hand")' = Cell(w, x, "on_hand")
            /\ Cell(w, x, "reserved")' = Cell(w, x, "reserved")
            /\ Cell(w, x, "available")' = Cell(w, x, "available")
      BY <3>3 DEF Col
    <3> QED
      BY <1>5, <1>7, <2>1, <3>1, <3>2, <3>4, <3>5 DEF Follows
  <2> QED
    BY <2>2, <2>3
<1> QED
  BY <1>2, <1>7, <1>17, <1>19, RowsAfter

\* A flush writes what the object held, and an object that followed its row
\* still does.
LEMMA UpdateRowRows ==
  ASSUME Types, RowsInv, NEW w \in Worker, UpdateRow(w)
  PROVE  RowsInv'
<1> DEFINE object == tx[w].object
           call == object.call
           image == object.image
           new == Assigned(image, call)
           cells == {object.row} \X {c \in Col : new[c] # image[c]}
           writes == [x \in DOMAIN tx[w].writes \cup cells |->
                        IF x \in cells THEN new[x[2]] ELSE tx[w].writes[x]]
           held == [x \in DOMAIN tx[w].held |->
                      IF x = object.row THEN new ELSE tx[w].held[x]]
           cell == <<call.col, call.item>>
           made == [tx[w].made EXCEPT ![cell] = @ + call.qty]
           s == [tx[w] EXCEPT !.writes = writes, !.held = held, !.made = made,
                              !.object = NoObject]
<1>1. tx[w] \in SessionType /\ SoundRows(w)
  BY SessionFacts
<1>2. Loads(w) /\ ~Refused(image, call) /\ UNCHANGED <<database, missed, raced>>
  BY DEF UpdateRow
<1>3. /\ object.row \in RowId /\ call \in Call /\ image \in Counts
      /\ object # NoObject /\ object.row \in RowsOf(w, call.item)
  BY <1>1, <1>2 DEF Loads, SessionType, SoundRows, NoObject
<1>4. new \in Counts
  BY <1>2, <1>3, AssignedCounts
<1>5. tx' = [tx EXCEPT ![w] = s]
  BY <1>1 DEF UpdateRow, Types, SessionType
<1>6. PICK r \in RowId : r = object.row
  BY <1>3
<1>7. /\ call.qty \in Int /\ call.item \in Item /\ call.col \in {"on_hand", "reserved"}
      /\ image.on_hand \in Nat /\ image.reserved \in Nat
      /\ new.on_hand = image.on_hand + (IF call.col = "on_hand" THEN call.qty ELSE 0)
      /\ new.reserved = image.reserved + (IF call.col = "reserved" THEN call.qty ELSE 0)
      /\ new.available = new.on_hand - new.reserved
  BY <1>3 DEF Call, Counts, Assigned, Row, OnHand, Reserved
<1> HIDE DEF new
<1>8. /\ made \in [{"on_hand", "reserved"} \X Item -> Int]
      /\ tx[w].made \in [{"on_hand", "reserved"} \X Item -> Int]
      /\ \A i \in Item, col \in {"on_hand", "reserved"} :
           made[<<col, i>>] = tx[w].made[<<col, i>>]
                                + (IF call.col = col /\ call.item = i THEN call.qty ELSE 0)
  <2>1. tx[w].made \in [{"on_hand", "reserved"} \X Item -> Int]
    BY <1>1 DEF SessionType
  <2> HIDE DEF call
  <2>2. ASSUME NEW i \in Item, NEW col \in {"on_hand", "reserved"}
        PROVE  made[<<col, i>>] = tx[w].made[<<col, i>>]
                                    + (IF call.col = col /\ call.item = i THEN call.qty ELSE 0)
    <3>1. CASE call.col = col /\ call.item = i
      BY <1>7, <2>1, <3>1
    <3>2. CASE ~(call.col = col /\ call.item = i)
      <4>1. cell # <<col, i>> /\ tx[w].made[<<col, i>>] \in Int
        BY <2>1, <3>2
      <4> QED
        BY <2>1, <3>2, <4>1
    <3> QED
      BY <3>1, <3>2
  <2> QED
    BY <1>7, <2>1, <2>2
<1>9. /\ DOMAIN writes = DOMAIN tx[w].writes \cup cells
      /\ \A x \in DOMAIN writes : writes[x] = IF x \in cells THEN new[x[2]] ELSE tx[w].writes[x]
      /\ DOMAIN held = DOMAIN tx[w].held
      /\ \A x \in DOMAIN held : held[x] = IF x = r THEN new ELSE tx[w].held[x]
  BY <1>6
<1>10. \A x, c : <<x, c>> \in cells <=> x = r /\ c \in Col /\ new[c] # image[c]
  BY <1>6
<1>11. \A x \in cells : x[1] = r
  BY <1>6
<1> HIDE DEF writes, held, made, cells, cell
<1>12. /\ s.request = tx[w].request /\ s.writes = writes /\ s.held = held
       /\ s.made = made /\ s.object = NoObject
  BY <1>1 DEF SessionType
<1> HIDE DEF s
<1>13. /\ tx'[w] = s /\ tx' = [tx EXCEPT ![w] = tx'[w]] /\ rows' = rows /\ ledger' = ledger
       /\ \A i : ReservedFor(i)' = ReservedFor(i)
  BY <1>2, <1>5, SameReserved DEF Types, database
<1>14. r \in DOMAIN rows \cup Locked(w) /\ r[1] = call.item /\ r \in RowsOf(w, call.item)
  BY <1>3, <1>6 DEF RowsOf
<1>15. Locked(w) \subseteq Locked(w)' /\ Locked(w)' \subseteq Locked(w) \cup {r}
  BY <1>9, <1>11, <1>12, <1>13 DEF Locked
<1>16. \A i \in Item : RowsOf(w, i)' = RowsOf(w, i)
  BY <1>13, <1>14, <1>15 DEF RowsOf
<1>17. \A x, c : x # r => Cell(w, x, c)' = Cell(w, x, c)
  BY <1>9, <1>10, <1>12, <1>13 DEF Cell
<1>18. \A x \in DOMAIN rows \cup Locked(w) : x # r => Visible(w)'[x] = Visible(w)[x]
  BY <1>13, <1>14, <1>15, <1>17 DEF Visible
<1>19. Active(w)
  BY <1>3 DEF Types, Idle
<1>20. Active(w)'
  BY <1>12, <1>13, <1>19 DEF Active
<1>21. WritesWhatItMade(w)'
  <2> SUFFICES ASSUME NEW i \in Item, NEW col \in {"on_hand", "reserved"},
                      tx'[w].made[<<col, i>>] # 0
               PROVE  \E x \in Locked(w)' : x[1] = i
    BY DEF WritesWhatItMade
  <2>1. CASE tx[w].made[<<col, i>>] # 0
    <3>0. WritesWhatItMade(w)
      BY DEF RowsInv
    <3>1. \E x \in Locked(w) : x[1] = i
      BY <2>1, <3>0 DEF WritesWhatItMade
    <3> QED
      BY <1>15, <3>1
  <2>2. CASE tx[w].made[<<col, i>>] = 0
    <3>0. made[<<col, i>>] # 0
                  /\ made[<<col, i>>] = tx[w].made[<<col, i>>]
                       + (IF call.col = col /\ call.item = i THEN call.qty ELSE 0)
      BY <1>8, <1>12, <1>13
    <3>1. call.col = col /\ call.item = i /\ call.qty # 0
      BY <1>7, <2>2, <3>0
    <3>2. new[col] # image[col]
      BY <1>7, <3>1
    <3>3. <<r, col>> \in cells
      BY <1>10, <3>2 DEF Col
    <3>4. r \in Locked(w)'
      BY <1>9, <1>12, <1>13, <3>3 DEF Locked
    <3> QED
      BY <1>14, <3>1, <3>4
  <2> QED
    BY <2>1, <2>2
<1>22. ~Loads(w)' /\ ~Missing(w)'
  BY <1>12, <1>13 DEF Loads, Missing, NoObject
<1>23. ASSUME NEW i \in Item \ (raced \cup missed[w])
       PROVE  Follows(w, i)'
  <2>1. Follows(w, i)
    BY <1>19 DEF RowsInv
  <2>2. CASE i = call.item
    <3>1. RowsOf(w, i) = {r} /\ RowsOf(w, i)' = {r}
      BY <1>14, <1>16, <2>1, <2>2 DEF Follows
    <3>2. image = Visible(w)[r]
      BY <1>2, <1>6, <2>1, <2>2 DEF Follows
    <3>3. \A c \in Col : Cell(w, r, c) = image[c]
      BY <1>14, <3>2 DEF Visible, Col
    <3>4. ASSUME NEW c \in Col
          PROVE  Cell(w, r, c)' = new[c]
      <4>1. CASE new[c] # image[c]
        BY <1>9, <1>10, <1>12, <1>13, <4>1 DEF Cell
      <4>2. CASE new[c] = image[c]
        <5>1. <<r, c>> \notin cells
          BY <1>10, <4>2
        <5>2. Cell(w, r, c)' = Cell(w, r, c)
          BY <1>9, <1>12, <1>13, <5>1 DEF Cell
        <5> QED
          BY <3>3, <4>2, <5>2
      <4> QED
        BY <4>1, <4>2
    <3>5. /\ Cell(w, r, "on_hand")' = new.on_hand /\ Cell(w, r, "reserved")' = new.reserved
          /\ Cell(w, r, "available")' = new.available
      BY <3>4 DEF Col
    <3>6. Visible(w)'[r] = new
      BY <1>4, <1>13, <1>14, <1>15, <3>5 DEF Visible, Counts
    <3>7. new.on_hand = ledger[i] + tx'[w].made[<<"on_hand", i>>]
      <4>1. image.on_hand = ledger[i] + tx[w].made[<<"on_hand", i>>]
        BY <2>1, <3>1, <3>3 DEF Follows, Col
      <4>2. ledger[i] \in Int /\ tx[w].made[<<"on_hand", i>>] \in Int
        BY <1>8 DEF Types
      <4>3. tx'[w].made[<<"on_hand", i>>] = tx[w].made[<<"on_hand", i>>]
                                              + (IF call.col = "on_hand" THEN call.qty ELSE 0)
        BY <1>8, <1>12, <1>13, <2>2
      <4> QED
        BY <1>7, <4>1, <4>2, <4>3
    <3>8. \A x \in RowsOf(w, i)' \cap DOMAIN tx'[w].held : tx'[w].held[x] = Visible(w)'[x]
      BY <1>9, <1>12, <1>13, <3>1, <3>6
    <3>9. new.reserved = ReservedFor(i) + tx'[w].made[<<"reserved", i>>]
      <4>1. image.reserved = ReservedFor(i) + tx[w].made[<<"reserved", i>>]
        BY <2>1, <3>1, <3>3 DEF Follows, Col
      <4>2. ReservedFor(i) \in Int /\ tx[w].made[<<"reserved", i>>] \in Int
        BY <1>8, ReservedType
      <4>3. tx'[w].made[<<"reserved", i>>] = tx[w].made[<<"reserved", i>>]
                                               + (IF call.col = "reserved" THEN call.qty ELSE 0)
        BY <1>8, <1>12, <1>13, <2>2
      <4> QED
        BY <1>7, <4>1, <4>2, <4>3
    <3> QED
      BY <1>7, <1>13, <1>22, <3>1, <3>5, <3>7, <3>8, <3>9 DEF Follows
  <2>3. CASE i # call.item
    <3>1. \A x \in RowsOf(w, i) : x # r /\ x \in DOMAIN rows \cup Locked(w)
      BY <1>14, <2>3 DEF RowsOf
    <3>2. \A x \in RowsOf(w, i) :
            /\ Visible(w)'[x] = Visible(w)[x]
            /\ Cell(w, x, "on_hand")' = Cell(w, x, "on_hand")
            /\ Cell(w, x, "reserved")' = Cell(w, x, "reserved")
            /\ Cell(w, x, "available")' = Cell(w, x, "available")
      BY <1>17, <1>18, <3>1
    <3>3. /\ tx'[w].made[<<"on_hand", i>>] = tx[w].made[<<"on_hand", i>>]
          /\ tx'[w].made[<<"reserved", i>>] = tx[w].made[<<"reserved", i>>]
      BY <1>8, <1>12, <1>13, <2>3
    <3>4. \A x \in RowsOf(w, i) \cap DOMAIN tx'[w].held :
            x \in DOMAIN tx[w].held /\ tx'[w].held[x] = tx[w].held[x]
      BY <1>9, <1>12, <1>13, <3>1
    <3> QED
      BY <1>13, <1>16, <1>22, <2>1, <3>2, <3>3, <3>4 DEF Follows
  <2> QED
    BY <2>2, <2>3
<1> QED
  BY <1>2, <1>13, <1>20, <1>21, <1>23, RowsAfter

\* Nothing a request has flushed stays when it ends otherwise than by commit.
LEMMA RollbackRows ==
  ASSUME Types, RowsInv, NEW w \in Worker, Rollback(w)
  PROVE  RowsInv'
<1>1. /\ rows' = rows /\ ledger' = ledger /\ raced' = raced
      /\ missed' = [missed EXCEPT ![w] = {}]
      /\ tx' = [tx EXCEPT ![w] = Idle]
      /\ \A i : ReservedFor(i)' = ReservedFor(i)
  BY SameReserved DEF Rollback, database, Closed
<1>2. tx'[w] = Idle /\ missed'[w] = {}
  BY <1>1 DEF Types
<1>3. \A i \in Item \ raced' : RowAgrees(i)' /\ ReservedAgrees(i)'
  BY <1>1 DEF RowsInv, RowAgrees, ReservedAgrees, CommittedRows
<1>4. ~Active(w)' /\ WritesWhatItMade(w)'
  <2>1. \A i \in Item, col \in {"on_hand", "reserved"} : tx'[w].made[<<col, i>>] = 0
    BY <1>2 DEF Idle
  <2> QED
    BY <1>2, <2>1, IdleIsSession DEF Active, WritesWhatItMade
<1>5. ASSUME NEW v \in Worker, v # w
      PROVE  /\ ~Active(v)' => missed'[v] = {}
             /\ WritesWhatItMade(v)'
             /\ Active(v)' => \A i \in Item \ (raced' \cup missed'[v]) : Follows(v, i)'
  <2>1. tx'[v] = tx[v] /\ missed'[v] = missed[v]
    BY <1>1, <1>5 DEF Types
  <2>2. (Active(v)' <=> Active(v)) /\ WritesWhatItMade(v)'
    BY <2>1 DEF Active, RowsInv, WritesWhatItMade, Locked
  <2>3. ASSUME Active(v), NEW i \in Item \ (raced \cup missed[v])
        PROVE  Follows(v, i)'
    <3>1. Follows(v, i)
      BY <2>3 DEF RowsInv
    <3>2. DOMAIN rows' \subseteq RowId
      BY <1>1 DEF Types
    <3> QED
      BY <1>1, <2>1, <3>1, <3>2, FollowsStill
  <2> QED
    BY <1>1, <2>1, <2>2, <2>3 DEF RowsInv
<1> QED
  BY <1>2, <1>3, <1>4, <1>5 DEF RowsInv

\* The order a request has written, if any.
LEMMA TouchedOrder ==
  ASSUME Types, NEW w \in Worker
  PROVE  /\ \A o \in Order : o \in Touched(w) <=>
              tx[w].request.kind \in {"approve", "generate", "pick"} /\ tx[w].request.order = o
         /\ tx[w].request.kind \in {"approve", "generate", "pick"} =>
              tx[w].request.order \in Order
         /\ tx[w].request.kind = "pick" => /\ tx[w].request.item \in Item
                                           /\ tx[w].request.qty \in Nat \ {0}
                                           /\ tx[w].request.task \in Nat
         /\ \A i \in Item : i \in Touched(w) <=> \E r \in Locked(w) : r[1] = i
<1> DEFINE q == tx[w].request
<1>1. q \in Request \cup {NoRequest} /\ Locked(w) \subseteq RowId
  BY SessionFacts DEF SessionType
<1>2. /\ q.kind \in {"approve", "generate", "pick"} <=> "order" \in DOMAIN q
      /\ "order" \in DOMAIN q => q.order \in Order
      /\ q.kind = "pick" => q.item \in Item /\ q.qty \in Nat \ {0} /\ q.task \in Nat
  BY <1>1 DEF Request, NoRequest, Qty
<1>3. \A r \in Locked(w) : r[1] \in Item
  BY <1>1 DEF RowId
<1>4. Item \cap Order = {}
  BY TransactionsAssumption
<1> HIDE DEF q
<1>5. \A x : x \in Touched(w) <=>
        (\E r \in Locked(w) : r[1] = x) \/ ("order" \in DOMAIN q /\ q.order = x)
  BY DEF Touched, q
<1>6. /\ \A o \in Order : o \in Touched(w) <=>
           q.kind \in {"approve", "generate", "pick"} /\ q.order = o
      /\ \A i \in Item : i \in Touched(w) <=> \E r \in Locked(w) : r[1] = i
  BY <1>2, <1>3, <1>4, <1>5
<1> QED
  BY <1>2, <1>6 DEF q

\* approve_outbound, generate_picks and scan_pick, field by field.
LEMMA ApprovedOrder ==
  ASSUME Types, NEW w \in Worker, NEW o \in Order, o \in Touched(w),
         tx[w].request.kind = "approve"
  PROVE  /\ OrderAfter(w).status = "APPROVED" /\ OrderAfter(w).tasks = order[o].tasks
         /\ \A i \in Item : OrderAfter(w).reserved[i]
                              = order[o].reserved[i] + tx[w].made[<<"reserved", i>>]
<1> DEFINE now == order[o]
           reserved == [i \in Item |-> now.reserved[i] + tx[w].made[<<"reserved", i>>]]
<1>1. tx[w].request.order = o /\ now \in OrderType
  BY TouchedOrder DEF Types
<1>2. OrderAfter(w) = [now EXCEPT !.status = "APPROVED", !.reserved = reserved]
  BY <1>1 DEF OrderAfter, OrderApproved, OrderType
<1> QED
  BY <1>1, <1>2 DEF OrderType

LEMMA GeneratedOrder ==
  ASSUME Types, NEW w \in Worker, NEW o \in Order, o \in Touched(w),
         tx[w].request.kind = "generate"
  PROVE  /\ OrderAfter(w).status = "PICKING" /\ OrderAfter(w).reserved = order[o].reserved
         /\ OrderAfter(w).tasks = Append(order[o].tasks, [i \in Item |->
                            [to_pick |-> tx[w].saw.reserved[i], picked |-> 0]])
<1> DEFINE now == order[o]
           tasks == Append(now.tasks, [i \in Item |->
                            [to_pick |-> tx[w].saw.reserved[i], picked |-> 0]])
<1>1. tx[w].request.order = o /\ now \in OrderType
  BY TouchedOrder DEF Types
<1>2. OrderAfter(w) = [now EXCEPT !.status = "PICKING", !.tasks = tasks]
  BY <1>1 DEF OrderAfter, OrderTasked
<1> HIDE DEF tasks
<1>3. OrderAfter(w).status = "PICKING" /\ OrderAfter(w).reserved = now.reserved
      /\ OrderAfter(w).tasks = tasks
  BY <1>1, <1>2 DEF OrderType
<1> QED
  BY <1>3 DEF tasks

LEMMA PickedOrder ==
  ASSUME Types, NEW w \in Worker, NEW o \in Order, o \in Touched(w),
         tx[w].request.kind = "pick"
  PROVE  LET q == tx[w].request
             saw == tx[w].saw
         IN  /\ OrderAfter(w).status = order[o].status
             /\ \A i \in Item : OrderAfter(w).reserved[i] =
                  IF i = q.item THEN saw.reserved[i] - q.qty ELSE order[o].reserved[i]
             /\ Len(OrderAfter(w).tasks) = Len(order[o].tasks)
             /\ \A t \in 1 .. Len(order[o].tasks), i \in Item :
                  /\ OrderAfter(w).tasks[t][i].to_pick = order[o].tasks[t][i].to_pick
                  /\ OrderAfter(w).tasks[t][i].picked =
                       IF t = q.task /\ i = q.item THEN saw.tasks[t][i].picked + q.qty
                       ELSE order[o].tasks[t][i].picked
<1> DEFINE q == tx[w].request
           now == order[o]
           saw == tx[w].saw
           Lines == [Item -> [to_pick : Nat, picked : Nat]]
           left == saw.reserved[q.item] - q.qty
           picked == saw.tasks[q.task][q.item].picked + q.qty
           reserved == [now.reserved EXCEPT ![q.item] = left]
           line == [now.tasks[q.task] EXCEPT ![q.item] = [@ EXCEPT !.picked = picked]]
           tasks == [now.tasks EXCEPT ![q.task] = line]
<1>1. q.order = o /\ q.item \in Item /\ now \in OrderType
  BY TouchedOrder DEF Types
<1>2. OrderAfter(w) = [now EXCEPT !.reserved = reserved, !.tasks = tasks]
  BY <1>1 DEF OrderAfter, OrderPicked
<1>3. now.tasks \in Seq(Lines) /\ now.reserved \in [Item -> Nat]
  BY <1>1 DEF OrderType
<1>4. DOMAIN tasks = 1 .. Len(now.tasks)
  BY <1>3
<1>5. ASSUME NEW t \in 1 .. Len(now.tasks), NEW i \in Item
      PROVE  /\ tasks[t][i].to_pick = now.tasks[t][i].to_pick
             /\ tasks[t][i].picked = IF t = q.task /\ i = q.item THEN picked
                                     ELSE now.tasks[t][i].picked
  <2> HIDE DEF picked
  <2>1. now.tasks[t] \in Lines
    BY <1>3, ElementOfSeq
  <2>2. tasks[t] = IF t = q.task THEN line ELSE now.tasks[t]
    <3> HIDE DEF line
    <3> QED
      BY <1>3
  <2>3. CASE t = q.task
    <3>1. line[i] = IF i = q.item THEN [now.tasks[t][i] EXCEPT !.picked = picked]
                    ELSE now.tasks[t][i]
      BY <1>1, <2>1, <2>3
    <3> HIDE DEF line, tasks
    <3> QED
      BY <2>1, <2>2, <2>3, <3>1
  <2>4. CASE t # q.task
    BY <2>2, <2>4
  <2> QED
    BY <2>3, <2>4
<1>6. \A i \in Item : reserved[i] = IF i = q.item THEN left ELSE now.reserved[i]
  BY <1>1, <1>3
<1>7. Len(tasks) = Len(now.tasks)
  BY <1>3, <1>4, LenProperties
<1> HIDE DEF tasks, reserved
<1>8. /\ OrderAfter(w).status = now.status /\ OrderAfter(w).reserved = reserved
      /\ OrderAfter(w).tasks = tasks
  BY <1>1, <1>2 DEF OrderType
<1> QED
  BY <1>5, <1>6, <1>7, <1>8

\* A commit leaves the reservations of an item it has not written, and changes
\* what the orders hold of an item by what it has reserved of it, unless its
\* own reading of the reservation is out of date.
LEMMA CommitReserves ==
  ASSUME Types, RequestsInv, NEW w \in Worker, WritesWhatItMade(w), Commit(w), NEW i \in Item
  PROVE  /\ i \notin Touched(w) =>
              /\ tx[w].made[<<"on_hand", i>>] = 0 /\ tx[w].made[<<"reserved", i>>] = 0
              /\ \A o \in Order : order'[o].reserved[i] = order[o].reserved[i]
         /\ i \notin missed[w] => ReservedFor(i)' = ReservedFor(i) + tx[w].made[<<"reserved", i>>]
<1> DEFINE q == tx[w].request
           made == tx[w].made
           added == made[<<"reserved", i>>]
<1>1. /\ order' = [o \in Order |-> IF o \in Touched(w) THEN OrderAfter(w) ELSE order[o]]
      /\ Finished(w)
  BY DEF Commit
<1>2. /\ made \in [{"on_hand", "reserved"} \X Item -> Int]
      /\ q \in Request \cup {NoRequest} /\ Progress(tx[w], order, missed[w])
      /\ order \in [Order -> OrderType]
  BY SessionFacts DEF SessionType, RequestsInv, Types
<1>3. /\ q.kind \in {"approve", "generate", "pick", "receive", "transfer"}
      /\ tx[w].object = NoObject /\ tx[w].calls = <<>>
  BY <1>1, <1>2 DEF Finished, Active, Request
<1>4. i \notin Touched(w) => made[<<"on_hand", i>>] = 0 /\ added = 0
  BY TouchedOrder DEF WritesWhatItMade
<1>5. ASSUME NEW o \in Order
      PROVE  /\ i \notin Touched(w) => order'[o].reserved[i] = order[o].reserved[i]
             /\ i \notin missed[w] => order'[o].reserved[i] = order[o].reserved[i]
                  + (IF o \in Touched(w) THEN added ELSE 0)
  <2>1. order[o].reserved[i] \in Int /\ added \in Int
    BY <1>2 DEF OrderType
  <2>2. CASE o \notin Touched(w)
    BY <1>1, <2>1, <2>2
  <2>3. CASE o \in Touched(w) /\ q.kind = "approve"
    <3>1. order'[o].reserved[i] = order[o].reserved[i] + added
      BY <1>1, <2>3, ApprovedOrder
    <3> QED
      BY <1>4, <2>1, <2>3, <3>1
  <2>4. CASE o \in Touched(w) /\ q.kind = "generate"
    <3>1. order'[o].reserved[i] = order[o].reserved[i]
      BY <1>1, <2>4, GeneratedOrder
    <3>2. added = 0
      BY <1>2, <2>4 DEF Progress, Quiet
    <3> QED
      BY <2>1, <3>1, <3>2
  <2>5. CASE o \in Touched(w) /\ q.kind = "pick"
    <3>1. order'[o].reserved[i] = IF i = q.item THEN tx[w].saw.reserved[i] - q.qty
                                  ELSE order[o].reserved[i]
      BY <1>1, <2>5, PickedOrder
    <3>2. added = (IF i = q.item THEN -q.qty ELSE 0) /\ q.qty \in Nat \ {0}
      BY <1>2, <1>3, <2>5, TouchedOrder DEF Progress, Picking
    <3>3. q.order = o /\ (q.item \notin missed[w] =>
            order[o].reserved[q.item] = tx[w].saw.reserved[q.item])
      BY <1>2, <2>5, TouchedOrder DEF Progress
    <3> HIDE DEF q, added
    <3>4. i \notin Touched(w) => i # q.item
      BY <1>4, <3>2
    <3> QED
      BY <2>1, <2>5, <3>1, <3>2, <3>3, <3>4
  <2> QED
    BY <1>3, <2>2, <2>3, <2>4, <2>5, TouchedOrder
<1>6. ASSUME i \notin missed[w]
      PROVE  ReservedFor(i)' = ReservedFor(i) + added
  <2> DEFINE f == [o \in Order |-> order[o].reserved[i]]
             g == [o \in Order |-> order'[o].reserved[i]]
  <2>1. ReservedFor(i) = SumFunctionOnSet(f, Order) /\ ReservedFor(i)' = SumFunctionOnSet(g, Order)
    BY ReservedIsSum DEF HeldBy
  <2>2. \A o \in Order : f[o] \in Int
    BY <1>2 DEF OrderType
  <2>3. \A o \in Order : g[o] = f[o] + (IF o \in Touched(w) THEN added ELSE 0)
    BY <1>5, <1>6
  <2>4. added \in Int
    BY <1>2
  <2> HIDE DEF f, g
  <2>5. \A o \in Order : g[o] \in Int
    BY <2>2, <2>3, <2>4
  <2>6. SumFunctionOnSet(f, Order) \in Int
    BY <2>2, OrdersFinite, SumInt
  <2>7. CASE q.kind \in {"approve", "generate", "pick"}
    <3>1. PICK p \in Order : p = q.order
      BY <2>7, TouchedOrder
    <3>2. \A o \in Order : o \in Touched(w) <=> o = p
      BY <2>7, <3>1, TouchedOrder
    <3> HIDE DEF added
    <3>3. g[p] - f[p] = added
      BY <2>2, <2>3, <2>4, <3>2
    <3>4. \A o \in Order \ {p} : f[o] = g[o]
      BY <2>2, <2>3, <2>4, <3>2
    <3>5. SumFunctionOnSet(g, Order) = SumFunctionOnSet(f, Order) + (g[p] - f[p])
      BY <2>2, <2>5, <3>4, OrdersFinite, SumChange
    <3> QED
      BY <2>1, <3>3, <3>5
  <2>8. CASE q.kind \in {"receive", "transfer"}
    <3>1. \A o \in Order : o \notin Touched(w)
      BY <2>8, TouchedOrder
    <3>2. added = 0
      BY <1>2, <2>8 DEF Progress, Quiet
    <3>3. \A o \in Order : g[o] = f[o]
      BY <2>2, <2>3, <3>1
    <3>4. SumFunctionOnSet(g, Order) = SumFunctionOnSet(f, Order)
      BY <3>3, OrdersFinite, SumAgree
    <3> QED
      BY <2>1, <2>6, <3>2, <3>4
  <2> QED
    BY <1>3, <2>7, <2>8
<1> QED
  BY <1>4, <1>5, <1>6

\* A commit puts into the tables what the session has read all along, unless
\* it writes an item that another has committed since it began.
LEMMA CommitRows ==
  ASSUME Types, RequestsInv, RowsInv, NEW w \in Worker, Commit(w)
  PROVE  RowsInv'
<1>1. /\ rows' = Visible(w)
      /\ ledger' = [i \in Item |-> ledger[i] + tx[w].made[<<"on_hand", i>>]]
      /\ missed' = [v \in Worker |-> IF v = w THEN {}
                                 ELSE IF Active(v) THEN missed[v] \cup Touched(w) ELSE {}]
      /\ raced' = raced \cup (Touched(w) \cap missed[w])
      /\ tx' = [tx EXCEPT ![w] = Idle]
  BY DEF Commit, Closed
<1>2. Active(w) /\ SoundRows(w) /\ Locked(w) \subseteq RowId
  BY SessionFacts DEF Commit, Finished
<1>3. DOMAIN rows' = DOMAIN rows \cup Locked(w) /\ DOMAIN rows' \subseteq RowId
  BY <1>1, <1>2 DEF Visible, Types
<1>4. tx'[w] = Idle /\ missed'[w] = {}
  BY <1>1 DEF Types
<1>5. \A r \in DOMAIN rows' : /\ rows'[r].on_hand = Cell(w, r, "on_hand")
                              /\ rows'[r].reserved = Cell(w, r, "reserved")
                              /\ rows'[r].available = Cell(w, r, "available")
  BY <1>1, <1>3 DEF Visible
<1>6. ASSUME NEW i \in Item, i \notin Touched(w)
      PROVE  /\ ledger'[i] = ledger[i] /\ ReservedFor(i)' = ReservedFor(i)
             /\ \A r \in RowId : r[1] = i => (r \in DOMAIN rows' <=> r \in DOMAIN rows)
             /\ \A r \in DOMAIN rows : r[1] = i => rows'[r] = rows[r]
  <2>1. \A r \in Locked(w) : r[1] # i
    BY <1>6 DEF Touched
  <2>0. WritesWhatItMade(w)
    BY DEF RowsInv
  <2>2. tx[w].made[<<"on_hand", i>>] = 0 /\ ledger[i] \in Int
    BY <1>6, <2>0, CommitReserves DEF Types
  <2>4. ReservedFor(i)' = ReservedFor(i)
    <3> DEFINE f == [o \in Order |-> order[o].reserved[i]]
               g == [o \in Order |-> order'[o].reserved[i]]
    <3>1. \A o \in Order : f[o] = g[o]
      BY <1>6, <2>0, CommitReserves
    <3>2. ReservedFor(i) = SumFunctionOnSet(f, Order) /\ ReservedFor(i)' = SumFunctionOnSet(g, Order)
      BY ReservedIsSum DEF HeldBy
    <3> HIDE DEF f, g
    <3> QED
      BY <3>1, <3>2, OrdersFinite, SumAgree
  <2>3. ASSUME NEW r \in DOMAIN rows, r[1] = i
        PROVE  rows'[r] = rows[r]
    <3>1. \A c \in Col : <<r, c>> \notin DOMAIN tx[w].writes
      BY <2>1, <2>3 DEF Locked
    <3>2. \A c \in Col : Cell(w, r, c) = rows[r][c]
      BY <3>1 DEF Cell
    <3>3. rows[r] \in Counts
      BY DEF Types
    <3> QED
      BY <1>1, <1>3, <3>2, <3>3 DEF Visible, Counts, Col
  <2> QED
    BY <1>1, <1>3, <2>1, <2>2, <2>3, <2>4
<1>7. ASSUME NEW i \in Item \ raced'
      PROVE  RowAgrees(i)' /\ ReservedAgrees(i)'
  <2>1. i \notin raced /\ (i \in Touched(w) => i \notin missed[w])
    BY <1>1
  <2>2. CASE i \in Touched(w)
    <3>1. Follows(w, i)
      BY <1>2, <2>1, <2>2 DEF RowsInv
    <3>2. CommittedRows(i)' = RowsOf(w, i)
      BY <1>3 DEF CommittedRows, RowsOf
    <3>3. ledger'[i] = ledger[i] + tx[w].made[<<"on_hand", i>>]
      BY <1>1
    <3>4. \A r \in RowsOf(w, i) : r \in DOMAIN rows'
      BY <1>3 DEF RowsOf
    <3>5. ReservedFor(i)' = ReservedFor(i) + tx[w].made[<<"reserved", i>>]
      <4>1. WritesWhatItMade(w)
        BY DEF RowsInv
      <4> QED
        BY <2>1, <2>2, <4>1, CommitReserves
    <3> QED
      BY <1>5, <3>1, <3>2, <3>3, <3>4, <3>5 DEF RowAgrees, ReservedAgrees, Follows
  <2>3. CASE i \notin Touched(w)
    <3>1. RowAgrees(i) /\ ReservedAgrees(i)
      BY <2>1 DEF RowsInv
    <3>2. CommittedRows(i)' = CommittedRows(i)
      BY <1>3, <1>6, <2>3 DEF CommittedRows, Types
    <3>3. \A r \in CommittedRows(i) : rows'[r] = rows[r]
      BY <1>6, <2>3 DEF CommittedRows
    <3> QED
      BY <1>6, <2>3, <3>1, <3>2, <3>3 DEF RowAgrees, ReservedAgrees
  <2> QED
    BY <2>2, <2>3
<1>8. ~Active(w)' /\ WritesWhatItMade(w)'
  <2>1. \A i \in Item, col \in {"on_hand", "reserved"} : tx'[w].made[<<col, i>>] = 0
    BY <1>4 DEF Idle
  <2> QED
    BY <1>4, <2>1, IdleIsSession DEF Active, WritesWhatItMade
<1>9. ASSUME NEW v \in Worker, v # w
      PROVE  /\ ~Active(v)' => missed'[v] = {}
             /\ WritesWhatItMade(v)'
             /\ Active(v)' => \A i \in Item \ (raced' \cup missed'[v]) : Follows(v, i)'
  <2>1. tx'[v] = tx[v]
    BY <1>1, <1>9 DEF Types
  <2>2. (Active(v)' <=> Active(v)) /\ WritesWhatItMade(v)'
    BY <2>1 DEF Active, RowsInv, WritesWhatItMade, Locked
  <2>3. missed'[v] = IF Active(v) THEN missed[v] \cup Touched(w) ELSE {}
    BY <1>1, <1>9
  <2>4. ASSUME Active(v), NEW i \in Item \ (raced' \cup missed'[v])
        PROVE  Follows(v, i)'
    <3>1. Follows(v, i) /\ i \notin Touched(w)
      BY <1>1, <2>3, <2>4 DEF RowsInv
    <3> QED
      BY <1>3, <1>6, <2>1, <3>1, FollowsStill
  <2> QED
    BY <2>2, <2>3, <2>4
<1> QED
  BY <1>4, <1>7, <1>8, <1>9 DEF RowsInv

LEMMA InitRows ==
  ASSUME Init
  PROVE  RowsInv
<1>1. tx = [w \in Worker |-> Idle] /\ missed = [w \in Worker |-> {}]
  BY DEF Init
<1>2. \A w \in Worker : ~Active(w) /\ missed[w] = {} /\ WritesWhatItMade(w)
  BY <1>1, IdleIsSession DEF Active, WritesWhatItMade, Idle
<1>3. ASSUME NEW i \in Item
      PROVE  RowAgrees(i) /\ ReservedAgrees(i)
  <2>1. /\ rows = [r \in (DOMAIN OpeningStock) \X {1} |->
                    Row(OpeningStock[r[1]].on_hand, OpeningStock[r[1]].reserved)]
        /\ ledger[i] = IF i \in DOMAIN OpeningStock THEN OpeningStock[i].on_hand ELSE 0
    BY DEF Init
  <2>2. \A r \in CommittedRows(i) : r = <<i, 1>> /\ i \in DOMAIN OpeningStock
    BY <2>1 DEF CommittedRows
  <2>3. i \in DOMAIN OpeningStock => <<i, 1>> \in CommittedRows(i)
    BY <2>1 DEF CommittedRows
  <2>4. i \in DOMAIN OpeningStock => OpeningStock[i].on_hand \in Nat /\ OpeningStock[i].reserved \in Nat
    BY TransactionsAssumption
  <2>5. \A r \in CommittedRows(i) :
          rows[r] = Row(OpeningStock[i].on_hand, OpeningStock[i].reserved)
    BY <2>1, <2>2, <2>3 DEF CommittedRows
  <2>6. \A r \in CommittedRows(i) :
          /\ rows[r].on_hand = ledger[i] /\ rows[r].reserved = OpeningStock[i].reserved
          /\ rows[r].available = rows[r].on_hand - rows[r].reserved
    BY <2>1, <2>2, <2>4, <2>5 DEF Row
  <2>7. ReservedFor(i) = IF i \in DOMAIN OpeningStock THEN OpeningStock[i].reserved ELSE 0
    <3> DEFINE f == [o \in Order |-> order[o].reserved[i]]
               g == [o \in Order |-> OpeningOrder[o][i]]
    <3>1. f = g
      BY DEF Init
    <3>2. ReservedFor(i) = SumFunction(f)
      BY DEF ReservedFor
    <3> QED
      BY <3>1, <3>2, OpeningBooksAssumption
  <2> QED
    BY <2>1, <2>2, <2>3, <2>6, <2>7 DEF RowAgrees, ReservedAgrees
<1> QED
  BY <1>2, <1>3 DEF RowsInv

LEMMA NextRows ==
  ASSUME Types, RequestsInv, RowsInv, [Next]_vars
  PROVE  RowsInv'
<1>1. CASE UNCHANGED vars
  <2>1. /\ rows' = rows /\ ledger' = ledger /\ tx' = tx /\ missed' = missed /\ raced' = raced
        /\ \A i : ReservedFor(i)' = ReservedFor(i)
    BY <1>1, SameReserved DEF vars, database
  <2>2. ASSUME NEW v \in Worker, NEW i \in Item, Follows(v, i)
        PROVE  Follows(v, i)'
    BY <2>1, <2>2, FollowsStill DEF Types
  <2>3. ASSUME NEW v \in Worker
        PROVE  (Active(v)' <=> Active(v)) /\ (WritesWhatItMade(v) => WritesWhatItMade(v)')
    BY <2>1 DEF Active, WritesWhatItMade, Locked
  <2>4. ASSUME NEW i \in Item, RowAgrees(i) /\ ReservedAgrees(i)
        PROVE  RowAgrees(i)' /\ ReservedAgrees(i)'
    BY <2>1, <2>4 DEF RowAgrees, ReservedAgrees, CommittedRows
  <2> QED
    BY <2>1, <2>2, <2>3, <2>4 DEF RowsInv
<1>2. ASSUME NEW w \in Worker, Begin(w) \/ Proceed(w) \/ Crash(w)
      PROVE  RowsInv'
  BY <1>2, BeginRows, ReadCandidatesRows, NextReserveRows, NextCallRows, InsertRowRows,
     UpdateRowRows, CommitRows, RollbackRows DEF Proceed, Fail, Crash
<1>3. CASE CancelDeadlock
  BY <1>3, RollbackRows DEF CancelDeadlock
<1> QED
  BY <1>1, <1>2, <1>3 DEF Next

-----------------------------------------------------------------------------
(* What requests know of their orders *)

LEMMA Kinds ==
  ASSUME Types, NEW w \in Worker
  PROVE  /\ Active(w) => tx[w].request.kind \in {"approve", "generate", "pick", "receive", "transfer"}
         /\ ~Active(w) => tx[w] = Idle
         /\ tx[w].request.kind = "approve" => tx[w].calls = <<>> /\ tx[w].request.order \in Order
<1>1. tx[w].request \in Request \cup {NoRequest} /\ SoundRequest(w)
  BY SessionFacts DEF SessionType
<1>2. tx[w].request.kind = "approve" => tx[w].request.order \in Order
  BY <1>1 DEF Request, NoRequest
<1>3. Active(w) => tx[w].request.kind \in {"approve", "generate", "pick", "receive", "transfer"}
  BY <1>1 DEF Active, Request
<1> QED
  BY <1>1, <1>2, <1>3 DEF Types, SoundRequest

\* A step of w that commits nothing.
LEMMA RequestsAfter ==
  ASSUME Types, RequestsInv, NEW w \in Worker,
         tx' = [tx EXCEPT ![w] = tx'[w]], UNCHANGED <<database, missed>>,
         Progress(tx'[w], order, missed[w])
  PROVE  RequestsInv'
<1>1. order' = order /\ missed' = missed
  BY DEF database
<1>2. ASSUME NEW v \in Worker
      PROVE  Progress(tx'[v], order, missed[v])
  <2>1. CASE v = w
    BY <2>1
  <2>2. CASE v # w
    <3>1. tx'[v] = tx[v]
      BY <2>2 DEF Types
    <3> QED
      BY <3>1 DEF RequestsInv
  <2> QED
    BY <2>1, <2>2
<1> QED
  BY <1>1, <1>2 DEF RequestsInv

LEMMA LinesFacts ==
  ASSUME NEW o \in Order
  PROVE  /\ OrderLines[o] \in Seq(OrderLine) /\ Len(OrderLines[o]) \in Nat
         /\ DOMAIN OrderLines[o] = 1 .. Len(OrderLines[o])
         /\ \A n \in 1 .. Len(OrderLines[o]) : OrderLines[o][n].qty \in Nat \ {0}
         /\ IsFiniteSet(1 .. Len(OrderLines[o]))
<1>1. OrderLines[o] \in Seq(OrderLine)
  BY TransactionsAssumption
<1>2. \A n \in 1 .. Len(OrderLines[o]) : OrderLines[o][n] \in OrderLine
  BY <1>1, ElementOfSeq
<1>3. Len(OrderLines[o]) \in Nat
  BY <1>1, LenProperties
<1>4. IsFiniteSet(1 .. Len(OrderLines[o]))
  BY <1>3, FS_Interval
<1> QED
  BY <1>1, <1>2, <1>3, <1>4, LenProperties DEF OrderLine, Qty

LEMMA ItemsFinite ==
  ASSUME NEW p
  PROVE  IsFiniteSet(ItemsOf(p)) /\ ItemsOf(p) \subseteq Item
<1>1. ItemsOf(p) \subseteq Item /\ IsFiniteSet(Item)
  BY TransactionsAssumption DEF ItemsOf
<1> QED
  BY <1>1, FS_Subset

\* What is counted of a product when every count is zero, and when one changes.
LEMMA TotalZero ==
  ASSUME NEW f, \A i \in Item : f[i] = 0, NEW p
  PROVE  OrderTotal(f, p) = 0
<1>1. \A i \in ItemsOf(p) : f[i] = 0
  BY ItemsFinite
<1> QED
  BY <1>1, ItemsFinite, SumZero DEF OrderTotal, ItemsOf

LEMMA TotalInt ==
  ASSUME NEW f, \A i \in Item : f[i] \in Int, NEW p
  PROVE  OrderTotal(f, p) \in Int
<1>1. \A i \in ItemsOf(p) : f[i] \in Int
  BY ItemsFinite
<1> QED
  BY <1>1, ItemsFinite, SumInt DEF OrderTotal, ItemsOf

LEMMA TotalAgree ==
  ASSUME NEW f, NEW g, \A i \in Item : f[i] = g[i], NEW p
  PROVE  OrderTotal(f, p) = OrderTotal(g, p)
<1> DEFINE S == ItemsOf(p)
<1>1. OrderTotal(f, p) = SumFunctionOnSet(f, S) /\ OrderTotal(g, p) = SumFunctionOnSet(g, S)
  BY DEF OrderTotal, ItemsOf
<1>2. IsFiniteSet(S) /\ \A i \in S : f[i] = g[i]
  BY ItemsFinite
<1> HIDE DEF S
<1>3. SumFunctionOnSet(f, S) = SumFunctionOnSet(g, S)
  BY <1>2, SumAgree
<1> QED
  BY <1>1, <1>3

LEMMA TotalChange ==
  ASSUME NEW f, NEW g, \A i \in Item : f[i] \in Int, NEW x \in Item, NEW d \in Int,
         \A i \in Item : g[i] = IF i = x THEN f[i] + d ELSE f[i], NEW p
  PROVE  OrderTotal(g, p) = OrderTotal(f, p) + (IF ProductOf[x] = p THEN d ELSE 0)
<1> DEFINE S == ItemsOf(p)
<1>1. OrderTotal(f, p) = SumFunctionOnSet(f, S) /\ OrderTotal(g, p) = SumFunctionOnSet(g, S)
  BY DEF OrderTotal, ItemsOf
<1>2. IsFiniteSet(S) /\ S \subseteq Item /\ (x \in S <=> ProductOf[x] = p)
  BY ItemsFinite DEF ItemsOf
<1>3. OrderTotal(f, p) \in Int
  BY TotalInt
<1> HIDE DEF S
<1>4. (\A i \in S : f[i] \in Int) /\ (\A i \in S : g[i] \in Int)
  BY <1>2
<1>5. CASE x \in S
  <2>1. PICK y \in S : y = x
    BY <1>5
  <2>2. \A i \in S \ {y} : f[i] = g[i]
    BY <1>2, <2>1
  <2>3. SumFunctionOnSet(g, S) = SumFunctionOnSet(f, S) + (g[y] - f[y])
    BY <1>2, <1>4, <2>2, SumChange
  <2>4. g[y] - f[y] = d
    BY <1>4, <2>1
  <2> QED
    BY <1>1, <1>2, <1>5, <2>3, <2>4
<1>6. CASE x \notin S
  <2>1. \A i \in S : f[i] = g[i]
    BY <1>2, <1>6
  <2>2. SumFunctionOnSet(f, S) = SumFunctionOnSet(g, S)
    BY <1>2, <2>1, SumAgree
  <2> QED
    BY <1>1, <1>2, <1>3, <1>6, <2>2
<1> QED
  BY <1>5, <1>6

LEMMA NothingMade ==
  ASSUME NEW made, \A i \in Item : made[<<"reserved", i>>] = 0, NEW p
  PROVE  MadeFor(made, p) = 0
<1> DEFINE f == [i \in Item |-> made[<<"reserved", i>>]]
<1>1. \A i \in Item : f[i] = 0
  OBVIOUS
<1> HIDE DEF f
<1>2. OrderTotal(f, p) = 0
  BY <1>1, TotalZero
<1> QED
  BY <1>2 DEF MadeFor, f

LEMMA MadeIsInt ==
  ASSUME NEW made \in [{"on_hand", "reserved"} \X Item -> Int], NEW p
  PROVE  MadeFor(made, p) \in Int
<1> DEFINE f == [i \in Item |-> made[<<"reserved", i>>]]
<1>1. \A i \in Item : f[i] \in Int
  OBVIOUS
<1> HIDE DEF f
<1>2. OrderTotal(f, p) \in Int
  BY <1>1, TotalInt
<1> QED
  BY <1>2 DEF MadeFor, f

LEMMA LaterIsInt ==
  ASSUME NEW o \in Order, NEW m \in Nat, NEW p
  PROVE  Later(OrderLines[o], m, p) \in Int
<1> DEFINE L == OrderLines[o]
           f == [n \in DOMAIN L |-> L[n].qty]
           S == LinesAfter(L, m, p)
<1>1. S \subseteq 1 .. Len(L) /\ DOMAIN L = 1 .. Len(L)
  BY LinesFacts DEF LinesAfter
<1>2. \A n \in S : f[n] \in Int
  BY <1>1, LinesFacts
<1>3. IsFiniteSet(S)
  BY <1>1, LinesFacts, FS_Subset
<1> HIDE DEF f, S
<1>4. SumFunctionOnSet(f, S) \in Int
  BY <1>2, <1>3, SumInt
<1> QED
  BY <1>4 DEF Later, f, S

\* The lines after the m-th are the next one and those after it.
LEMMA LaterStep ==
  ASSUME NEW o \in Order, NEW m \in Nat, m + 1 <= Len(OrderLines[o]), NEW p
  PROVE  Later(OrderLines[o], m, p) = Later(OrderLines[o], m + 1, p)
           + (IF OrderLines[o][m + 1].product = p THEN OrderLines[o][m + 1].qty ELSE 0)
<1> DEFINE L == OrderLines[o]
           f == [n \in DOMAIN L |-> L[n].qty]
           S == LinesAfter(L, m, p)
           T == LinesAfter(L, m + 1, p)
<1>1. S \subseteq 1 .. Len(L) /\ DOMAIN L = 1 .. Len(L) /\ m + 1 \in 1 .. Len(L)
  BY LinesFacts DEF LinesAfter
<1>2. \A n \in S : f[n] \in Int
  BY <1>1, LinesFacts
<1>3. IsFiniteSet(S)
  BY <1>1, LinesFacts, FS_Subset
<1>4. L[m + 1].product = p => m + 1 \in S /\ S \ {m + 1} = T /\ f[m + 1] = L[m + 1].qty
  BY <1>1, LinesFacts DEF LinesAfter
<1>5. L[m + 1].product # p => S = T
  BY <1>1, LinesFacts DEF LinesAfter
<1>6. Later(L, m, p) = SumFunctionOnSet(f, S) /\ Later(L, m + 1, p) = SumFunctionOnSet(f, T)
  BY DEF Later
<1>7. Later(L, m + 1, p) \in Int
  BY LaterIsInt
<1> HIDE DEF f, S, T
<1>8. CASE L[m + 1].product = p
  <2>1. PICK y \in S : y = m + 1
    BY <1>4, <1>8
  <2>2. SumFunctionOnSet(f, S) = f[y] + SumFunctionOnSet(f, S \ {y})
    BY <1>2, <1>3, SumAny
  <2>3. L[m + 1].qty \in Int
    BY <1>1, LinesFacts
  <2>4. Later(L, m, p) = Later(L, m + 1, p) + L[m + 1].qty
    <3> HIDE DEF L
    <3>1. Later(L, m, p) = f[y] + Later(L, m + 1, p) /\ f[y] = L[m + 1].qty
      BY <1>4, <1>6, <1>8, <2>1, <2>2
    <3> QED
      BY <1>7, <2>3, <3>1
  <2> QED
    BY <1>8, <2>4
<1>9. CASE L[m + 1].product # p
  BY <1>5, <1>6, <1>7, <1>9
<1> QED
  BY <1>8, <1>9

LEMMA LaterAll ==
  ASSUME NEW o \in Order, NEW p
  PROVE  /\ Later(OrderLines[o], 0, p) = Requested(o, p)
         /\ Later(OrderLines[o], Len(OrderLines[o]), p) = 0
<1> DEFINE L == OrderLines[o]
<1>1. LinesAfter(L, 0, p) = {n \in DOMAIN L : L[n].product = p}
  BY LinesFacts DEF LinesAfter
<1>2. LinesAfter(L, Len(L), p) = {}
  BY LinesFacts DEF LinesAfter
<1> QED
  BY <1>1, <1>2, SumEmpty DEF Later, Requested

\* A request that begins knows its order as it is.
LEMMA BegunQuiet ==
  ASSUME NEW s, s.made = Idle.made, s.lines = <<>>, s.short = 0, s.object = NoObject,
         OnHandOnly(s.calls)
  PROVE  Quiet(s)
<1>1. \A i \in Item : s.made[<<"reserved", i>>] = 0
  BY DEF Idle
<1> QED
  BY <1>1 DEF Quiet, CallsOnHand

LEMMA BegunPicking ==
  ASSUME NEW s, s.made = Idle.made, s.lines = <<>>, s.short = 0, s.object = NoObject,
         s.calls # <<>>, Head(s.calls) = Reserve(s.request.item, -s.request.qty),
         OnHandOnly(Tail(s.calls))
  PROVE  Picking(s)
<1>1. \A i \in Item : s.made[<<"reserved", i>>] = 0
  BY DEF Idle
<1> QED
  BY <1>1 DEF Picking

LEMMA ReservingAt ==
  ASSUME NEW s, NEW L, L = OrderLines[s.request.order], NEW m, m = Len(L) - Len(s.lines),
         m >= 0, \A n \in 1 .. Len(s.lines) : s.lines[n] = L[m + n],
         s.short > 0 => m > 0 /\ \A r \in s.todo : ProductOf[r[1]] = L[m].product,
         s.object # NoObject => s.object.call.col = "reserved",
         \A p \in Product :
           MadeFor(s.made, p) + Pending(s, p) + Short(s, L, m, p) + Later(L, m, p)
             = Requested(s.request.order, p)
  PROVE  Reserving(s)
BY DEF Reserving

LEMMA BegunReserving ==
  ASSUME NEW s, s.request.order \in Order, s.lines = OrderLines[s.request.order], s.short = 0,
         s.object = NoObject, s.made = Idle.made
  PROVE  Reserving(s)
<1> DEFINE o == s.request.order
           L == OrderLines[o]
<1>1. Len(L) - Len(s.lines) = 0 /\ \A n \in 1 .. Len(s.lines) : s.lines[n] = L[0 + n]
  BY LinesFacts
<1>2. \A i \in Item : s.made[<<"reserved", i>>] = 0
  BY DEF Idle
<1>3. ASSUME NEW p \in Product
      PROVE  MadeFor(s.made, p) + Pending(s, p) + Short(s, L, 0, p) + Later(L, 0, p)
               = Requested(o, p)
  <2>1. MadeFor(s.made, p) = 0
    BY <1>2, NothingMade
  <2>2. Later(L, 0, p) = Requested(o, p) /\ Later(L, 0, p) \in Int
    BY LaterAll, LaterIsInt
  <2>3. Pending(s, p) = 0 /\ Short(s, L, 0, p) = 0
    BY DEF Pending, Short
  <2> QED
    BY <2>1, <2>2, <2>3
<1> QED
  BY <1>1, <1>3 DEF Reserving

LEMMA BeginRequests ==
  ASSUME Types, RequestsInv, NEW w \in Worker, Begin(w)
  PROVE  RequestsInv'
<1>1. tx[w] = Idle /\ UNCHANGED <<database, missed>>
  BY DEF Begin, BeginApprove, BeginGenerate, BeginPick, BeginReceive, BeginTransfer, Start, Types
<1>2. PICK q \in Requests :
    \/ q.kind = "approve" /\ BeginApprove(w, q.order)
    \/ q.kind = "generate" /\ BeginGenerate(w, q.order)
    \/ q.kind = "pick" /\ BeginPick(w, q.order, q.task, q.item, q.to, q.qty)
    \/ q.kind = "receive" /\ BeginReceive(w, q.item, q.qty)
    \/ q.kind = "transfer" /\ BeginTransfer(w, q.item, q.to, q.qty)
  BY DEF Begin
<1>3. CASE q.kind = "approve" /\ BeginApprove(w, q.order)
  <2> DEFINE r == [kind |-> "approve", order |-> q.order]
             s == [Idle EXCEPT !.request = r, !.lines = OrderLines[q.order], !.saw = order[q.order]]
  <2>1. tx' = [tx EXCEPT ![w] = s] /\ order[q.order].status = "SUBMITTED" /\ r \in Requests
    BY <1>1, <1>3 DEF BeginApprove, Start
  <2>2. q.order \in Order
    BY <2>1, TransactionsAssumption DEF Request
  <2>3. /\ s.request = r /\ s.lines = OrderLines[q.order] /\ s.saw = order[q.order]
        /\ s.short = 0 /\ s.object = NoObject /\ s.made = Idle.made
    BY DEF Idle
  <2> HIDE DEF s
  <2>4. Reserving(s)
    BY <2>2, <2>3, BegunReserving
  <2>5. Progress(s, order, missed[w])
    BY <2>1, <2>3, <2>4 DEF Progress
  <2>6. tx'[w] = s
    BY <2>1 DEF Types
  <2> QED
    BY <1>1, <2>1, <2>5, <2>6, RequestsAfter
<1>4. CASE q.kind = "generate" /\ BeginGenerate(w, q.order)
  <2> DEFINE r == [kind |-> "generate", order |-> q.order]
             s == [Idle EXCEPT !.request = r, !.saw = order[q.order]]
  <2>1. /\ tx' = [tx EXCEPT ![w] = s]
        /\ order[q.order].status = "APPROVED" /\ order[q.order].tasks = <<>>
    BY <1>1, <1>4 DEF BeginGenerate
  <2>2. /\ s.request = r /\ s.lines = <<>> /\ s.saw = order[q.order] /\ s.calls = <<>>
        /\ s.short = 0 /\ s.object = NoObject /\ s.made = Idle.made
    BY DEF Idle
  <2> HIDE DEF s
  <2>3. Quiet(s)
    BY <2>2, BegunQuiet DEF OnHandOnly
  <2>4. Progress(s, order, missed[w])
    BY <2>1, <2>2, <2>3 DEF Progress
  <2>5. tx'[w] = s
    BY <2>1 DEF Types
  <2> QED
    BY <1>1, <2>1, <2>4, <2>5, RequestsAfter
<1>5. CASE q.kind = "pick" /\ BeginPick(w, q.order, q.task, q.item, q.to, q.qty)
  <2> DEFINE r == [kind |-> "pick", order |-> q.order, task |-> q.task, item |-> q.item,
                   to |-> q.to, qty |-> q.qty]
             c == <<Reserve(q.item, -q.qty), Post(q.item, -q.qty), Post(q.to, q.qty)>>
             s == [Idle EXCEPT !.request = r, !.saw = order[q.order], !.calls = c]
  <2>1. /\ tx' = [tx EXCEPT ![w] = s] /\ r \in Requests
        /\ q.task \in DOMAIN order[q.order].tasks
        /\ order[q.order].tasks[q.task][q.item].picked + q.qty
             <= order[q.order].tasks[q.task][q.item].to_pick
    BY <1>1, <1>5 DEF BeginPick, Start
  <2>2. /\ c # <<>> /\ Head(c) = Reserve(q.item, -q.qty)
        /\ Tail(c) = <<Post(q.item, -q.qty), Post(q.to, q.qty)>>
    OBVIOUS
  <2>3. OnHandOnly(Tail(c))
    BY <2>2 DEF OnHandOnly, Post
  <2> HIDE DEF c
  <2>4. /\ s.request = r /\ s.lines = <<>> /\ s.saw = order[q.order] /\ s.calls = c
        /\ s.short = 0 /\ s.object = NoObject /\ s.made = Idle.made
    BY DEF Idle
  <2> HIDE DEF s
  <2>5. Picking(s)
    BY <2>2, <2>3, <2>4, BegunPicking
  <2>6. Progress(s, order, missed[w])
    BY <2>1, <2>4, <2>5 DEF Progress
  <2>7. tx'[w] = s
    BY <2>1 DEF Types
  <2> QED
    BY <1>1, <2>1, <2>6, <2>7, RequestsAfter
<1>6. CASE q.kind = "receive" /\ BeginReceive(w, q.item, q.qty)
  <2> DEFINE r == [kind |-> "receive", item |-> q.item, qty |-> q.qty]
             c == <<Post(q.item, q.qty)>>
             s == [Idle EXCEPT !.request = r, !.calls = c]
  <2>1. tx' = [tx EXCEPT ![w] = s]
    BY <1>1, <1>6 DEF BeginReceive
  <2>2. OnHandOnly(c)
    BY DEF OnHandOnly, Post
  <2> HIDE DEF c
  <2>3. /\ s.request = r /\ s.lines = <<>> /\ s.calls = c
        /\ s.short = 0 /\ s.object = NoObject /\ s.made = Idle.made
    BY DEF Idle
  <2> HIDE DEF s
  <2>4. Quiet(s)
    BY <2>2, <2>3, BegunQuiet
  <2>5. Progress(s, order, missed[w])
    BY <2>3, <2>4 DEF Progress
  <2>6. tx'[w] = s
    BY <2>1 DEF Types
  <2> QED
    BY <1>1, <2>1, <2>5, <2>6, RequestsAfter
<1>7. CASE q.kind = "transfer" /\ BeginTransfer(w, q.item, q.to, q.qty)
  <2> DEFINE r == [kind |-> "transfer", item |-> q.item, to |-> q.to, qty |-> q.qty]
             c == <<Post(q.item, -q.qty), Post(q.to, q.qty)>>
  <2>1. PICK x \in RowsOf(w, q.item) :
          tx' = [tx EXCEPT ![w] = [Idle EXCEPT !.request = r,
                  !.held = [y \in {x} |-> Loaded(w, y)], !.calls = c]]
    BY <1>1, <1>7 DEF BeginTransfer
  <2> DEFINE h == [y \in {x} |-> Loaded(w, y)]
             s == [Idle EXCEPT !.request = r, !.held = h, !.calls = c]
  <2>2. OnHandOnly(c)
    BY DEF OnHandOnly, Post
  <2> HIDE DEF c, h
  <2>3. /\ s.request = r /\ s.lines = <<>> /\ s.calls = c
        /\ s.short = 0 /\ s.object = NoObject /\ s.made = Idle.made
    BY DEF Idle
  <2>4. tx' = [tx EXCEPT ![w] = s]
    BY <2>1 DEF h
  <2> HIDE DEF s
  <2>5. Quiet(s)
    BY <2>2, <2>3, BegunQuiet
  <2>6. Progress(s, order, missed[w])
    BY <2>3, <2>5 DEF Progress
  <2>7. tx'[w] = s
    BY <2>4 DEF Types
  <2> QED
    BY <1>1, <2>4, <2>6, <2>7, RequestsAfter
<1> QED
  BY <1>2, <1>3, <1>4, <1>5, <1>6, <1>7

\* The next line moves from those that are left to the one that is short.
LEMMA ReadCandidatesRequests ==
  ASSUME Types, RequestsInv, NEW w \in Worker, ReadCandidates(w)
  PROVE  RequestsInv'
<1> DEFINE q == tx[w].request
           o == q.order
           L == OrderLines[o]
           m == Len(L) - Len(tx[w].lines)
           line == Head(tx[w].lines)
           seen == Visible(w)
           cand == {r \in DOMAIN seen : ProductOf[r[1]] = line.product /\ seen[r].available > 0}
           held == [r \in cand |-> seen[r]]
           s == [tx[w] EXCEPT !.lines = Tail(tx[w].lines), !.todo = cand,
                              !.short = line.qty, !.held = held]
<1>1. tx[w] \in SessionType /\ Progress(tx[w], order, missed[w])
  BY SessionFacts DEF RequestsInv
<1>2. /\ tx[w].lines # <<>> /\ tx[w].short = 0 /\ tx[w].object = NoObject
      /\ UNCHANGED <<database, missed>>
  BY DEF ReadCandidates
<1>3. tx' = [tx EXCEPT ![w] = s]
  BY <1>1 DEF ReadCandidates, Types, SessionType
<1>4. \A r \in cand : ProductOf[r[1]] = line.product
  OBVIOUS
<1> HIDE DEF cand, held, line
<1>5. /\ s.request = q /\ s.lines = Tail(tx[w].lines) /\ s.todo = cand /\ s.short = line.qty
      /\ s.saw = tx[w].saw /\ s.made = tx[w].made /\ s.object = NoObject /\ s.calls = tx[w].calls
  BY <1>1, <1>2 DEF SessionType
<1> HIDE DEF s
<1>6. tx[w].lines # <<>> => q.kind = "approve"
  <2>1. Active(w) \/ tx[w].lines = <<>>
    BY Kinds DEF Idle
  <2>2. q.kind \in {"generate", "receive", "transfer"} => tx[w].lines = <<>>
    BY <1>1 DEF Progress, Quiet
  <2>3. q.kind = "pick" => tx[w].lines = <<>>
    BY <1>1 DEF Progress, Picking
  <2>4. Active(w) => q.kind \in {"approve", "generate", "pick", "receive", "transfer"}
    BY Kinds
  <2> QED
    BY <2>1, <2>2, <2>3, <2>4
<1>7. q.kind = "approve" /\ o \in Order /\ Reserving(tx[w])
  BY <1>1, <1>2, <1>6, Kinds DEF Progress
<1>8. tx[w].lines \in Seq(OrderLine) /\ Len(tx[w].lines) \in Nat \ {0}
  BY <1>1, <1>2, LenProperties, EmptySeq DEF SessionType
<1>9. /\ line = tx[w].lines[1] /\ Len(s.lines) = Len(tx[w].lines) - 1
      /\ \A n \in 1 .. Len(s.lines) : s.lines[n] = tx[w].lines[n + 1]
  BY <1>2, <1>5, <1>8, HeadTailProperties DEF line
<1>10. /\ Len(L) \in Nat /\ m >= 0 /\ m = Len(L) - Len(tx[w].lines)
       /\ \A n \in 1 .. Len(tx[w].lines) : tx[w].lines[n] = L[m + n]
       /\ \A n \in 1 .. Len(L) : L[n].qty \in Nat \ {0}
       /\ \A p \in Product : MadeFor(tx[w].made, p) + Pending(tx[w], p) + Short(tx[w], L, m, p)
                               + Later(L, m, p) = Requested(o, p)
  BY <1>7, LinesFacts DEF Reserving
<1>11. /\ \A k \in Nat, p \in Product : Later(L, k, p) \in Int
       /\ \A k \in Nat, p \in Product : k + 1 <= Len(L) =>
            Later(L, k, p) = Later(L, k + 1, p) + (IF L[k + 1].product = p THEN L[k + 1].qty ELSE 0)
  BY <1>7, LaterIsInt, LaterStep
<1>12. OrderLines[s.request.order] = L /\ s.request.order = o
  BY <1>5
<1> HIDE DEF o, L, m
<1>13. m \in Nat /\ Len(L) \in Nat /\ m + 1 <= Len(L) /\ Len(L) - Len(s.lines) = m + 1
  BY <1>8, <1>9, <1>10
<1>14. PICK k \in Nat : k = m + 1
  BY <1>13
<1>15. k > 0 /\ k \in 1 .. Len(L) /\ Len(L) - Len(s.lines) = k
  <2>1. k > 0 /\ k <= Len(L)
    BY <1>13, <1>14
  <2>2. k \in 1 .. Len(L)
    BY <1>13, <2>1
  <2> QED
    BY <1>13, <1>14, <2>1, <2>2
<1>16. line = L[k] /\ line.qty \in Nat \ {0}
  <2>1. 1 \in 1 .. Len(tx[w].lines)
    BY <1>8
  <2>2. line = L[m + 1]
    BY <1>9, <1>10, <2>1
  <2> QED
    BY <1>10, <1>14, <1>15, <2>2
<1>17. \A n \in 1 .. Len(s.lines) : s.lines[n] = L[k + n]
  <2> SUFFICES ASSUME NEW n \in 1 .. Len(s.lines)
               PROVE  s.lines[n] = L[k + n]
    OBVIOUS
  <2>0. n \in Nat
    OBVIOUS
  <2>1. n + 1 \in 1 .. Len(tx[w].lines) /\ s.lines[n] = tx[w].lines[n + 1]
    BY <1>8, <1>9
  <2>2. s.lines[n] = L[m + (n + 1)]
    BY <1>10, <2>1
  <2>3. m + (n + 1) = k + n
    BY <1>13, <1>14, <2>0
  <2> QED
    BY <2>2, <2>3
<1>18. ASSUME NEW p \in Product
       PROVE  MadeFor(s.made, p) + Pending(s, p) + Short(s, L, k, p) + Later(L, k, p)
                = Requested(o, p)
  <2>1. MadeFor(tx[w].made, p) + Pending(tx[w], p) + Short(tx[w], L, m, p) + Later(L, m, p)
          = Requested(o, p)
    BY <1>10
  <2>2. Pending(tx[w], p) = 0 /\ Short(tx[w], L, m, p) = 0 /\ Pending(s, p) = 0
    BY <1>2, <1>5 DEF Pending, Short
  <2> DEFINE more == IF line.product = p THEN line.qty ELSE 0
  <2>3. Short(s, L, k, p) = more
    BY <1>5, <1>16 DEF Short
  <2>4. Later(L, m, p) = Later(L, k, p) + more
    BY <1>11, <1>13, <1>14, <1>16
  <2>5. tx[w].made \in [{"on_hand", "reserved"} \X Item -> Int]
    BY <1>1 DEF SessionType
  <2>6. MadeFor(tx[w].made, p) \in Int
    BY <2>5, MadeIsInt
  <2>7. Later(L, k, p) \in Int /\ MadeFor(tx[w].made, p) \in Int /\ more \in Int
    BY <1>11, <1>16, <2>6
  <2> HIDE DEF more
  <2>8. s.made = tx[w].made
    BY <1>5
  <2> QED
    BY <2>1, <2>2, <2>3, <2>4, <2>7, <2>8
<1>19. Reserving(s)
  <2>1. \A r \in s.todo : ProductOf[r[1]] = L[k].product
    BY <1>4, <1>5, <1>16
  <2>2. k = Len(L) - Len(s.lines) /\ k >= 0 /\ k > 0 /\ L = OrderLines[s.request.order]
    BY <1>12, <1>15
  <2>3. \A p \in Product : MadeFor(s.made, p) + Pending(s, p) + Short(s, L, k, p)
                             + Later(L, k, p) = Requested(s.request.order, p)
    BY <1>12, <1>18
  <2> QED
    BY <1>5, <1>17, <2>1, <2>2, <2>3, ReservingAt
<1>20. Progress(s, order, missed[w])
  BY <1>1, <1>5, <1>7, <1>19 DEF Progress
<1>21. tx'[w] = s
  BY <1>3 DEF Types
<1> QED
  BY <1>2, <1>3, <1>20, <1>21, RequestsAfter

\* A session that has found the row of a call, or none.
LEMMA FoundSession ==
  ASSUME Types, NEW w \in Worker, NEW call \in Call, NEW session \in SessionType,
         Find(w, call, session)
  PROVE  \E s : /\ tx' = [tx EXCEPT ![w] = s] /\ tx'[w] = s
                /\ s.object # NoObject /\ s.object.call = call
                /\ s.request = session.request /\ s.lines = session.lines
                /\ s.todo = session.todo /\ s.short = session.short
                /\ s.calls = session.calls /\ s.made = session.made /\ s.saw = session.saw
<1>1. PICK object :
        /\ tx' = [tx EXCEPT ![w] = [session EXCEPT !.object = object]]
        /\ \/ object = [row |-> NoRow, call |-> call]
           \/ \E r \in RowsOf(w, call.item) :
                object = [row |-> r, call |-> call, image |-> Loaded(w, r)]
  BY DEF Find
<1> DEFINE s == [session EXCEPT !.object = object]
<1>2. object.call = call
  BY <1>1
<1>3. call.col # "none"
  BY DEF Call
<1>4. object # NoObject
  BY <1>2, <1>3 DEF NoObject, NoCall
<1>5. /\ s.object = object /\ s.request = session.request /\ s.lines = session.lines
      /\ s.todo = session.todo /\ s.short = session.short
      /\ s.calls = session.calls /\ s.made = session.made /\ s.saw = session.saw
  BY DEF SessionType
<1>6. tx' = [tx EXCEPT ![w] = s]
  BY <1>1
<1> HIDE DEF s
<1>7. tx'[w] = s
  BY <1>6 DEF Types
<1> QED
  BY <1>2, <1>4, <1>5, <1>6, <1>7

\* What is short becomes what is being reserved.
LEMMA NextReserveRequests ==
  ASSUME Types, RequestsInv, NEW w \in Worker, NextReserve(w)
  PROVE  RequestsInv'
<1>1. tx[w] \in SessionType /\ SoundRows(w) /\ Progress(tx[w], order, missed[w])
  BY SessionFacts DEF RequestsInv
<1>2. tx[w].short > 0 /\ tx[w].object = NoObject /\ UNCHANGED <<database, missed>>
  BY DEF NextReserve
<1>3. Active(w)
  BY <1>2 DEF Types, Idle
<1>4. PICK r \in Left(w) :
        LET available == tx[w].held[r].available
            take == IF tx[w].short < available THEN tx[w].short ELSE available
        IN  Find(w, Reserve(r[1], take), [tx[w] EXCEPT !.todo = @ \ {r}, !.short = @ - take])
  BY DEF NextReserve
<1> DEFINE available == tx[w].held[r].available
           take == IF tx[w].short < available THEN tx[w].short ELSE available
           session == [tx[w] EXCEPT !.todo = @ \ {r}, !.short = @ - take]
           call == Reserve(r[1], take)
           o == tx[w].request.order
           L == OrderLines[o]
           m == Len(L) - Len(tx[w].lines)
<1>5. r \in tx[w].todo /\ r \in DOMAIN tx[w].held /\ available > 0
  BY <1>1 DEF Left, SoundRows
<1>6. available \in Int /\ r[1] \in Item
  BY <1>5, SessionFacts DEF Counts, RowId
<1>7. tx[w].short \in Nat
  BY <1>1 DEF SessionType
<1>8. take \in Int /\ tx[w].short - take \in Nat
  BY <1>2, <1>5, <1>6, <1>7
<1>9. Find(w, call, session)
  BY <1>4
<1> HIDE DEF take
<1>10. call \in Call /\ call.item = r[1] /\ call.qty = take /\ call.col = "reserved"
  BY <1>6, <1>8 DEF Reserve, Call
<1>11. /\ session \in SessionType
       /\ session.request = tx[w].request /\ session.lines = tx[w].lines
       /\ session.todo = tx[w].todo \ {r} /\ session.short = tx[w].short - take
       /\ session.calls = tx[w].calls /\ session.made = tx[w].made /\ session.saw = tx[w].saw
  BY <1>1, <1>8 DEF SessionType
<1> HIDE DEF session, call
<1>12. PICK s : /\ tx' = [tx EXCEPT ![w] = s] /\ tx'[w] = s
                /\ s.object # NoObject /\ s.object.call = call
                /\ s.request = session.request /\ s.lines = session.lines
                /\ s.todo = session.todo /\ s.short = session.short
                /\ s.calls = session.calls /\ s.made = session.made /\ s.saw = session.saw
  BY <1>9, <1>10, <1>11, FoundSession
<1>13. tx[w].request.kind = "approve" /\ o \in Order /\ Reserving(tx[w])
  <2>1. ~ (tx[w].short = 0)
    BY <1>2, <1>7
  <2>2. tx[w].request.kind \notin {"generate", "receive", "transfer"}
    BY <1>1, <2>1 DEF Progress, Quiet
  <2>3. tx[w].request.kind # "pick"
    BY <1>1, <2>1 DEF Progress, Picking
  <2>4. tx[w].request.kind = "approve"
    BY <1>3, <2>2, <2>3, Kinds
  <2>5. o \in Order
    BY <2>4, Kinds
  <2>6. Reserving(tx[w])
    BY <1>1, <2>4 DEF Progress
  <2> QED BY <2>4, <2>5, <2>6
<1>14. /\ m >= 0 /\ m > 0 /\ \A n \in 1 .. Len(tx[w].lines) : tx[w].lines[n] = L[m + n]
       /\ \A x \in tx[w].todo : ProductOf[x[1]] = L[m].product
       /\ \A p \in Product : MadeFor(tx[w].made, p) + Pending(tx[w], p) + Short(tx[w], L, m, p)
                               + Later(L, m, p) = Requested(o, p)
  BY <1>2, <1>13 DEF Reserving
<1>15. m \in Nat
  <2>1. Len(L) \in Nat /\ Len(tx[w].lines) \in Nat
    BY <1>1, <1>13, LinesFacts, LenProperties DEF SessionType
  <2> QED
    BY <1>14, <2>1
<1>16. \A p \in Product : Later(L, m, p) \in Int /\ MadeFor(tx[w].made, p) \in Int
  <2>1. tx[w].made \in [{"on_hand", "reserved"} \X Item -> Int]
    BY <1>1 DEF SessionType
  <2> QED
    BY <1>13, <1>15, <2>1, LaterIsInt, MadeIsInt
<1>17. m = Len(L) - Len(s.lines) /\ L = OrderLines[s.request.order] /\ s.request.order = o
  BY <1>11, <1>12
<1> HIDE DEF o, L, m
<1>18. ASSUME NEW p \in Product
       PROVE  MadeFor(s.made, p) + Pending(s, p) + Short(s, L, m, p) + Later(L, m, p)
                = Requested(o, p)
  <2>1. MadeFor(tx[w].made, p) + Pending(tx[w], p) + Short(tx[w], L, m, p) + Later(L, m, p)
          = Requested(o, p)
    BY <1>14
  <2>2. Pending(tx[w], p) = 0 /\ Short(tx[w], L, m, p) = IF L[m].product = p THEN tx[w].short ELSE 0
    BY <1>2 DEF Pending, Short
  <2>3. Pending(s, p) = IF L[m].product = p THEN take ELSE 0
    BY <1>5, <1>10, <1>12, <1>14 DEF Pending
  <2>4. Short(s, L, m, p) = IF L[m].product = p THEN tx[w].short - take ELSE 0
    BY <1>8, <1>11, <1>12 DEF Short
  <2>5. s.made = tx[w].made
    BY <1>11, <1>12
  <2>6. Later(L, m, p) \in Int /\ MadeFor(tx[w].made, p) \in Int
    BY <1>16
  <2> QED
    BY <1>7, <1>8, <2>1, <2>2, <2>3, <2>4, <2>5, <2>6
<1>19. Reserving(s)
  <2>1. /\ \A n \in 1 .. Len(s.lines) : s.lines[n] = L[m + n]
        /\ \A x \in s.todo : ProductOf[x[1]] = L[m].product
        /\ s.object.call.col = "reserved"
    BY <1>10, <1>11, <1>12, <1>14
  <2>2. \A p \in Product : MadeFor(s.made, p) + Pending(s, p) + Short(s, L, m, p)
                             + Later(L, m, p) = Requested(s.request.order, p)
    BY <1>17, <1>18
  <2> QED
    BY <1>14, <1>17, <2>1, <2>2, ReservingAt
<1>20. Progress(s, order, missed[w])
  BY <1>1, <1>11, <1>12, <1>13, <1>19 DEF Progress
<1> QED
  BY <1>2, <1>12, <1>20, RequestsAfter

\* The calls that are made one after the other, a release first if at all.
LEMMA NextCallRequests ==
  ASSUME Types, RequestsInv, NEW w \in Worker, NextCall(w)
  PROVE  RequestsInv'
<1> DEFINE call == Head(tx[w].calls)
           session == [tx[w] EXCEPT !.calls = Tail(@)]
<1>1. tx[w] \in SessionType /\ Progress(tx[w], order, missed[w])
  BY SessionFacts DEF RequestsInv
<1>2. /\ tx[w].calls # <<>> /\ tx[w].object = NoObject /\ Find(w, call, session)
      /\ UNCHANGED <<database, missed>>
  BY DEF NextCall
<1>3. /\ Active(w) /\ tx[w].request.kind # "approve"
  BY <1>2, Kinds DEF Idle
<1>4. /\ call \in Call /\ Tail(tx[w].calls) \in Seq(Call)
      /\ tx[w].calls \in Seq(Call) /\ Len(tx[w].calls) \in Nat \ {0} /\ call = tx[w].calls[1]
      /\ Len(Tail(tx[w].calls)) = Len(tx[w].calls) - 1
      /\ \A n \in 1 .. Len(tx[w].calls) - 1 : Tail(tx[w].calls)[n] = tx[w].calls[n + 1]
  BY <1>1, <1>2, HeadTailProperties, LenProperties, EmptySeq DEF SessionType
<1>5. /\ session \in SessionType
      /\ session.request = tx[w].request /\ session.lines = tx[w].lines
      /\ session.short = tx[w].short /\ session.calls = Tail(tx[w].calls)
      /\ session.made = tx[w].made /\ session.saw = tx[w].saw
  BY <1>1, <1>4 DEF SessionType
<1>6. OnHandOnly(tx[w].calls) => call.col = "on_hand" /\ OnHandOnly(Tail(tx[w].calls))
  BY <1>4 DEF OnHandOnly
<1> HIDE DEF session
<1>7. PICK s : /\ tx' = [tx EXCEPT ![w] = s] /\ tx'[w] = s
               /\ s.object # NoObject /\ s.object.call = call
               /\ s.request = session.request /\ s.lines = session.lines
               /\ s.todo = session.todo /\ s.short = session.short
               /\ s.calls = session.calls /\ s.made = session.made /\ s.saw = session.saw
  BY <1>2, <1>4, <1>5, FoundSession
<1>8. Quiet(tx[w]) => Quiet(s)
  BY <1>5, <1>6, <1>7 DEF Quiet, CallsOnHand
<1>9. Picking(tx[w]) => Picking(s)
  BY <1>2, <1>5, <1>6, <1>7 DEF Picking, CallsOnHand
<1>10. Progress(s, order, missed[w])
  BY <1>1, <1>3, <1>5, <1>7, <1>8, <1>9 DEF Progress
<1> QED
  BY <1>2, <1>7, <1>10, RequestsAfter

\* The row inserted is for the call that found none.
LEMMA InsertRowRequests ==
  ASSUME Types, RequestsInv, NEW w \in Worker, InsertRow(w)
  PROVE  RequestsInv'
<1> DEFINE call == tx[w].object.call
           writes(r) == [x \in DOMAIN tx[w].writes \cup ({r} \X Col) |->
                           IF x[1] = r THEN 0 ELSE tx[w].writes[x]]
           object(r) == [row |-> r, call |-> call, image |-> Row(0, 0)]
           session(r) == [tx[w] EXCEPT !.object = object(r), !.writes = writes(r)]
<1>1. tx[w] \in SessionType /\ Progress(tx[w], order, missed[w])
  BY SessionFacts DEF RequestsInv
<1>2. Missing(w) /\ UNCHANGED <<database, missed>>
  BY DEF InsertRow
<1>3. PICK c \in Copy : tx' = [tx EXCEPT ![w] = session(<<call.item, c>>)]
  BY DEF InsertRow
<1>4. PICK r : r = <<call.item, c>>
  OBVIOUS
<1> DEFINE s == session(r)
<1>5. tx[w].object # NoObject /\ call.col # "none"
  BY <1>1, <1>2 DEF Missing, SessionType, Call
<1>6. object(r) # NoObject /\ object(r).call = call
  BY <1>5 DEF NoObject, NoCall
<1> HIDE DEF object, writes
<1>7. /\ s.request = tx[w].request /\ s.lines = tx[w].lines /\ s.short = tx[w].short
      /\ s.todo = tx[w].todo /\ s.calls = tx[w].calls /\ s.made = tx[w].made
      /\ s.saw = tx[w].saw /\ s.object = object(r)
  BY <1>1 DEF SessionType
<1>8. tx' = [tx EXCEPT ![w] = s]
  BY <1>3, <1>4
<1> HIDE DEF s, session
<1>9. tx'[w] = s
  BY <1>8 DEF Types
<1>10. s.object # NoObject /\ s.object.call = tx[w].object.call
  BY <1>6, <1>7
<1>11. Quiet(tx[w]) => Quiet(s)
  BY <1>5, <1>7, <1>10 DEF Quiet, CallsOnHand
<1>12. Picking(tx[w]) => Picking(s)
  BY <1>5, <1>7, <1>10 DEF Picking, CallsOnHand
<1>13. Reserving(tx[w]) => Reserving(s)
  BY <1>5, <1>7, <1>10 DEF Reserving, Pending, Short
<1>14. Progress(s, order, missed[w])
  BY <1>1, <1>7, <1>11, <1>12, <1>13 DEF Progress
<1> QED
  BY <1>2, <1>8, <1>9, <1>14, RequestsAfter

\* A call that is flushed is made.
LEMMA UpdateRowRequests ==
  ASSUME Types, RequestsInv, NEW w \in Worker, UpdateRow(w)
  PROVE  RequestsInv'
<1> DEFINE object == tx[w].object
           call == object.call
           cell == <<call.col, call.item>>
           made == [tx[w].made EXCEPT ![cell] = @ + call.qty]
<1>1. tx[w] \in SessionType /\ SoundRows(w) /\ Progress(tx[w], order, missed[w])
  BY SessionFacts DEF RequestsInv
<1>2. Loads(w) /\ UNCHANGED <<database, missed>>
  BY DEF UpdateRow
<1>3. call \in Call /\ object # NoObject
  BY <1>1, <1>2 DEF Loads, SessionType, NoObject
<1>4. call.qty \in Int /\ call.item \in Item /\ call.col \in {"on_hand", "reserved"}
  BY <1>3 DEF Call
<1>5. PICK writes, held :
        tx' = [tx EXCEPT ![w] = [tx[w] EXCEPT !.writes = writes, !.held = held, !.made = made,
                                              !.object = NoObject]]
  BY <1>1 DEF UpdateRow, Types, SessionType
<1> DEFINE s == [tx[w] EXCEPT !.writes = writes, !.held = held, !.made = made,
                              !.object = NoObject]
<1>6. tx[w].made \in [{"on_hand", "reserved"} \X Item -> Int]
  BY <1>1 DEF SessionType
<1>7. \A i \in Item : made[<<"reserved", i>>] = tx[w].made[<<"reserved", i>>]
        + (IF call.col = "reserved" /\ i = call.item THEN call.qty ELSE 0)
  <2> HIDE DEF call
  <2> SUFFICES ASSUME NEW i \in Item
               PROVE  made[<<"reserved", i>>] = tx[w].made[<<"reserved", i>>]
                        + (IF call.col = "reserved" /\ i = call.item THEN call.qty ELSE 0)
    OBVIOUS
  <2>1. CASE call.col = "reserved" /\ i = call.item
    BY <1>4, <1>6, <2>1
  <2>2. CASE ~(call.col = "reserved" /\ i = call.item)
    <3>1. cell # <<"reserved", i>> /\ tx[w].made[<<"reserved", i>>] \in Int
      BY <1>6, <2>2
    <3> QED
      BY <1>6, <2>2, <3>1
  <2> QED
    BY <2>1, <2>2
<1> HIDE DEF made, cell
<1>8. /\ s.request = tx[w].request /\ s.lines = tx[w].lines /\ s.short = tx[w].short
      /\ s.todo = tx[w].todo /\ s.calls = tx[w].calls /\ s.made = made
      /\ s.saw = tx[w].saw /\ s.object = NoObject
  BY <1>1 DEF SessionType
<1>9. tx' = [tx EXCEPT ![w] = s]
  BY <1>5
<1> HIDE DEF s
<1>10. tx'[w] = s
  BY <1>9 DEF Types
<1>11. \A i \in Item : tx[w].made[<<"reserved", i>>] \in Int
  BY <1>6
<1>12. Quiet(tx[w]) => Quiet(s)
  BY <1>3, <1>7, <1>8, <1>11 DEF Quiet, CallsOnHand
<1>13. Picking(tx[w]) => Picking(s)
  <2> SUFFICES ASSUME Picking(tx[w])
               PROVE  Picking(s)
    OBVIOUS
  <2> DEFINE q == tx[w].request
             release == Reserve(q.item, -q.qty)
  <2>1. CASE call = release /\ OnHandOnly(tx[w].calls)
             /\ \A i \in Item : tx[w].made[<<"reserved", i>>] = 0
    <3>1. call.col = "reserved" /\ call.item = q.item /\ call.qty = -q.qty
      BY <2>1 DEF Reserve
    <3>2. \A i \in Item : s.made[<<"reserved", i>>] = IF i = q.item THEN -q.qty ELSE 0
      <4> SUFFICES ASSUME NEW i \in Item
                   PROVE  s.made[<<"reserved", i>>] = IF i = q.item THEN -q.qty ELSE 0
        OBVIOUS
      <4>1. s.made[<<"reserved", i>>] = tx[w].made[<<"reserved", i>>]
              + (IF call.col = "reserved" /\ i = call.item THEN call.qty ELSE 0)
        BY <1>7, <1>8
      <4>2. tx[w].made[<<"reserved", i>>] = 0
        BY <2>1
      <4> HIDE DEF call, q
      <4> QED
        BY <1>4, <3>1, <4>1, <4>2
    <3>3. CallsOnHand(s)
      BY <1>8, <2>1 DEF CallsOnHand
    <3> QED
      BY <1>8, <3>2, <3>3 DEF Picking
  <2>2. CASE CallsOnHand(tx[w]) /\ \A i \in Item :
               tx[w].made[<<"reserved", i>>] = IF i = q.item THEN -q.qty ELSE 0
    <3>1. call.col = "on_hand" /\ CallsOnHand(s)
      BY <1>3, <1>8, <2>2 DEF CallsOnHand
    <3>2. \A i \in Item : s.made[<<"reserved", i>>] = tx[w].made[<<"reserved", i>>]
      <4> SUFFICES ASSUME NEW i \in Item
                   PROVE  s.made[<<"reserved", i>>] = tx[w].made[<<"reserved", i>>]
        OBVIOUS
      <4>1. s.made[<<"reserved", i>>] = tx[w].made[<<"reserved", i>>]
              + (IF call.col = "reserved" /\ i = call.item THEN call.qty ELSE 0)
        BY <1>7, <1>8
      <4>2. tx[w].made[<<"reserved", i>>] \in Int
        BY <1>11
      <4> HIDE DEF call
      <4> QED
        BY <3>1, <4>1, <4>2
    <3> QED
      BY <1>8, <2>2, <3>1, <3>2 DEF Picking
  <2> QED
    BY <1>3, <2>1, <2>2 DEF Picking
<1>14. Reserving(tx[w]) /\ tx[w].request.kind = "approve" => Reserving(s)
  <2> SUFFICES ASSUME Reserving(tx[w]), tx[w].request.kind = "approve"
               PROVE  Reserving(s)
    OBVIOUS
  <2> DEFINE o == tx[w].request.order
             L == OrderLines[o]
             m == Len(L) - Len(tx[w].lines)
  <2>1. /\ m >= 0 /\ \A n \in 1 .. Len(tx[w].lines) : tx[w].lines[n] = L[m + n]
        /\ tx[w].short > 0 => m > 0 /\ \A r \in tx[w].todo : ProductOf[r[1]] = L[m].product
        /\ call.col = "reserved"
        /\ \A p \in Product : MadeFor(tx[w].made, p) + Pending(tx[w], p) + Short(tx[w], L, m, p)
                               + Later(L, m, p) = Requested(o, p)
    BY <1>3 DEF Reserving
  <2>2. m = Len(L) - Len(s.lines) /\ L = OrderLines[s.request.order] /\ s.request.order = o
    BY <1>8
  <2> HIDE DEF o, L, m
  <2>3. ASSUME NEW p \in Product
        PROVE  MadeFor(s.made, p) + Pending(s, p) = MadeFor(tx[w].made, p) + Pending(tx[w], p)
    <3> DEFINE f == [i \in Item |-> tx[w].made[<<"reserved", i>>]]
               g == [i \in Item |-> made[<<"reserved", i>>]]
    <3>1. MadeFor(tx[w].made, p) = OrderTotal(f, p) /\ MadeFor(s.made, p) = OrderTotal(g, p)
      BY <1>8 DEF MadeFor
    <3>2. \A i \in Item : f[i] \in Int
      BY <1>11
    <3>3. \A i \in Item : g[i] = IF i = call.item THEN f[i] + call.qty ELSE f[i]
      <4> SUFFICES ASSUME NEW i \in Item
                   PROVE  g[i] = IF i = call.item THEN f[i] + call.qty ELSE f[i]
        OBVIOUS
      <4>1. g[i] = f[i] + (IF i = call.item THEN call.qty ELSE 0)
        BY <1>7, <2>1
      <4> HIDE DEF call, f, g
      <4> QED
        BY <3>2, <4>1
    <3>4. Pending(s, p) = 0 /\ Pending(tx[w], p) = IF ProductOf[call.item] = p THEN call.qty ELSE 0
      BY <1>3, <1>8 DEF Pending
    <3> HIDE DEF f, g
    <3>5. PICK x \in Item, d \in Int : x = call.item /\ d = call.qty
      BY <1>4
    <3> HIDE DEF call
    <3>6. \A i \in Item : g[i] = IF i = x THEN f[i] + d ELSE f[i]
      BY <3>3, <3>5
    <3>7. OrderTotal(g, p) = OrderTotal(f, p) + (IF ProductOf[x] = p THEN d ELSE 0)
      BY <3>2, <3>6, TotalChange
    <3>8. OrderTotal(f, p) \in Int
      BY <3>2, TotalInt
    <3> QED
      BY <3>1, <3>4, <3>5, <3>7, <3>8
  <2>4. \A p \in Product : MadeFor(s.made, p) + Pending(s, p) + Short(s, L, m, p)
                             + Later(L, m, p) = Requested(s.request.order, p)
    BY <1>8, <2>1, <2>2, <2>3 DEF Short
  <2>5. /\ \A n \in 1 .. Len(s.lines) : s.lines[n] = L[m + n]
        /\ s.short > 0 => m > 0 /\ \A r \in s.todo : ProductOf[r[1]] = L[m].product
        /\ s.object # NoObject => s.object.call.col = "reserved"
    BY <1>8, <2>1
  <2>6. m >= 0
    BY <2>1
  <2>7. PICK k, K : k = m /\ K = L
    OBVIOUS
  <2>8. K = OrderLines[s.request.order] /\ k = Len(K) - Len(s.lines) /\ k >= 0
    BY <2>2, <2>6, <2>7
  <2>9. /\ \A n \in 1 .. Len(s.lines) : s.lines[n] = K[k + n]
        /\ s.short > 0 => k > 0 /\ \A r \in s.todo : ProductOf[r[1]] = K[k].product
        /\ s.object # NoObject => s.object.call.col = "reserved"
    BY <2>5, <2>7
  <2>10. \A p \in Product : MadeFor(s.made, p) + Pending(s, p) + Short(s, K, k, p)
                             + Later(K, k, p) = Requested(s.request.order, p)
    BY <2>4, <2>7
  <2> QED
    BY <2>8, <2>9, <2>10 DEF Reserving
<1>15. Progress(s, order, missed[w])
  BY <1>1, <1>8, <1>12, <1>13, <1>14 DEF Progress
<1> QED
  BY <1>2, <1>9, <1>10, <1>15, RequestsAfter

LEMMA IdleProgress ==
  ASSUME NEW ord, NEW miss
  PROVE  Progress(Idle, ord, miss)
BY IdleIsSession DEF Progress, NoRequest

LEMMA RollbackRequests ==
  ASSUME Types, RequestsInv, NEW w \in Worker, Rollback(w)
  PROVE  RequestsInv'
<1>1. /\ tx' = [tx EXCEPT ![w] = Idle] /\ missed' = [missed EXCEPT ![w] = {}] /\ order' = order
  BY DEF Rollback, database, Closed
<1>2. ASSUME NEW v \in Worker
      PROVE  Progress(tx'[v], order', missed'[v])
  <2>1. CASE v = w
    BY <1>1, <2>1, IdleProgress DEF Types
  <2>2. CASE v # w
    <3>1. tx'[v] = tx[v] /\ missed'[v] = missed[v]
      BY <1>1, <2>2 DEF Types
    <3> QED
      BY <1>1, <3>1 DEF RequestsInv
  <2> QED
    BY <2>1, <2>2
<1> QED
  BY <1>2 DEF RequestsInv

\* What others commit a request misses, or it was none of its business.
LEMMA CommitRequests ==
  ASSUME Types, RequestsInv, NEW w \in Worker, WritesWhatItMade(w), Commit(w)
  PROVE  RequestsInv'
<1>1. /\ order' = [o \in Order |-> IF o \in Touched(w) THEN OrderAfter(w) ELSE order[o]]
      /\ missed' = [v \in Worker |-> IF v = w THEN {}
                                 ELSE IF Active(v) THEN missed[v] \cup Touched(w) ELSE {}]
      /\ tx' = [tx EXCEPT ![w] = Idle]
  BY DEF Commit, Closed
<1>2. ASSUME NEW v \in Worker
      PROVE  Progress(tx'[v], order', missed'[v])
  <2>1. CASE v = w \/ ~Active(v)
    <3>1. tx'[v] = Idle
      BY <1>1, <2>1, Kinds DEF Types
    <3> QED
      BY <3>1, IdleProgress
  <2>2. CASE v # w /\ Active(v)
    <3> DEFINE q == tx[v].request
    <3>1. tx'[v] = tx[v] /\ missed'[v] = missed[v] \cup Touched(w)
      BY <1>1, <2>2 DEF Types
    <3>2. Progress(tx[v], order, missed[v])
      BY DEF RequestsInv
    <3>3. q.kind \in {"approve", "generate", "pick"} /\ q.order \notin Touched(w) =>
            order'[q.order] = order[q.order]
      BY <1>1, TouchedOrder
    <3>4. q.kind = "pick" /\ q.item \notin Touched(w) =>
            order'[q.order].reserved[q.item] = order[q.order].reserved[q.item]
      <4> SUFFICES ASSUME q.kind = "pick", q.item \notin Touched(w)
                   PROVE  order'[q.order].reserved[q.item] = order[q.order].reserved[q.item]
        OBVIOUS
      <4>1. PICK o \in Order, i \in Item : o = q.order /\ i = q.item
        BY TouchedOrder
      <4>2. order'[o].reserved[i] = order[o].reserved[i]
        BY <4>1, CommitReserves
      <4> QED
        BY <4>1, <4>2
    <3> HIDE DEF q
    <3>5. Progress(tx[v], order', missed[v] \cup Touched(w))
      BY <3>2, <3>3, <3>4 DEF Progress, q
    <3> QED
      BY <3>1, <3>5
  <2> QED
    BY <2>1, <2>2
<1> QED
  BY <1>2 DEF RequestsInv

LEMMA InitRequests ==
  ASSUME Init
  PROVE  RequestsInv
BY IdleProgress DEF Init, RequestsInv

LEMMA NextRequests ==
  ASSUME Types, RequestsInv, RowsInv, [Next]_vars
  PROVE  RequestsInv'
<1>1. CASE UNCHANGED vars
  BY <1>1 DEF vars, database, RequestsInv
<1>2. ASSUME NEW w \in Worker, Begin(w) \/ Proceed(w) \/ Crash(w)
      PROVE  RequestsInv'
  <2>1. WritesWhatItMade(w)
    BY DEF RowsInv
  <2> QED
    BY <1>2, <2>1, BeginRequests, ReadCandidatesRequests, NextReserveRequests, NextCallRequests,
       InsertRowRequests, UpdateRowRequests, CommitRequests, RollbackRequests
       DEF Proceed, Fail, Crash
<1>3. CASE CancelDeadlock
  BY <1>3, RollbackRequests DEF CancelDeadlock
<1> QED
  BY <1>1, <1>2, <1>3 DEF Next

\* The balance row of an item and the ledger part only when two requests that
\* overlap both commit a change of the item: two that read the same row and
\* write back what they computed from it (add_ledger_and_apply_on_hand,
\* adjust_reserved), or that both insert a row.
THEOREM OnlyOverlapBreaksTheBooks == Spec => []BooksWrongOnlyByOverlap
<1>1. Init => Types /\ RequestsInv /\ RowsInv
  BY InitTypes, InitRequests, InitRows
<1>2. Types /\ RequestsInv /\ RowsInv /\ [Next]_vars => Types' /\ RequestsInv' /\ RowsInv'
  BY NextTypes, NextRequests, NextRows
<1>3. RowsInv => BooksWrongOnlyByOverlap
  BY DEF RowsInv, BooksWrongOnlyByOverlap
<1> QED
  BY <1>1, <1>2, <1>3, PTL DEF Spec

-----------------------------------------------------------------------------
(* The orders *)

PickedOf(q, p) ==
  IF q.tasks = <<>> THEN 0 ELSE OrderTotal([i \in Item |-> q.tasks[1][i].picked], p)

\* Order o in state q agrees with its lines, and holds nothing before approval.
OrderSound(o, q) ==
  /\ Len(q.tasks) <= 1
  /\ \A t \in 1 .. Len(q.tasks), i \in Item :
       q.tasks[t][i].to_pick - q.tasks[t][i].picked = q.reserved[i]
  /\ \A p \in Product : OrderTotal(q.reserved, p) + PickedOf(q, p)
                          = IF q.status = "SUBMITTED" THEN 0 ELSE Requested(o, p)
  /\ q.status = "SUBMITTED" => q.tasks = <<>> /\ \A i \in Item : q.reserved[i] = 0

OrdersInv == \A o \in Order \ raced : OrderSound(o, order[o])

LEMMA OrderTypeFacts ==
  ASSUME NEW q \in OrderType
  PROVE  /\ q.reserved \in [Item -> Nat] /\ \A i \in Item : q.reserved[i] \in Nat
         /\ q.tasks \in Seq([Item -> [to_pick : Nat, picked : Nat]])
         /\ Len(q.tasks) \in Nat /\ DOMAIN q.tasks = 1 .. Len(q.tasks)
         /\ (q.tasks = <<>> <=> Len(q.tasks) = 0)
         /\ \A t \in 1 .. Len(q.tasks), i \in Item :
              q.tasks[t][i].to_pick \in Nat /\ q.tasks[t][i].picked \in Nat
<1>1. /\ q.reserved \in [Item -> Nat]
      /\ q.tasks \in Seq([Item -> [to_pick : Nat, picked : Nat]])
  BY DEF OrderType
<1>2. \A t \in 1 .. Len(q.tasks) : q.tasks[t] \in [Item -> [to_pick : Nat, picked : Nat]]
  BY <1>1, ElementOfSeq
<1>3. q.tasks = <<>> <=> Len(q.tasks) = 0
  BY <1>1, EmptySeq
<1> QED
  BY <1>1, <1>2, <1>3, LenProperties

\* An approval that reserved every line makes the order hold what it asks for.
LEMMA ApprovedSound ==
  ASSUME Types, RequestsInv, OrdersInv, NEW w \in Worker, Finished(w),
         tx[w].request.kind = "approve",
         NEW o \in Order \ raced, o \in Touched(w), o \notin missed[w]
  PROVE  OrderSound(o, OrderAfter(w))
<1> DEFINE now == order[o]
           new == OrderAfter(w)
           made == tx[w].made
           L == OrderLines[o]
<1>1. /\ tx[w] \in SessionType /\ Progress(tx[w], order, missed[w]) /\ tx[w].request.order = o
      /\ now \in OrderType /\ new \in OrderType /\ OrderSound(o, now)
  BY SessionFacts, TouchedOrder, OrderAfterType DEF RequestsInv, Types, OrdersInv
<1>2. now.status = "SUBMITTED" /\ Reserving(tx[w])
  BY <1>1 DEF Progress
<1>3. now.tasks = <<>> /\ \A i \in Item : now.reserved[i] = 0
  BY <1>1, <1>2 DEF OrderSound
<1>4. /\ new.status = "APPROVED" /\ new.tasks = now.tasks
      /\ \A i \in Item : new.reserved[i] = now.reserved[i] + made[<<"reserved", i>>]
  BY ApprovedOrder
<1>5. made \in [{"on_hand", "reserved"} \X Item -> Int]
  BY <1>1 DEF SessionType
<1>6. tx[w].lines = <<>> /\ tx[w].short = 0 /\ tx[w].object = NoObject
  BY DEF Finished
<1>7. ASSUME NEW p \in Product
      PROVE  OrderTotal(new.reserved, p) = Requested(o, p)
  <2>1. Len(tx[w].lines) = 0 /\ Len(L) \in Nat
    BY <1>6, LinesFacts
  <2>2. MadeFor(made, p) + Pending(tx[w], p) + Short(tx[w], L, Len(L), p) + Later(L, Len(L), p)
          = Requested(o, p)
    BY <1>1, <1>2, <2>1 DEF Reserving
  <2>3. Pending(tx[w], p) = 0 /\ Short(tx[w], L, Len(L), p) = 0 /\ Later(L, Len(L), p) = 0
    BY <1>6, LaterAll DEF Pending, Short
  <2>4. MadeFor(made, p) \in Int
    BY <1>5, MadeIsInt
  <2> DEFINE f == [i \in Item |-> made[<<"reserved", i>>]]
             g == new.reserved
  <2>5. ASSUME NEW i \in Item
        PROVE  f[i] = g[i]
    <3>1. now.reserved[i] = 0 /\ made[<<"reserved", i>>] \in Int
      BY <1>3, <1>5
    <3>2. g[i] = now.reserved[i] + made[<<"reserved", i>>]
      BY <1>4
    <3> HIDE DEF now, made, g
    <3> QED
      BY <3>1, <3>2
  <2>6. MadeFor(made, p) = OrderTotal(f, p)
    BY DEF MadeFor
  <2> HIDE DEF f, g
  <2>7. OrderTotal(f, p) = OrderTotal(g, p)
    BY <2>5, TotalAgree
  <2>8. OrderTotal(g, p) = Requested(o, p)
    <3> HIDE DEF made, L
    <3> QED
      BY <2>2, <2>3, <2>4, <2>6, <2>7
  <2> QED
    BY <2>8 DEF g
<1>8. \A p \in Product : OrderTotal(new.reserved, p) \in Int /\ PickedOf(new, p) = 0
  BY <1>1, <1>3, <1>4, OrderTypeFacts, TotalInt DEF PickedOf
<1>9. Len(new.tasks) = 0
  BY <1>1, <1>3, <1>4, OrderTypeFacts
<1> HIDE DEF new
<1>10. OrderSound(o, new)
  BY <1>4, <1>7, <1>8, <1>9 DEF OrderSound
<1> QED
  BY <1>10 DEF new

\* The task a generation adds is to pick what the order holds.
LEMMA GeneratedSound ==
  ASSUME Types, RequestsInv, OrdersInv, NEW w \in Worker,
         tx[w].request.kind = "generate",
         NEW o \in Order \ raced, o \in Touched(w), o \notin missed[w]
  PROVE  OrderSound(o, OrderAfter(w))
<1> DEFINE now == order[o]
           new == OrderAfter(w)
           task == [i \in Item |-> [to_pick |-> now.reserved[i], picked |-> 0]]
<1>1. /\ Progress(tx[w], order, missed[w]) /\ tx[w].request.order = o
      /\ now \in OrderType /\ new \in OrderType /\ OrderSound(o, now)
  BY TouchedOrder, OrderAfterType DEF RequestsInv, Types, OrdersInv
<1>2. now = tx[w].saw /\ now.status = "APPROVED" /\ now.tasks = <<>>
  BY <1>1 DEF Progress
<1>3. new.status = "PICKING" /\ new.reserved = now.reserved /\ new.tasks = Append(<<>>, task)
  BY <1>2, GeneratedOrder
<1>4. Append(<<>>, task) = <<task>> /\ Len(<<task>>) = 1 /\ <<task>>[1] = task /\ <<task>> # <<>>
  OBVIOUS
<1>5. \A i \in Item : task[i].to_pick = now.reserved[i] /\ task[i].picked = 0
                      /\ now.reserved[i] \in Nat
  BY <1>1, OrderTypeFacts
<1> HIDE DEF task
<1>6. Len(new.tasks) = 1 /\ new.tasks[1] = task /\ new.tasks # <<>>
  BY <1>3, <1>4
<1>7. ASSUME NEW p \in Product
      PROVE  OrderTotal(new.reserved, p) + PickedOf(new, p) = Requested(o, p)
  <2> DEFINE f == [i \in Item |-> new.tasks[1][i].picked]
  <2>1. \A i \in Item : f[i] = 0
    BY <1>5, <1>6
  <2>2. PickedOf(new, p) = OrderTotal(f, p)
    BY <1>6 DEF PickedOf
  <2> HIDE DEF f
  <2>3. PickedOf(new, p) = 0
    BY <2>1, <2>2, TotalZero
  <2>4. OrderTotal(now.reserved, p) + PickedOf(now, p) = Requested(o, p) /\ PickedOf(now, p) = 0
    BY <1>1, <1>2 DEF OrderSound, PickedOf
  <2> QED
    BY <1>3, <2>3, <2>4
<1> HIDE DEF new
<1>8. \A t \in 1 .. Len(new.tasks), i \in Item :
        new.tasks[t][i].to_pick - new.tasks[t][i].picked = new.reserved[i]
  <2> SUFFICES ASSUME NEW t \in 1 .. Len(new.tasks), NEW i \in Item
               PROVE  new.tasks[t][i].to_pick - new.tasks[t][i].picked = new.reserved[i]
    OBVIOUS
  <2>1. t = 1
    BY <1>6
  <2> HIDE DEF now
  <2> QED
    BY <1>3, <1>5, <1>6, <2>1
<1>9. OrderSound(o, new)
  BY <1>3, <1>6, <1>7, <1>8 DEF OrderSound
<1> QED
  BY <1>9 DEF new

\* A pick moves a quantity from what the order holds to what its task has picked.
LEMMA PickedSound ==
  ASSUME Types, RequestsInv, OrdersInv, NEW w \in Worker,
         tx[w].request.kind = "pick",
         NEW o \in Order \ raced, o \in Touched(w), o \notin missed[w]
  PROVE  OrderSound(o, OrderAfter(w))
<1> DEFINE now == order[o]
           new == OrderAfter(w)
           q == tx[w].request
<1>1. /\ Progress(tx[w], order, missed[w]) /\ q.order = o /\ SoundRequest(w)
      /\ now \in OrderType /\ new \in OrderType /\ OrderSound(o, now)
  BY SessionFacts, TouchedOrder, OrderAfterType DEF RequestsInv, Types, OrdersInv
<1>2. now = tx[w].saw
  BY <1>1 DEF Progress
<1>3. q.task \in DOMAIN now.tasks
  BY <1>1, <1>2 DEF SoundRequest
<1>4. Len(now.tasks) = 1 /\ q.task = 1 /\ now.tasks # <<>> /\ now.status # "SUBMITTED"
  <2>1. /\ Len(now.tasks) \in Nat /\ DOMAIN now.tasks = 1 .. Len(now.tasks)
        /\ (now.tasks = <<>> <=> Len(now.tasks) = 0)
    BY <1>1, OrderTypeFacts
  <2>2. Len(now.tasks) <= 1 /\ (now.status = "SUBMITTED" => now.tasks = <<>>)
    BY <1>1 DEF OrderSound
  <2> HIDE DEF now, q
  <2>3. Len(now.tasks) = 1 /\ q.task = 1
    <3>1. PICK n \in Nat : n = Len(now.tasks)
      BY <2>1
    <3>2. n <= 1 /\ q.task \in 1 .. n
      BY <1>3, <2>1, <2>2, <3>1
    <3>3. n = 1 /\ q.task = 1
      BY <3>2
    <3> QED
      BY <3>1, <3>3
  <2> QED
    BY <2>1, <2>2, <2>3
<1>5. PICK x \in Item, d \in Int : x = q.item /\ d = q.qty
  BY TouchedOrder
<1>6. /\ new.status = now.status /\ Len(new.tasks) = 1
      /\ \A i \in Item : new.reserved[i] = IF i = x THEN now.reserved[i] - d ELSE now.reserved[i]
      /\ \A i \in Item :
           /\ new.tasks[1][i].to_pick = now.tasks[1][i].to_pick
           /\ new.tasks[1][i].picked =
                IF i = x THEN now.tasks[1][i].picked + d ELSE now.tasks[1][i].picked
  BY <1>2, <1>4, <1>5, PickedOrder
<1>7. \A i \in Item : /\ now.reserved[i] \in Int
                      /\ now.tasks[1][i].to_pick \in Int /\ now.tasks[1][i].picked \in Int
                      /\ now.tasks[1][i].to_pick - now.tasks[1][i].picked = now.reserved[i]
  BY <1>1, <1>4, OrderTypeFacts DEF OrderSound
<1>8. new.tasks # <<>>
  BY <1>1, <1>6, OrderTypeFacts
<1>9. \A p \in Product : OrderTotal(now.reserved, p) + PickedOf(now, p) = Requested(o, p)
  BY <1>1, <1>4 DEF OrderSound
<1> HIDE DEF now, new, q
<1>10. ASSUME NEW p \in Product
       PROVE  OrderTotal(new.reserved, p) + PickedOf(new, p) = Requested(o, p)
  <2> DEFINE f == [i \in Item |-> now.tasks[1][i].picked]
             g == [i \in Item |-> new.tasks[1][i].picked]
  <2>1. PickedOf(now, p) = OrderTotal(f, p) /\ PickedOf(new, p) = OrderTotal(g, p)
    BY <1>4, <1>8 DEF PickedOf
  <2>2. (\A i \in Item : f[i] \in Int) /\ \A i \in Item : g[i] = IF i = x THEN f[i] + d ELSE f[i]
    BY <1>6, <1>7
  <2> HIDE DEF f, g
  <2>3. OrderTotal(g, p) = OrderTotal(f, p) + (IF ProductOf[x] = p THEN d ELSE 0)
    BY <2>2, TotalChange
  <2> DEFINE r == now.reserved
             s == new.reserved
  <2>4. PICK e \in Int : e = -d
    OBVIOUS
  <2>5. /\ \A i \in Item : r[i] \in Int
        /\ \A i \in Item : s[i] = IF i = x THEN r[i] + e ELSE r[i]
    BY <1>6, <1>7, <2>4
  <2> HIDE DEF r, s
  <2>6. OrderTotal(s, p) = OrderTotal(r, p) + (IF ProductOf[x] = p THEN e ELSE 0)
    BY <2>5, TotalChange
  <2>7. OrderTotal(f, p) \in Int /\ OrderTotal(r, p) \in Int
    BY <2>2, <2>5, TotalInt
  <2>8. OrderTotal(r, p) + OrderTotal(f, p) = Requested(o, p)
    BY <1>9, <2>1 DEF r
  <2>9. OrderTotal(s, p) + OrderTotal(g, p) = Requested(o, p)
    BY <2>3, <2>6, <2>7, <2>8, <2>4
  <2> QED
    BY <2>1, <2>9 DEF s
<1>11. \A t \in 1 .. Len(new.tasks), i \in Item :
         new.tasks[t][i].to_pick - new.tasks[t][i].picked = new.reserved[i]
  <2> SUFFICES ASSUME NEW t \in 1 .. Len(new.tasks), NEW i \in Item
               PROVE  new.tasks[t][i].to_pick - new.tasks[t][i].picked = new.reserved[i]
    OBVIOUS
  <2>1. t = 1
    BY <1>6
  <2> QED
    BY <1>6, <1>7, <2>1
<1>12. OrderSound(o, new)
  BY <1>4, <1>6, <1>10, <1>11 DEF OrderSound
<1> QED
  BY <1>12 DEF new

LEMMA CommitOrders ==
  ASSUME Types, RequestsInv, OrdersInv, NEW w \in Worker, Commit(w)
  PROVE  OrdersInv'
<1>1. /\ order' = [o \in Order |-> IF o \in Touched(w) THEN OrderAfter(w) ELSE order[o]]
      /\ raced' = raced \cup (Touched(w) \cap missed[w]) /\ Finished(w)
  BY DEF Commit
<1>2. ASSUME NEW o \in Order \ raced'
      PROVE  OrderSound(o, order'[o])
  <2>1. o \in Order \ raced /\ (o \in Touched(w) => o \notin missed[w])
    BY <1>1
  <2>2. CASE o \in Touched(w)
    <3>1. order'[o] = OrderAfter(w) /\ tx[w].request.kind \in {"approve", "generate", "pick"}
      BY <1>1, <2>2, TouchedOrder
    <3> QED
      BY <1>1, <2>1, <2>2, <3>1, ApprovedSound, GeneratedSound, PickedSound
  <2>3. CASE o \notin Touched(w)
    <3>1. order'[o] = order[o]
      BY <1>1, <2>3
    <3> QED
      BY <2>1, <3>1 DEF OrdersInv
  <2> QED
    BY <2>2, <2>3
<1> QED
  BY <1>2 DEF OrdersInv

LEMMA InitOrders ==
  ASSUME Init
  PROVE  OrdersInv
<1> SUFFICES ASSUME NEW o \in Order
             PROVE  OrderSound(o, order[o])
  BY DEF OrdersInv
<1> DEFINE q == order[o]
<1>1. /\ q.status = IF \E i \in Item : OpeningOrder[o][i] > 0 THEN "APPROVED" ELSE "SUBMITTED"
      /\ q.reserved = OpeningOrder[o] /\ q.tasks = <<>>
  BY DEF Init
<1>2. \A i \in Item : OpeningOrder[o][i] \in Nat
  BY TransactionsAssumption
<1> HIDE DEF q
<1>3. \A p \in Product : PickedOf(q, p) = 0 /\ OrderTotal(q.reserved, p) \in Int
  BY <1>1, <1>2, TotalInt DEF PickedOf
<1>4. q.status = "SUBMITTED" => \A i \in Item : q.reserved[i] = 0
  BY <1>1, <1>2
<1>5. ASSUME NEW p \in Product
      PROVE  OrderTotal(q.reserved, p) = IF q.status = "SUBMITTED" THEN 0 ELSE Requested(o, p)
  <2>1. CASE q.status = "SUBMITTED"
    BY <1>4, <2>1, TotalZero
  <2>2. CASE q.status # "SUBMITTED"
    <3>1. \E i \in Item : OpeningOrder[o][i] > 0
      BY <1>1, <2>2
    <3>2. ~ \A i \in Item : OpeningOrder[o][i] = 0
      BY <3>1
    <3>3. OrderTotal(OpeningOrder[o], p) = Requested(o, p)
      BY <3>2, OpeningOrdersAssumption DEF Product
    <3> QED
      BY <1>1, <2>2, <3>3
  <2> QED
    BY <2>1, <2>2
<1>6. OrderSound(o, q)
  <2>1. Len(q.tasks) = 0
    BY <1>1
  <2> QED
    BY <1>1, <1>3, <1>4, <1>5, <2>1 DEF OrderSound
<1> QED
  BY <1>6 DEF q

LEMMA NextOrders ==
  ASSUME Types, RequestsInv, OrdersInv, [Next]_vars
  PROVE  OrdersInv'
<1>1. CASE order' = order /\ raced' = raced
  BY <1>1 DEF OrdersInv
<1>2. CASE \E w \in Worker : Commit(w)
  BY <1>2, CommitOrders
<1>3. ASSUME NEW w \in Worker, Rollback(w)
      PROVE  order' = order /\ raced' = raced
  BY <1>3 DEF Rollback, database
<1>4. ASSUME NEW w \in Worker, Begin(w)
      PROVE  order' = order /\ raced' = raced
  BY <1>4 DEF Begin, BeginApprove, BeginGenerate, BeginPick, BeginReceive, BeginTransfer, Start,
              database
<1>5. ASSUME NEW w \in Worker,
             \/ ReadCandidates(w) \/ NextReserve(w) \/ NextCall(w) \/ InsertRow(w) \/ UpdateRow(w)
      PROVE  order' = order /\ raced' = raced
  BY <1>5 DEF ReadCandidates, NextReserve, NextCall, InsertRow, UpdateRow, database
<1>6. CASE UNCHANGED vars
  BY <1>1, <1>6 DEF vars, database
<1> QED
  BY <1>1, <1>2, <1>3, <1>4, <1>5, <1>6 DEF Next, Proceed, Fail, Crash, CancelDeadlock

LEMMA SoundAgrees ==
  ASSUME Types, NEW o \in Order, OrderSound(o, order[o])
  PROVE  OrderAgrees(o)
<1>1. order[o] \in OrderType
  BY DEF Types
<1>2. DOMAIN order[o].tasks = 1 .. Len(order[o].tasks)
  BY <1>1, OrderTypeFacts
<1> QED
  BY <1>2 DEF OrderSound, OrderAgrees, PickedOf, Product

\* An order holds and is picked exactly what it asks for, and what a balance
\* row reserves is what the orders hold, as long as no two requests that
\* overlap both commit a change of the order, or of the item: approve_outbound
\* twice, scan_pick of one task line twice, reserve_for_outbound_line and
\* scan_pick at one row.
THEOREM OnlyOverlapBreaksTheOrders == Spec => []OrdersWrongOnlyByOverlap
<1>1. Init => Types /\ RequestsInv /\ RowsInv /\ OrdersInv
  BY InitTypes, InitRequests, InitRows, InitOrders
<1>2. Types /\ RequestsInv /\ RowsInv /\ OrdersInv /\ [Next]_vars
        => Types' /\ RequestsInv' /\ RowsInv' /\ OrdersInv'
  BY NextTypes, NextRequests, NextRows, NextOrders
<1>3. Types /\ RowsInv /\ OrdersInv => OrdersWrongOnlyByOverlap
  BY SoundAgrees DEF RowsInv, OrdersInv, OrdersWrongOnlyByOverlap
<1> QED
  BY <1>1, <1>2, <1>3, PTL DEF Spec
=============================================================================
