----------------------------- MODULE BillingProofs -----------------------------
(***************************************************************************)
(* What interleaved invoice requests may do to the events and to the       *)
(* amounts of invoices, for any number of requests, invoices, days and     *)
(* documents.                                                              *)
(*                                                                         *)
(* BilledAgainOnlyByOverlap is not inductive: it needs that an event, once *)
(* billed, is linked to the invoice that bills it or to a later one        *)
(* (BilledIsLinked), and that what a request has read is disjoint from     *)
(* every invoice committed before (ReadsAreNew).  The amounts need that an *)
(* invoice is backed by the events it bills (Backed), that what a request  *)
(* still holds is of its period, and that there are only finitely many     *)
(* events, so that they have a sum (AmountsInv).                           *)
(***************************************************************************)
EXTENDS Billing, SumProofs, SequenceTheorems, TLAPS

\* A sequence of records with at least these fields.
Ledgered(s) ==
  /\ \E S : s \in Seq(S)
  /\ \A i \in 1 .. Len(s) : {"billed", "after", "status"} \subseteq DOMAIN s[i]

TablesOK ==
  /\ today \in Day
  /\ \A pl \in lists : pl \in [from : Day, rate : Rates]
  /\ DOMAIN event \subseteq EventKey
  /\ event = [k \in DOMAIN event |-> event[k]]
  /\ \A k \in DOMAIN event : event[k] \in Event /\ event[k].invoice <= Len(invoices)
  /\ Ledgered(invoices)
  /\ Len(invoices) <= MaxInvoices
  /\ session \in [Worker -> Request]
  /\ \A w \in Worker : session[w].doing = "assign" => session[w].id \in 1 .. Len(invoices)

BilledIsLinked ==
  \A i \in 1 .. Len(invoices) : \A k \in invoices[i].billed :
    k \in DOMAIN event /\ event[k].invoice >= i

ReadsAreNew ==
  \A w \in Worker : session[w].doing = "generate" =>
    /\ session[w].keys \subseteq DOMAIN event
    /\ session[w].after <= Len(invoices)
    /\ \A i \in 1 .. session[w].after : invoices[i].billed \cap session[w].keys = {}

OverlapOnly ==
  \A i, j \in 1 .. Len(invoices) :
    i < j /\ invoices[j].after >= i => invoices[i].billed \cap invoices[j].billed = {}

BillingInv == TablesOK /\ BilledIsLinked /\ ReadsAreNew /\ OverlapOnly

-----------------------------------------------------------------------------
(* Sequences of invoices *)

LEMMA LedgeredLen ==
  ASSUME NEW s, Ledgered(s)
  PROVE  Len(s) \in Nat /\ DOMAIN s = 1 .. Len(s)
BY LenProperties DEF Ledgered

LEMMA AppendLedgered ==
  ASSUME NEW s, Ledgered(s), NEW e, {"billed", "after", "status"} \subseteq DOMAIN e
  PROVE  /\ Ledgered(Append(s, e))
         /\ Len(Append(s, e)) = Len(s) + 1
         /\ Append(s, e)[Len(s) + 1] = e
         /\ \A i \in 1 .. Len(s) : Append(s, e)[i] = s[i]
<1>1. PICK S : s \in Seq(S)
  BY DEF Ledgered
<1> DEFINE T == S \cup {e}
<1>2. s \in Seq(T) /\ e \in T
  BY <1>1, SeqMonotonic
<1> HIDE DEF T
<1>3. /\ Append(s, e) \in Seq(T)
      /\ Len(Append(s, e)) = Len(s) + 1
      /\ \A i \in 1 .. Len(s) : Append(s, e)[i] = s[i]
      /\ Append(s, e)[Len(s) + 1] = e
  BY <1>2, AppendProperties
<1>4. Len(s) \in Nat
  BY LedgeredLen
<1> QED BY <1>3, <1>4 DEF Ledgered

LEMMA StatusLedgered ==
  ASSUME NEW s, Ledgered(s), NEW id \in 1 .. Len(s), NEW value
  PROVE  LET t == [s EXCEPT ![id].status = value]
         IN  /\ Ledgered(t)
             /\ Len(t) = Len(s)
             /\ \A i \in 1 .. Len(s) : t[i].billed = s[i].billed /\ t[i].after = s[i].after
<1> DEFINE e == [s[id] EXCEPT !.status = value]
           t == [s EXCEPT ![id] = e]
<1>1. PICK S : s \in Seq(S)
  BY DEF Ledgered
<1>2. s \in Seq(S \cup {e}) /\ e \in S \cup {e}
  BY <1>1, SeqMonotonic
<1>3. /\ DOMAIN e = DOMAIN s[id]
      /\ e.billed = s[id].billed /\ e.after = s[id].after
  BY DEF Ledgered
<1> HIDE DEF e
<1>4. /\ t \in Seq(S \cup {e})
      /\ Len(t) = Len(s)
      /\ \A j \in 1 .. Len(s) : t[j] = IF j = id THEN e ELSE s[j]
  BY <1>2, ExceptSeq
<1>5. Ledgered(t)
  BY <1>3, <1>4 DEF Ledgered
<1>6. \A i \in 1 .. Len(s) : t[i].billed = s[i].billed /\ t[i].after = s[i].after
  BY <1>3, <1>4
<1> QED BY <1>4, <1>5, <1>6 DEF e

-----------------------------------------------------------------------------
(* Types *)

LEMMA PricesAreNat ==
  ASSUME TablesOK, NEW key \in EventKey, NEW unit \in UnitPrices(key.type, key.date)
  PROVE  /\ unit \in Nat
         /\ unit # 0 => \E pl \in lists : pl.from <= key.date /\ pl.rate[key.type] = unit
<1>1. key.type \in EventType
  BY DEF EventKey
<1>2. ASSUME NEW pl \in lists PROVE pl.rate[key.type] \in Nat
  <2>1. pl.rate \in ValidRules
    BY BillingAssumption DEF TablesOK
  <2> QED BY <1>1, <2>1 DEF ValidRules
<1>3. \A pl \in InForce(key.date) : pl \in lists /\ pl.from <= key.date
  BY DEF InForce
<1> QED BY <1>2, <1>3 DEF UnitPrices

LEMMA EventOfType ==
  ASSUME NEW q \in 1 .. MaxQuantity, NEW unit \in Nat, NEW warehouse \in Warehouse
  PROVE  EventOf(q, unit, warehouse) \in Event /\ EventOf(q, unit, warehouse).invoice = 0
<1>1. q \in Nat /\ MaxInvoices \in Nat
  BY BillingAssumption
<1>2. unit * q \in Nat
  BY <1>1
<1> QED BY <1>1, <1>2 DEF EventOf, Event, NoInvoice

\* A charge adds at most one event, and touches none that is there.
LEMMA AddEventAdds ==
  ASSUME TablesOK, NEW key \in EventKey, NEW q \in 1 .. MaxQuantity,
         NEW warehouse \in Warehouse, AddEvent(key, q, warehouse)
  PROVE  /\ DOMAIN event' \subseteq EventKey
         /\ DOMAIN event' \subseteq DOMAIN event \cup {key}
         /\ event' = [k \in DOMAIN event' |-> event'[k]]
         /\ \A k \in DOMAIN event : k \in DOMAIN event' /\ event'[k] = event[k]
         /\ \A k \in DOMAIN event' \ DOMAIN event :
              /\ event'[k] \in Event /\ event'[k].invoice = 0
              /\ event'[k].unit # 0 =>
                   \E pl \in lists : pl.from <= k.date /\ pl.rate[k.type] = event'[k].unit
<1>1. CASE key \in DOMAIN event
  BY <1>1 DEF AddEvent, TablesOK
<1>2. CASE key \notin DOMAIN event
  <2>1. PICK unit \in UnitPrices(key.type, key.date) :
          event' = [k \in DOMAIN event \cup {key} |->
                      IF k = key THEN EventOf(q, unit, warehouse) ELSE event[k]]
    BY <1>2 DEF AddEvent
  <2>2. DOMAIN event' = DOMAIN event \cup {key} /\ event'[key] = EventOf(q, unit, warehouse)
    BY <2>1
  <2>3. \A k \in DOMAIN event : event'[k] = event[k]
    BY <1>2, <2>1
  <2>4. event' = [k \in DOMAIN event' |-> event'[k]]
    BY <2>1
  <2>5. EventOf(q, unit, warehouse) \in Event /\ EventOf(q, unit, warehouse).invoice = 0
    BY PricesAreNat, EventOfType
  <2>6. EventOf(q, unit, warehouse).unit = unit
    BY DEF EventOf
  <2>7. DOMAIN event' \subseteq EventKey
    BY <2>2 DEF TablesOK
  <2> QED BY <2>2, <2>3, <2>4, <2>5, <2>6, <2>7, PricesAreNat
<1> QED BY <1>1, <1>2

LEMMA LinkedEvents ==
  ASSUME TablesOK, NEW s, NEW id \in InvoiceId, event' = Linked(s, id)
  PROVE  /\ DOMAIN event' = DOMAIN event
         /\ event' = [k \in DOMAIN event' |-> event'[k]]
         /\ \A k \in DOMAIN event :
              /\ event'[k] \in Event
              /\ event'[k].invoice = IF k \in s.keys THEN id ELSE event[k].invoice
              /\ event'[k].unit = event[k].unit
              /\ [event'[k] EXCEPT !.invoice = 0] = [event[k] EXCEPT !.invoice = 0]
<1>1. DOMAIN event' = DOMAIN event /\ event' = [k \in DOMAIN event' |-> event'[k]]
  BY DEF Linked
<1>2. id \in 0 .. MaxInvoices
  BY BillingAssumption DEF InvoiceId
<1>3. ASSUME NEW k \in DOMAIN event
      PROVE  /\ event'[k] \in Event
             /\ event'[k].invoice = IF k \in s.keys THEN id ELSE event[k].invoice
             /\ event'[k].unit = event[k].unit
             /\ [event'[k] EXCEPT !.invoice = 0] = [event[k] EXCEPT !.invoice = 0]
  <2>1. event[k] \in Event
    BY DEF TablesOK
  <2>2. CASE k \in s.keys
    <3>1. event'[k] = [event[k] EXCEPT !.invoice = id]
      BY <2>2 DEF Linked
    <3> QED BY <1>2, <2>1, <2>2, <3>1 DEF Event
  <2>3. CASE k \notin s.keys
    BY <2>1, <2>3 DEF Linked
  <2> QED BY <2>2, <2>3
<1> QED BY <1>1, <1>3

-----------------------------------------------------------------------------
(* The invariant *)

LEMMA BillingInvInit == BillingInit => BillingInv
<1> SUFFICES ASSUME BillingInit PROVE BillingInv
  OBVIOUS
<1>1. invoices \in Seq({}) /\ Len(invoices) = 0
  BY EmptySeq DEF BillingInit
<1>2. Ledgered(invoices)
  BY <1>1 DEF Ledgered
<1>3. DOMAIN event = {} /\ event = [k \in DOMAIN event |-> event[k]]
  BY DEF BillingInit
<1>4. today \in Day /\ lists = {} /\ Len(invoices) <= MaxInvoices
  BY <1>1, BillingAssumption DEF BillingInit, Day
<1>5. session \in [Worker -> Request] /\ \A w \in Worker : session[w].doing = "nothing"
  BY DEF BillingInit, Idle, Request
<1> QED
  BY <1>1, <1>2, <1>3, <1>4, <1>5
  DEF BillingInv, TablesOK, BilledIsLinked, ReadsAreNew, OverlapOnly

\* A step that only adds events keeps the invariant.
LEMMA AddEventStep ==
  ASSUME BillingInv, NEW key \in EventKey, NEW q \in 1 .. MaxQuantity,
         NEW warehouse \in Warehouse, AddEvent(key, q, warehouse),
         UNCHANGED <<today, lists, invoices, session>>
  PROVE  BillingInv'
<1>1. /\ DOMAIN event' \subseteq EventKey
      /\ event' = [k \in DOMAIN event' |-> event'[k]]
      /\ \A k \in DOMAIN event : k \in DOMAIN event' /\ event'[k] = event[k]
      /\ \A k \in DOMAIN event' \ DOMAIN event : event'[k] \in Event /\ event'[k].invoice = 0
  BY AddEventAdds DEF BillingInv
<1>2. Len(invoices) \in Nat
  BY LedgeredLen DEF BillingInv, TablesOK
<1>3. TablesOK'
  BY <1>1, <1>2 DEF BillingInv, TablesOK, Ledgered
<1>4. BilledIsLinked'
  BY <1>1 DEF BillingInv, BilledIsLinked
<1>5. ReadsAreNew'
  BY <1>1 DEF BillingInv, ReadsAreNew
<1>6. OverlapOnly'
  BY DEF BillingInv, OverlapOnly
<1> QED BY <1>3, <1>4, <1>5, <1>6 DEF BillingInv

\* A step that only starts a request, which knows the tables as they are.
LEMMA StartStep ==
  ASSUME BillingInv, NEW w \in Worker, NEW r \in Request,
         r.doing = "assign" => r.id \in 1 .. Len(invoices),
         r.doing = "generate" =>
           /\ r.keys \subseteq {k \in DOMAIN event : event[k].invoice = NoInvoice}
           /\ r.after = Len(invoices),
         session' = [session EXCEPT ![w] = r],
         UNCHANGED <<today, lists, event, invoices>>
  PROVE  BillingInv'
<1>1. TablesOK'
  BY DEF BillingInv, TablesOK, Ledgered
<1>2. ReadsAreNew'
  <2> SUFFICES ASSUME NEW v \in Worker, session'[v].doing = "generate"
               PROVE  /\ session'[v].keys \subseteq DOMAIN event
                      /\ session'[v].after <= Len(invoices)
                      /\ \A i \in 1 .. session'[v].after :
                           invoices[i].billed \cap session'[v].keys = {}
    BY DEF ReadsAreNew
  <2>1. CASE v # w
    BY <2>1 DEF BillingInv, TablesOK, ReadsAreNew
  <2>2. CASE v = w
    <3>1. session'[v] = r
      BY <2>2 DEF BillingInv, TablesOK
    <3>2. Len(invoices) \in Nat
      BY LedgeredLen DEF BillingInv, TablesOK
    <3>3. ASSUME NEW i \in 1 .. Len(invoices), NEW k \in invoices[i].billed \cap r.keys
          PROVE  FALSE
      <4>1. event[k].invoice >= i /\ event[k].invoice = 0
        BY <3>1, <3>3 DEF BillingInv, BilledIsLinked, NoInvoice
      <4> QED BY <3>2, <4>1
    <3> QED BY <3>1, <3>2, <3>3
  <2> QED BY <2>1, <2>2
<1>3. BilledIsLinked' /\ OverlapOnly'
  BY DEF BillingInv, BilledIsLinked, OverlapOnly
<1> QED BY <1>1, <1>2, <1>3 DEF BillingInv

LEMMA CommitStep ==
  ASSUME BillingInv, NEW w \in Worker, CommitInvoice(w)
  PROVE  BillingInv'
<1> DEFINE s == session[w]
           id == Len(invoices) + 1
<1>1. PICK tax : invoices' = Append(invoices, InvoiceOf(s, tax))
  BY DEF CommitInvoice
<1> DEFINE inv == InvoiceOf(s, tax)
<1>2. /\ {"billed", "after", "status"} \subseteq DOMAIN inv
      /\ inv.billed = s.keys /\ inv.after = s.after
  BY DEF InvoiceOf
<1>3. /\ Ledgered(invoices) /\ Len(invoices) \in Nat
      /\ \A k \in DOMAIN event : event[k] \in Event /\ event[k].invoice <= Len(invoices)
  BY LedgeredLen DEF BillingInv, TablesOK
<1> HIDE DEF inv
<1>4. /\ Ledgered(invoices') /\ Len(invoices') = id
      /\ invoices'[id] = inv
      /\ \A i \in 1 .. Len(invoices) : invoices'[i] = invoices[i]
  BY <1>1, <1>2, <1>3, AppendLedgered DEF inv
<1>5. id \in InvoiceId /\ id <= MaxInvoices
  BY BillingAssumption DEF CommitInvoice, InvoiceId
<1>6. /\ DOMAIN event' = DOMAIN event
      /\ event' = [k \in DOMAIN event' |-> event'[k]]
      /\ \A k \in DOMAIN event :
           /\ event'[k] \in Event
           /\ event'[k].invoice = IF k \in s.keys THEN id ELSE event[k].invoice
  <2>1. event' = Linked(s, id)
    BY DEF CommitInvoice
  <2> QED BY <1>5, <2>1, LinkedEvents DEF BillingInv
<1>7. s \in Request /\ s.doing = "generate"
  BY DEF CommitInvoice, BillingInv, TablesOK
<1>8. /\ s.keys \subseteq DOMAIN event /\ s.after <= Len(invoices)
      /\ \A i \in 1 .. s.after : invoices[i].billed \cap s.keys = {}
  BY <1>7 DEF BillingInv, ReadsAreNew
<1>9. s.after \in Nat
  BY <1>7, BillingAssumption DEF Request, Idle
<1>10. session' = [session EXCEPT ![w] = Idle] /\ today' = today /\ lists' = lists
  BY DEF CommitInvoice
<1>11. session' \in [Worker -> Request]
  BY <1>10 DEF Request, BillingInv, TablesOK
<1> HIDE DEF s
<1>12. TablesOK'
  <2>1. \A k \in DOMAIN event' : event'[k] \in Event /\ event'[k].invoice <= Len(invoices')
    <3> SUFFICES ASSUME NEW k \in DOMAIN event
                 PROVE  event'[k].invoice <= id
      BY <1>4, <1>6
    <3>1. event[k].invoice <= Len(invoices) /\ event[k].invoice \in Nat
      BY <1>3, BillingAssumption DEF Event
    <3> QED BY <1>3, <1>6, <3>1
  <2>2. \A v \in Worker :
          session'[v].doing = "assign" => session'[v].id \in 1 .. Len(invoices')
    BY <1>3, <1>4, <1>10 DEF BillingInv, TablesOK, Idle
  <2> QED BY <2>2, <1>4, <1>5, <1>6, <1>10, <1>11, <2>1 DEF BillingInv, TablesOK
<1>13. BilledIsLinked'
  <2> SUFFICES ASSUME NEW i \in 1 .. id, NEW k \in invoices'[i].billed
               PROVE  k \in DOMAIN event' /\ event'[k].invoice >= i
    BY <1>4 DEF BilledIsLinked
  <2>1. CASE i = id
    BY <1>2, <1>3, <1>4, <1>6, <1>8, <2>1
  <2>2. CASE i # id
    <3>1. i \in 1 .. Len(invoices) /\ k \in invoices[i].billed
      BY <1>3, <1>4, <2>2
    <3>2. k \in DOMAIN event /\ event[k].invoice >= i
      BY <3>1 DEF BillingInv, BilledIsLinked
    <3> QED BY <1>3, <1>6, <3>1, <3>2
  <2> QED BY <2>1, <2>2
<1>14. ReadsAreNew'
  <2> SUFFICES ASSUME NEW v \in Worker, session'[v].doing = "generate"
               PROVE  /\ session'[v].keys \subseteq DOMAIN event'
                      /\ session'[v].after <= Len(invoices')
                      /\ \A i \in 1 .. session'[v].after :
                           invoices'[i].billed \cap session'[v].keys = {}
    BY DEF ReadsAreNew
  <2>1. v # w /\ session'[v] = session[v]
    BY <1>10 DEF BillingInv, TablesOK, Idle
  <2>2. /\ session[v].keys \subseteq DOMAIN event
        /\ session[v].after <= Len(invoices)
        /\ \A i \in 1 .. session[v].after : invoices[i].billed \cap session[v].keys = {}
    BY <2>1 DEF BillingInv, ReadsAreNew
  <2>3. session[v].after \in Nat
    BY <2>1, BillingAssumption DEF BillingInv, TablesOK, Request, Idle
  <2> QED BY <1>3, <1>4, <1>6, <2>1, <2>2, <2>3
<1>15. OverlapOnly'
  <2> SUFFICES ASSUME NEW i \in 1 .. id, NEW j \in 1 .. id, i < j, invoices'[j].after >= i
               PROVE  invoices'[i].billed \cap invoices'[j].billed = {}
    BY <1>4 DEF OverlapOnly
  <2>1. i \in 1 .. Len(invoices) /\ invoices'[i] = invoices[i]
    BY <1>3, <1>4
  <2>2. CASE j = id
    BY <1>2, <1>4, <1>8, <1>9, <2>1, <2>2
  <2>3. CASE j # id
    BY <1>3, <1>4, <2>1, <2>3 DEF BillingInv, OverlapOnly
  <2> QED BY <2>2, <2>3
<1> QED BY <1>12, <1>13, <1>14, <1>15 DEF BillingInv

LEMMA AssignStep ==
  ASSUME BillingInv, NEW w \in Worker, AssignStatus(w)
  PROVE  BillingInv'
<1>1. /\ Ledgered(invoices')
      /\ Len(invoices') = Len(invoices)
      /\ \A i \in 1 .. Len(invoices) :
           /\ invoices'[i].billed = invoices[i].billed
           /\ invoices'[i].after = invoices[i].after
  <2> DEFINE id == session[w].id
             value == session[w].becomes
  <2>1. id \in 1 .. Len(invoices) /\ Ledgered(invoices)
    BY DEF AssignStatus, BillingInv, TablesOK
  <2>2. invoices' = [invoices EXCEPT ![id].status = value]
    BY DEF AssignStatus
  <2> HIDE DEF id, value
  <2> DEFINE t == [invoices EXCEPT ![id].status = value]
  <2>3. /\ Ledgered(t)
        /\ Len(t) = Len(invoices)
        /\ \A i \in 1 .. Len(invoices) :
             t[i].billed = invoices[i].billed /\ t[i].after = invoices[i].after
    BY <2>1, StatusLedgered
  <2>4. invoices' = t
    BY <2>2
  <2> HIDE DEF t
  <2> QED BY <2>3, <2>4
<1>2. session' \in [Worker -> Request]
      /\ \A v \in Worker : session'[v] = session[v] \/ session'[v].doing = "nothing"
  BY DEF AssignStatus, BillingInv, TablesOK, Request, Idle
<1>3. Len(invoices) \in Nat
  BY LedgeredLen DEF BillingInv, TablesOK
<1>4. TablesOK'
  BY <1>1, <1>2 DEF AssignStatus, BillingInv, TablesOK
<1>5. BilledIsLinked'
  BY <1>1 DEF AssignStatus, BillingInv, BilledIsLinked
<1>6. OverlapOnly'
  BY <1>1 DEF BillingInv, OverlapOnly
<1>7. ReadsAreNew'
  <2> SUFFICES ASSUME NEW v \in Worker, session'[v].doing = "generate"
               PROVE  /\ session'[v].keys \subseteq DOMAIN event'
                      /\ session'[v].after <= Len(invoices')
                      /\ \A i \in 1 .. session'[v].after :
                           invoices'[i].billed \cap session'[v].keys = {}
    BY DEF ReadsAreNew
  <2>1. session'[v] = session[v] /\ event' = event
    BY <1>2 DEF AssignStatus
  <2>2. session[v].after \in Nat
    BY <2>1, BillingAssumption DEF BillingInv, TablesOK, Request, Idle
  <2> QED BY <1>1, <1>3, <2>1, <2>2 DEF BillingInv, ReadsAreNew
<1> QED BY <1>4, <1>5, <1>6, <1>7 DEF BillingInv

\* Every step of a request is one of three kinds.
LEMMA RequestStep ==
  ASSUME BillingInv, NEW w \in Worker, InvoiceRequest(w)
  PROVE  BillingInv'
<1>1. Len(invoices) \in Nat /\ DOMAIN invoices = 1 .. Len(invoices)
  BY LedgeredLen DEF BillingInv, TablesOK
<1>2. ASSUME NEW period \in Period, ReadUninvoiced(w, period[1], period[2])
      PROVE  BillingInv'
  <2> DEFINE r == [doing |-> "generate", start |-> period[1], end |-> period[2],
                   keys |-> Uninvoiced(period[1], period[2]), after |-> Len(invoices)]
  <2>1. period[1] \in Day /\ period[2] \in Day
    BY BillingAssumption
  <2>2. /\ Uninvoiced(period[1], period[2])
             \subseteq {k \in DOMAIN event : event[k].invoice = NoInvoice}
        /\ Uninvoiced(period[1], period[2]) \subseteq EventKey
    BY DEF Uninvoiced, BillingInv, TablesOK
  <2>3. Len(invoices) \in 0 .. MaxInvoices
    BY <1>1, BillingAssumption DEF BillingInv, TablesOK
  <2>4. r \in Request
    BY <2>1, <2>2, <2>3 DEF Request
  <2>5. session' = [session EXCEPT ![w] = r] /\ UNCHANGED <<today, lists, event, invoices>>
    BY <1>2 DEF ReadUninvoiced
  <2>6. r.doing # "assign" /\ r.after = Len(invoices) /\ r.keys = Uninvoiced(period[1], period[2])
    OBVIOUS
  <2> HIDE DEF r
  <2> QED BY <2>2, <2>4, <2>5, <2>6, StartStep
<1>3. ASSUME NEW id \in DOMAIN invoices, NEW becomes \in {"ISSUED", "PAID"},
             ReadStatus(w, id, becomes)
      PROVE  BillingInv'
  <2> DEFINE r == [doing |-> "assign", id |-> id, becomes |-> becomes]
  <2>1. id \in 1 .. Len(invoices) /\ id \in InvoiceId
    BY <1>1, BillingAssumption DEF BillingInv, TablesOK, InvoiceId
  <2>2. r \in Request /\ r.doing = "assign" /\ r.id = id
    BY <2>1 DEF Request
  <2>3. session' = [session EXCEPT ![w] = r] /\ UNCHANGED <<today, lists, event, invoices>>
    BY <1>3 DEF ReadStatus
  <2> HIDE DEF r
  <2> QED BY <2>1, <2>2, <2>3, StartStep
<1> QED BY <1>2, <1>3, CommitStep, AssignStep DEF InvoiceRequest

LEMMA ServiceKey ==
  ASSUME today \in Day, NEW type \in ServiceType, NEW document \in Document
  PROVE  [type |-> type, reference |-> document, date |-> today] \in EventKey
BY DEF EventKey, EventType

LEMMA StorageKey ==
  ASSUME NEW date \in Day
  PROVE  [type |-> "STORAGE_DAY", reference |-> Cron, date |-> date] \in EventKey
BY DEF EventKey, EventType

\* A charge of either kind is one AddEvent of a quantity that is not zero.
LEMMA ChargeIsAddEvent ==
  ASSUME BillingInv,
         \/ \E type \in ServiceType, document \in Document, quantity \in 0 .. MaxQuantity,
               warehouse \in Warehouse : ChargeService(type, document, quantity, warehouse)
         \/ \E date \in Day, occupied \in [Warehouse -> 0 .. MaxQuantity] :
              RunDailyStorage(date, occupied)
  PROVE  /\ \E key \in EventKey, q \in 1 .. MaxQuantity, warehouse \in Warehouse :
              AddEvent(key, q, warehouse)
         /\ UNCHANGED <<today, lists, invoices, session>>
<1>1. ASSUME NEW type \in ServiceType, NEW document \in Document,
             NEW quantity \in 0 .. MaxQuantity, NEW warehouse \in Warehouse,
             ChargeService(type, document, quantity, warehouse)
      PROVE  \E key \in EventKey, q \in 1 .. MaxQuantity, wh \in Warehouse :
               AddEvent(key, q, wh)
  <2>1. quantity \in 1 .. MaxQuantity
    BY <1>1, BillingAssumption DEF ChargeService, Chargeable
  <2>2. [type |-> type, reference |-> document, date |-> today] \in EventKey
    BY ServiceKey DEF BillingInv, TablesOK
  <2> QED BY <1>1, <2>1, <2>2 DEF ChargeService
<1>2. ASSUME NEW date \in Day, NEW occupied \in [Warehouse -> 0 .. MaxQuantity],
             RunDailyStorage(date, occupied)
      PROVE  \E key \in EventKey, q \in 1 .. MaxQuantity, wh \in Warehouse :
               AddEvent(key, q, wh)
  <2>1. PICK warehouse \in Warehouse :
          /\ Chargeable(occupied[warehouse])
          /\ AddEvent([type |-> "STORAGE_DAY", reference |-> Cron, date |-> date],
                      occupied[warehouse], warehouse)
    BY <1>2 DEF RunDailyStorage
  <2>2. occupied[warehouse] \in 1 .. MaxQuantity
    BY <2>1, BillingAssumption DEF Chargeable
  <2> QED BY <2>1, <2>2, StorageKey
<1>3. UNCHANGED <<today, lists, invoices, session>>
  BY DEF ChargeService, RunDailyStorage
<1> QED BY <1>1, <1>2, <1>3

LEMMA BillingInvStep == BillingInv /\ [BillingNext]_billingVars => BillingInv'
<1> SUFFICES ASSUME BillingInv, [BillingNext]_billingVars PROVE BillingInv'
  OBVIOUS
<1> USE DEF BillingInv
<1>1. ASSUME NextDay PROVE BillingInv'
  <2>1. today' \in Day
    BY <1>1, BillingAssumption DEF NextDay, Day, TablesOK
  <2>2. UNCHANGED <<lists, event, invoices, session>>
    BY <1>1 DEF NextDay
  <2> QED BY <2>1, <2>2 DEF TablesOK, Ledgered, BilledIsLinked, ReadsAreNew, OverlapOnly
<1>2. ASSUME NEW from \in Day, NEW rate \in Rates, UpsertPriceList(from, rate)
      PROVE  BillingInv'
  <2>1. \A pl \in lists' : pl \in [from : Day, rate : Rates]
    BY <1>2 DEF UpsertPriceList, TablesOK
  <2>2. UNCHANGED <<today, event, invoices, session>>
    BY <1>2 DEF UpsertPriceList
  <2> QED BY <2>1, <2>2 DEF TablesOK, Ledgered, BilledIsLinked, ReadsAreNew, OverlapOnly
<1>3. CASE UNCHANGED billingVars
  BY <1>3 DEF billingVars, TablesOK, Ledgered, BilledIsLinked, ReadsAreNew, OverlapOnly
<1> QED BY <1>1, <1>2, <1>3, ChargeIsAddEvent, AddEventStep, RequestStep DEF BillingNext

LEMMA BillingInvariant == BillingSpec => []BillingInv
BY BillingInvInit, BillingInvStep, PTL DEF BillingSpec

-----------------------------------------------------------------------------
(* What a reader should know *)

LEMMA DomainOfInvoices == BillingInv => DOMAIN invoices = 1 .. Len(invoices)
BY LedgeredLen DEF BillingInv, TablesOK

\* However many requests interleave, an invoice that read its events after
\* another one was committed bills none of the events of that other.
THEOREM NoLateDoubleBilling == BillingSpec => []BilledAgainOnlyByOverlap
<1>1. BillingInv => BilledAgainOnlyByOverlap
  BY DomainOfInvoices DEF BillingInv, OverlapOnly, BilledAgainOnlyByOverlap
<1> QED BY <1>1, BillingInvariant, PTL

LEMMA ChargesFinalStep ==
  ASSUME BillingInv, [BillingNext]_billingVars, NEW k \in DOMAIN event
  PROVE  /\ k \in DOMAIN event'
         /\ [event'[k] EXCEPT !.invoice = 0] = [event[k] EXCEPT !.invoice = 0]
         /\ event[k].invoice # NoInvoice => event'[k].invoice >= event[k].invoice
<1>1. event[k].invoice \in Nat /\ event[k].invoice <= Len(invoices) /\ Len(invoices) \in Nat
  BY LedgeredLen, BillingAssumption DEF BillingInv, TablesOK, Event
<1>2. CASE k \in DOMAIN event' /\ event'[k] = event[k]
  BY <1>1, <1>2
<1>3. ASSUME NEW w \in Worker, CommitInvoice(w)
      PROVE  /\ k \in DOMAIN event'
             /\ [event'[k] EXCEPT !.invoice = 0] = [event[k] EXCEPT !.invoice = 0]
             /\ event'[k].invoice >= event[k].invoice
  <2> DEFINE s == session[w]
             id == Len(invoices) + 1
  <2>1. event' = Linked(s, id) /\ id \in InvoiceId
    BY <1>3 DEF CommitInvoice
  <2> HIDE DEF s
  <2>2. /\ k \in DOMAIN event'
        /\ event'[k].invoice = IF k \in s.keys THEN id ELSE event[k].invoice
        /\ [event'[k] EXCEPT !.invoice = 0] = [event[k] EXCEPT !.invoice = 0]
    BY <2>1, LinkedEvents DEF BillingInv
  <2> QED BY <1>1, <2>2
<1>4. ASSUME UNCHANGED event PROVE k \in DOMAIN event' /\ event'[k] = event[k]
  BY <1>4
<1>5. ASSUME NEW key \in EventKey, NEW q \in 1 .. MaxQuantity, NEW warehouse \in Warehouse,
             AddEvent(key, q, warehouse)
      PROVE  k \in DOMAIN event' /\ event'[k] = event[k]
  BY <1>5, AddEventAdds DEF BillingInv
<1>6. \/ \E w \in Worker : CommitInvoice(w)
      \/ UNCHANGED event
      \/ \E key \in EventKey, q \in 1 .. MaxQuantity, warehouse \in Warehouse :
           AddEvent(key, q, warehouse)
  BY ChargeIsAddEvent
  DEF BillingNext, InvoiceRequest, billingVars, NextDay, UpsertPriceList, ReadUninvoiced,
      ReadStatus, AssignStatus
<1> QED BY <1>2, <1>3, <1>4, <1>5, <1>6

\* No step of any request takes back a charge, changes its amounts, or makes an
\* event that was invoiced uninvoiced again.
THEOREM ChargesStayFinal == BillingSpec => ChargesAreFinal
<1>1. BillingInv /\ [BillingNext]_billingVars =>
        [ \A k \in DOMAIN event :
            /\ k \in DOMAIN event'
            /\ [event'[k] EXCEPT !.invoice = 0] = [event[k] EXCEPT !.invoice = 0]
            /\ event[k].invoice # NoInvoice => event'[k].invoice >= event[k].invoice ]_billingVars
  BY ChargesFinalStep
<1> QED BY <1>1, BillingInvariant, PTL DEF BillingSpec, ChargesAreFinal

LEMMA PricedStep ==
  ASSUME BillingInv, PricedByListInForce, [BillingNext]_billingVars
  PROVE  PricedByListInForce'
<1>1. CASE UNCHANGED <<lists, event>>
  BY <1>1 DEF PricedByListInForce
<1>2. ASSUME NEW from \in Day, NEW rate \in Rates, UpsertPriceList(from, rate)
      PROVE  PricedByListInForce'
  BY <1>2 DEF UpsertPriceList, PricedByListInForce
<1>3. ASSUME NEW w \in Worker, CommitInvoice(w)
      PROVE  PricedByListInForce'
  <2> DEFINE s == session[w]
             id == Len(invoices) + 1
  <2>1. event' = Linked(s, id) /\ id \in InvoiceId /\ lists' = lists
    BY <1>3 DEF CommitInvoice
  <2> HIDE DEF s, id
  <2>2. DOMAIN event' = DOMAIN event /\ \A k \in DOMAIN event : event'[k].unit = event[k].unit
    BY <2>1, LinkedEvents DEF BillingInv
  <2> QED BY <2>1, <2>2 DEF PricedByListInForce
<1>4. ASSUME NEW key \in EventKey, NEW q \in 1 .. MaxQuantity, NEW warehouse \in Warehouse,
             AddEvent(key, q, warehouse), UNCHANGED lists
      PROVE  PricedByListInForce'
  <2>1. /\ \A k \in DOMAIN event : k \in DOMAIN event' /\ event'[k] = event[k]
        /\ \A k \in DOMAIN event' \ DOMAIN event :
             event'[k].unit # 0 =>
               \E pl \in lists : pl.from <= k.date /\ pl.rate[k.type] = event'[k].unit
    BY <1>4, AddEventAdds DEF BillingInv
  <2> QED BY <1>4, <2>1 DEF PricedByListInForce
<1>5. \/ \E w \in Worker : CommitInvoice(w)
      \/ UNCHANGED <<lists, event>>
      \/ \E from \in Day, rate \in Rates : UpsertPriceList(from, rate)
      \/ /\ UNCHANGED lists
         /\ \E key \in EventKey, q \in 1 .. MaxQuantity, warehouse \in Warehouse :
              AddEvent(key, q, warehouse)
  BY ChargeIsAddEvent
  DEF BillingNext, InvoiceRequest, billingVars, NextDay, ReadUninvoiced, ReadStatus,
      AssignStatus
<1> QED BY <1>1, <1>2, <1>3, <1>4, <1>5

\* Events are charged by price lists in force on their day, whatever lists are
\* filed later and for whatever day.
THEOREM PricesAreOfTheDay == BillingSpec => []PricedByListInForce
<1>1. BillingInit => PricedByListInForce
  BY DEF BillingInit, PricedByListInForce
<1>2. BillingInv /\ PricedByListInForce /\ [BillingNext]_billingVars => PricedByListInForce'
  BY PricedStep
<1> QED BY <1>1, <1>2, BillingInvariant, PTL DEF BillingSpec

-----------------------------------------------------------------------------
(* The figures of an invoice *)

\* What a set of events amounts to, as a table of events has them.
Pieces(e, keys) == SumFunctionOnSet([k \in keys |-> e[k].quantity], keys)
Amount(e, keys) == SumFunctionOnSet([k \in keys |-> e[k].total], keys)
Figures(e, keys) == [quantity |-> Pieces(e, keys), total |-> Cents(Amount(e, keys))]

\* An invoice whose figures are those of the events it bills.
Backed(e, inv) ==
  /\ inv \in Invoice
  /\ inv.billed \subseteq DOMAIN e
  /\ \A k \in inv.billed : k.date \in inv.start .. inv.end
  /\ \A type \in EventType : inv.lines[type] = Figures(e, OfType(inv.billed, type))
  /\ inv.subtotal = Cents(Amount(e, inv.billed))
  /\ inv.total = Cents(Amount(e, inv.billed) + 100 * inv.tax)

\* A request still holds only events of its period, and an event is linked
\* only to an invoice that bills it.
AmountsInv ==
  /\ IsFiniteSet(DOMAIN event)
  /\ \A w \in Worker : session[w].doing = "generate" =>
       \A k \in session[w].keys : k.date \in session[w].start .. session[w].end
  /\ \A i \in 1 .. Len(invoices) : Backed(event, invoices[i])
  /\ \A k \in DOMAIN event :
       event[k].invoice # NoInvoice => k \in invoices[event[k].invoice].billed

LEMMA FiguresAreLines ==
  /\ \A keys : QuantityOf(keys) = Pieces(event, keys) /\ AmountOf(keys) = Amount(event, keys)
  /\ \A keys : LineOf(keys) = Figures(event, keys)
BY DEF QuantityOf, AmountOf, LineOf, Pieces, Amount, Figures

LEMMA CentsNear ==
  ASSUME NEW a \in Nat
  PROVE  /\ Cents(a) \in Nat
         /\ -50 <= 100 * Cents(a) - a /\ 100 * Cents(a) - a <= 50
         /\ \A tax \in Nat : Cents(a + 100 * tax) = Cents(a) + tax
BY DEF Cents

LEMMA AmountsAreNat ==
  ASSUME NEW e, NEW keys \in SUBSET DOMAIN e, IsFiniteSet(keys),
         \A k \in keys : e[k] \in Event
  PROVE  /\ Pieces(e, keys) \in Nat /\ Amount(e, keys) \in Nat
         /\ Pieces(e, keys) = 0 => keys = {}
         /\ Figures(e, keys) \in Line
<1> DEFINE q == [k \in keys |-> e[k].quantity]
           a == [k \in keys |-> e[k].total]
<1>1. \A k \in keys : q[k] \in Nat /\ a[k] \in Nat /\ 1 <= q[k]
  BY BillingAssumption DEF Event
<1> HIDE DEF q, a
<1>2. /\ SumFunctionOnSet(q, keys) \in Nat /\ SumFunctionOnSet(a, keys) \in Nat
      /\ \A k \in keys : q[k] <= SumFunctionOnSet(q, keys)
  BY <1>1, SumNat
<1>3. SumFunctionOnSet(q, keys) = 0 => keys = {}
  BY <1>1, <1>2
<1>4. Pieces(e, keys) = SumFunctionOnSet(q, keys) /\ Amount(e, keys) = SumFunctionOnSet(a, keys)
  BY DEF Pieces, Amount, q, a
<1>5. Cents(Amount(e, keys)) \in Nat
  BY <1>2, <1>4, CentsNear
<1> QED BY <1>2, <1>3, <1>4, <1>5 DEF Figures, Line

LEMMA AmountsAgree ==
  ASSUME NEW e, NEW g, NEW keys, IsFiniteSet(keys),
         \A k \in keys : g[k].quantity = e[k].quantity /\ g[k].total = e[k].total
  PROVE  /\ Pieces(g, keys) = Pieces(e, keys) /\ Amount(g, keys) = Amount(e, keys)
         /\ Figures(g, keys) = Figures(e, keys)
<1>1. /\ [k \in keys |-> g[k].quantity] = [k \in keys |-> e[k].quantity]
      /\ [k \in keys |-> g[k].total] = [k \in keys |-> e[k].total]
  OBVIOUS
<1> QED BY <1>1 DEF Pieces, Amount, Figures

\* Figures stay backed by a table that keeps the figures of the events.
LEMMA BackedKept ==
  ASSUME NEW e, NEW g, IsFiniteSet(DOMAIN e), NEW inv, Backed(e, inv),
         \A k \in DOMAIN e :
           k \in DOMAIN g /\ g[k].quantity = e[k].quantity /\ g[k].total = e[k].total
  PROVE  Backed(g, inv)
<1>1. \A keys \in SUBSET inv.billed :
        Amount(g, keys) = Amount(e, keys) /\ Figures(g, keys) = Figures(e, keys)
  <2> SUFFICES ASSUME NEW keys \in SUBSET inv.billed
               PROVE  Amount(g, keys) = Amount(e, keys) /\ Figures(g, keys) = Figures(e, keys)
    OBVIOUS
  <2>1. keys \subseteq DOMAIN e
    BY DEF Backed
  <2>2. IsFiniteSet(keys)
    BY <2>1, FS_Subset
  <2> QED BY <2>1, <2>2, AmountsAgree
<1>2. \A type : OfType(inv.billed, type) \subseteq inv.billed
  BY DEF OfType
<1> QED BY <1>1, <1>2 DEF Backed

LEMMA BackedStatus ==
  ASSUME NEW e, NEW inv, Backed(e, inv), NEW value \in {"ISSUED", "PAID"}
  PROVE  Backed(e, [inv EXCEPT !.status = value])
<1> DEFINE t == [inv EXCEPT !.status = value]
<1>1. /\ t \in Invoice /\ t.billed = inv.billed /\ t.start = inv.start /\ t.end = inv.end
      /\ t.lines = inv.lines /\ t.subtotal = inv.subtotal /\ t.total = inv.total
      /\ t.tax = inv.tax
  BY DEF Backed, Invoice
<1> HIDE DEF t
<1>2. Backed(e, t)
  BY <1>1 DEF Backed
<1> QED BY <1>2 DEF t

LEMMA TaxIsNat ==
  ASSUME NEW a \in Nat, NEW tax \in TaxesOn(a)
  PROVE  tax \in Nat
<1> DEFINE exact == a * VatPercent
           down == exact \div 10000
<1>1. exact \in Nat
  <2>1. VatPercent \in Nat
    BY BillingAssumption
  <2> QED BY <2>1
<1>2. tax \in {down, down + 1}
  BY DEF TaxesOn
<1> HIDE DEF exact
<1>3. down \in Nat
  BY <1>1
<1> HIDE DEF down
<1> QED BY <1>2, <1>3

\* What generate_invoice builds is backed by the events it has read.
LEMMA BackedNew ==
  ASSUME TablesOK, IsFiniteSet(DOMAIN event), NEW s \in Request, s.doing = "generate",
         s.keys \subseteq DOMAIN event,
         \A k \in s.keys : k.date \in s.start .. s.end,
         NEW tax \in TaxesOn(AmountOf(s.keys))
  PROVE  Backed(event, InvoiceOf(s, tax))
<1> DEFINE inv == InvoiceOf(s, tax)
<1>1. ASSUME NEW keys \in SUBSET s.keys
      PROVE  /\ Amount(event, keys) \in Nat /\ AmountOf(keys) = Amount(event, keys)
             /\ LineOf(keys) = Figures(event, keys) /\ LineOf(keys) \in Line
  <2>1. keys \in SUBSET DOMAIN event /\ \A k \in keys : event[k] \in Event
    BY DEF TablesOK
  <2>2. IsFiniteSet(keys)
    BY <2>1, FS_Subset
  <2> QED BY <2>1, <2>2, AmountsAreNat, FiguresAreLines
<1>2. \A type : OfType(s.keys, type) \subseteq s.keys
  BY DEF OfType
<1>3. /\ inv.start = s.start /\ inv.end = s.end /\ inv.billed = s.keys /\ inv.tax = tax
      /\ inv.lines = [type \in EventType |-> LineOf(OfType(s.keys, type))]
      /\ inv.subtotal = Cents(AmountOf(s.keys))
      /\ inv.total = Cents(AmountOf(s.keys) + 100 * tax)
  BY DEF InvoiceOf
<1>4. AmountOf(s.keys) \in Nat
  BY <1>1
<1>5. tax \in Nat
  BY <1>4, TaxIsNat
<1>6. /\ Cents(AmountOf(s.keys)) \in Nat
      /\ Cents(AmountOf(s.keys) + 100 * tax) \in Nat
  <2>1. AmountOf(s.keys) + 100 * tax \in Nat
    BY <1>4, <1>5
  <2> QED BY <1>4, <2>1, CentsNear
<1>7. /\ s.start \in Day /\ s.end \in Day /\ s.keys \in SUBSET EventKey
      /\ s.after \in 0 .. MaxInvoices
  BY DEF Request, Idle
<1>8. [type \in EventType |-> LineOf(OfType(s.keys, type))] \in [EventType -> Line]
  BY <1>1, <1>2
<1>9. inv \in Invoice
  BY <1>5, <1>6, <1>7, <1>8 DEF InvoiceOf, Invoice
<1> HIDE DEF inv
<1>10. \A type \in EventType : inv.lines[type] = Figures(event, OfType(inv.billed, type))
  BY <1>1, <1>2, <1>3
<1>11. Backed(event, inv)
  BY <1>1, <1>3, <1>9, <1>10 DEF Backed
<1> QED BY <1>11 DEF inv

\* What every step but a commit does to the events: it may add some that are
\* linked to no invoice.
EventsGrow ==
  /\ IsFiniteSet(DOMAIN event')
  /\ \A k \in DOMAIN event : k \in DOMAIN event' /\ event'[k] = event[k]
  /\ \A k \in DOMAIN event' \ DOMAIN event : event'[k].invoice = NoInvoice

LEMMA EventsStepCases ==
  ASSUME BillingInv, IsFiniteSet(DOMAIN event), [BillingNext]_billingVars
  PROVE  \/ \E w \in Worker : CommitInvoice(w)
         \/ EventsGrow /\ \E w \in Worker : AssignStatus(w)
         \/ EventsGrow /\ invoices' = invoices
<1>1. ASSUME NEW key \in EventKey, NEW q \in 1 .. MaxQuantity, NEW warehouse \in Warehouse,
             AddEvent(key, q, warehouse)
      PROVE  EventsGrow
  <2>1. /\ DOMAIN event' \subseteq DOMAIN event \cup {key}
        /\ \A k \in DOMAIN event : k \in DOMAIN event' /\ event'[k] = event[k]
        /\ \A k \in DOMAIN event' \ DOMAIN event : event'[k].invoice = 0
    BY <1>1, AddEventAdds DEF BillingInv
  <2>2. IsFiniteSet(DOMAIN event \cup {key})
    BY FS_AddElement
  <2>3. IsFiniteSet(DOMAIN event')
    BY <2>1, <2>2, FS_Subset
  <2> QED BY <2>1, <2>3 DEF EventsGrow, NoInvoice
<1>2. UNCHANGED event => EventsGrow
  BY DEF EventsGrow
<1>3. \/ \E w \in Worker : CommitInvoice(w)
      \/ UNCHANGED event /\ \E w \in Worker : AssignStatus(w)
      \/ UNCHANGED event /\ invoices' = invoices
      \/ /\ invoices' = invoices
         /\ \E key \in EventKey, q \in 1 .. MaxQuantity, warehouse \in Warehouse :
              AddEvent(key, q, warehouse)
  BY ChargeIsAddEvent
  DEF BillingNext, InvoiceRequest, billingVars, NextDay, UpsertPriceList, ReadUninvoiced,
      ReadStatus, AssignStatus
<1> QED BY <1>1, <1>2, <1>3

\* What a request holds is of its period, whatever becomes of the events.
LEMMA PeriodStep ==
  ASSUME BillingInv, [BillingNext]_billingVars, NEW w \in Worker,
         \A v \in Worker : session[v].doing = "generate" =>
           \A k \in session[v].keys : k.date \in session[v].start .. session[v].end,
         session'[w].doing = "generate", NEW k \in session'[w].keys
  PROVE  k.date \in session'[w].start .. session'[w].end
<1>0. session \in [Worker -> Request]
  BY DEF BillingInv, TablesOK
<1>1. CASE session'[w] = session[w]
  BY <1>1
<1>2. ASSUME NEW v \in Worker, NEW period \in Period,
             ReadUninvoiced(v, period[1], period[2]), v = w
      PROVE  k.date \in session'[w].start .. session'[w].end
  <2>1. session'[w] = [doing |-> "generate", start |-> period[1], end |-> period[2],
                       keys |-> Uninvoiced(period[1], period[2]), after |-> Len(invoices)]
    BY <1>0, <1>2 DEF ReadUninvoiced
  <2>2. k \in Uninvoiced(period[1], period[2])
    BY <2>1
  <2> QED BY <2>1, <2>2 DEF Uninvoiced
<1>3. ASSUME NEW v \in Worker, session' = [session EXCEPT ![v] = Idle]
      PROVE  session'[w] = session[w]
  BY <1>0, <1>3 DEF Idle
<1>4. ASSUME NEW v \in Worker, NEW id, NEW becomes, ReadStatus(v, id, becomes)
      PROVE  session'[w] = session[w]
  <2>1. session' = [session EXCEPT ![v] = [doing |-> "assign", id |-> id, becomes |-> becomes]]
    BY <1>4 DEF ReadStatus
  <2>2. v # w
    BY <1>0, <2>1
  <2> QED BY <1>0, <2>1, <2>2
<1>5. ASSUME NEW v \in Worker, NEW period \in Period,
             ReadUninvoiced(v, period[1], period[2]), v # w
      PROVE  session'[w] = session[w]
  BY <1>0, <1>5 DEF ReadUninvoiced
<1>6. \/ session' = session
      \/ \E v \in Worker : session' = [session EXCEPT ![v] = Idle]
      \/ \E v \in Worker, id \in DOMAIN invoices, becomes \in {"ISSUED", "PAID"} :
           ReadStatus(v, id, becomes)
      \/ \E v \in Worker, period \in Period : ReadUninvoiced(v, period[1], period[2])
  BY DEF BillingNext, InvoiceRequest, billingVars, NextDay, UpsertPriceList, ChargeService,
      RunDailyStorage, CommitInvoice, AssignStatus
<1> QED BY <1>1, <1>2, <1>3, <1>4, <1>5, <1>6

LEMMA GrowStep ==
  ASSUME BillingInv, AmountsInv, EventsGrow, Len(invoices') = Len(invoices),
         \A i \in 1 .. Len(invoices) :
           invoices'[i].billed = invoices[i].billed /\ Backed(event, invoices'[i])
  PROVE  /\ \A i \in 1 .. Len(invoices') : Backed(event', invoices'[i])
         /\ \A k \in DOMAIN event' : event'[k].invoice # NoInvoice =>
              k \in invoices'[event'[k].invoice].billed
<1>1. \A i \in 1 .. Len(invoices') : Backed(event', invoices'[i])
  <2> SUFFICES ASSUME NEW i \in 1 .. Len(invoices) PROVE Backed(event', invoices'[i])
    OBVIOUS
  <2>1. Backed(event, invoices'[i]) /\ IsFiniteSet(DOMAIN event)
    BY DEF AmountsInv
  <2> QED BY <2>1, BackedKept DEF EventsGrow
<1>2. ASSUME NEW k \in DOMAIN event', event'[k].invoice # NoInvoice
      PROVE  k \in invoices'[event'[k].invoice].billed
  <2>1. k \in DOMAIN event /\ event'[k] = event[k]
    BY <1>2 DEF EventsGrow
  <2>2. event[k].invoice \in 1 .. Len(invoices)
    <3>1. event[k] \in Event /\ event[k].invoice <= Len(invoices)
      BY <2>1 DEF BillingInv, TablesOK
    <3>2. Len(invoices) \in Nat
      BY LedgeredLen DEF BillingInv, TablesOK
    <3> QED BY <1>2, <2>1, <3>1, <3>2, BillingAssumption DEF Event, NoInvoice
  <2> QED BY <1>2, <2>1, <2>2 DEF AmountsInv
<1> QED BY <1>1, <1>2

LEMMA CommitAmounts ==
  ASSUME BillingInv, AmountsInv, NEW w \in Worker, CommitInvoice(w)
  PROVE  /\ IsFiniteSet(DOMAIN event')
         /\ \A i \in 1 .. Len(invoices') : Backed(event', invoices'[i])
         /\ \A k \in DOMAIN event' : event'[k].invoice # NoInvoice =>
              k \in invoices'[event'[k].invoice].billed
<1> DEFINE s == session[w]
           id == Len(invoices) + 1
<1>1. PICK tax \in TaxesOn(AmountOf(s.keys)) : invoices' = Append(invoices, InvoiceOf(s, tax))
  BY DEF CommitInvoice
<1>2. /\ TablesOK /\ Ledgered(invoices) /\ Len(invoices) \in Nat /\ IsFiniteSet(DOMAIN event)
      /\ \A k \in DOMAIN event : event[k] \in Event /\ event[k].invoice \in 0 .. Len(invoices)
  <2>1. TablesOK /\ Ledgered(invoices) /\ Len(invoices) \in Nat /\ IsFiniteSet(DOMAIN event)
    BY LedgeredLen DEF BillingInv, TablesOK, AmountsInv
  <2> QED BY <2>1, BillingAssumption DEF TablesOK, Event
<1>3. s \in Request /\ s.doing = "generate" /\ s.keys \subseteq DOMAIN event
  BY DEF CommitInvoice, BillingInv, TablesOK, ReadsAreNew
<1>4. \A k \in s.keys : k.date \in s.start .. s.end
  BY <1>3 DEF AmountsInv
<1> DEFINE inv == InvoiceOf(s, tax)
<1>5. Backed(event, inv) /\ inv.billed = s.keys
      /\ {"billed", "after", "status"} \subseteq DOMAIN inv
  <2>1. Backed(event, inv)
    BY <1>2, <1>3, <1>4, BackedNew
  <2> QED BY <2>1 DEF InvoiceOf
<1> HIDE DEF inv
<1>6. /\ Len(invoices') = id
      /\ invoices'[id] = inv
      /\ \A i \in 1 .. Len(invoices) : invoices'[i] = invoices[i]
  BY <1>1, <1>2, <1>5, AppendLedgered DEF inv
<1>7. event' = Linked(s, id) /\ id \in InvoiceId
  BY DEF CommitInvoice
<1> HIDE DEF s
<1>8. /\ DOMAIN event' = DOMAIN event
      /\ \A k \in DOMAIN event :
           /\ event'[k] \in Event
           /\ event'[k].invoice = IF k \in s.keys THEN id ELSE event[k].invoice
           /\ [event'[k] EXCEPT !.invoice = 0] = [event[k] EXCEPT !.invoice = 0]
  BY <1>2, <1>7, LinkedEvents
<1>9. \A k \in DOMAIN event :
        event'[k].quantity = event[k].quantity /\ event'[k].total = event[k].total
  <2> SUFFICES ASSUME NEW k \in DOMAIN event
               PROVE  event'[k].quantity = event[k].quantity /\ event'[k].total = event[k].total
    OBVIOUS
  <2>1. PICK a, b : a = event[k] /\ b = event'[k]
    OBVIOUS
  <2>2. a \in Event /\ b \in Event
    BY <1>2, <1>8, <2>1
  <2>3. [b EXCEPT !.invoice = 0] = [a EXCEPT !.invoice = 0]
    BY <1>8, <2>1
  <2>4. /\ [b EXCEPT !.invoice = 0].quantity = b.quantity
        /\ [a EXCEPT !.invoice = 0].quantity = a.quantity
        /\ [b EXCEPT !.invoice = 0].total = b.total
        /\ [a EXCEPT !.invoice = 0].total = a.total
    BY <2>2 DEF Event
  <2> QED BY <2>1, <2>3, <2>4
<1>10. ASSUME NEW i \in 1 .. id PROVE Backed(event', invoices'[i])
  <2>1. Backed(event, invoices'[i])
    <3>1. CASE i = id
      BY <1>5, <1>6, <3>1
    <3>2. CASE i # id
      BY <1>2, <1>6, <3>2 DEF AmountsInv
    <3> QED BY <3>1, <3>2
  <2> QED BY <1>2, <1>8, <1>9, <2>1, BackedKept
<1>11. ASSUME NEW k \in DOMAIN event, event'[k].invoice # NoInvoice
       PROVE  k \in invoices'[event'[k].invoice].billed
  <2>1. CASE k \in s.keys
    BY <1>5, <1>6, <1>8, <2>1
  <2>2. CASE k \notin s.keys
    <3>1. event'[k].invoice = event[k].invoice /\ event[k].invoice \in 1 .. Len(invoices)
      <4>1. event'[k].invoice = event[k].invoice /\ event[k].invoice \in 0 .. Len(invoices)
        BY <1>2, <1>8, <2>2
      <4> QED BY <1>2, <1>11, <4>1 DEF NoInvoice
    <3> QED BY <1>6, <1>11, <3>1 DEF AmountsInv
  <2> QED BY <2>1, <2>2
<1> QED BY <1>2, <1>6, <1>8, <1>10, <1>11

\* Only the status of an invoice is ever assigned.
LEMMA AssignAmounts ==
  ASSUME BillingInv, AmountsInv, NEW w \in Worker, AssignStatus(w)
  PROVE  /\ Len(invoices') = Len(invoices)
         /\ \A i \in 1 .. Len(invoices) :
              invoices'[i].billed = invoices[i].billed /\ Backed(event, invoices'[i])
<1> DEFINE id == session[w].id
           value == session[w].becomes
<1>1. /\ id \in 1 .. Len(invoices) /\ value \in {"ISSUED", "PAID"} /\ Ledgered(invoices)
      /\ invoices' = [invoices EXCEPT ![id].status = value]
  <2>1. session[w] \in Request /\ session[w].doing = "assign"
    BY DEF AssignStatus, BillingInv, TablesOK
  <2>2. value \in {"ISSUED", "PAID"}
    BY <2>1 DEF Request, Idle
  <2> QED BY <2>1, <2>2 DEF AssignStatus, BillingInv, TablesOK
<1> HIDE DEF id, value
<1>2. DOMAIN invoices = 1 .. Len(invoices) /\ DOMAIN invoices' = DOMAIN invoices
  BY <1>1, LedgeredLen
<1>3. Len(invoices') = Len(invoices)
  <2> DEFINE t == [invoices EXCEPT ![id].status = value]
  <2>1. Len(t) = Len(invoices)
    BY <1>1, StatusLedgered
  <2>2. invoices' = t
    BY <1>1
  <2> HIDE DEF t
  <2> QED BY <2>1, <2>2
<1>4. ASSUME NEW i \in 1 .. Len(invoices)
      PROVE  invoices'[i].billed = invoices[i].billed /\ Backed(event, invoices'[i])
  <2>1. Backed(event, invoices[i])
    BY DEF AmountsInv
  <2>2. CASE i = id
    <3>1. invoices'[i] = [invoices[i] EXCEPT !.status = value]
      BY <1>1, <1>2, <2>2
    <3>2. PICK inv : inv = invoices[i] /\ invoices'[i] = [inv EXCEPT !.status = value]
      BY <3>1
    <3>3. Backed(event, [inv EXCEPT !.status = value])
      BY <1>1, <2>1, <3>2, BackedStatus
    <3>4. Backed(event, invoices'[i])
      BY <3>2, <3>3
    <3> QED BY <2>1, <3>1, <3>4 DEF Backed, Invoice
  <2>3. CASE i # id
    BY <1>1, <1>2, <2>1, <2>3
  <2> QED BY <2>2, <2>3
<1> QED BY <1>3, <1>4

LEMMA AmountsStep ==
  BillingInv /\ AmountsInv /\ [BillingNext]_billingVars => AmountsInv'
<1> SUFFICES ASSUME BillingInv, AmountsInv, [BillingNext]_billingVars PROVE AmountsInv'
  OBVIOUS
<1>1. \A w \in Worker : session'[w].doing = "generate" =>
        \A k \in session'[w].keys : k.date \in session'[w].start .. session'[w].end
  BY PeriodStep DEF AmountsInv
<1>2. /\ IsFiniteSet(DOMAIN event')
      /\ \A i \in 1 .. Len(invoices') : Backed(event', invoices'[i])
      /\ \A k \in DOMAIN event' : event'[k].invoice # NoInvoice =>
           k \in invoices'[event'[k].invoice].billed
  <2>1. CASE \E w \in Worker : CommitInvoice(w)
    BY <2>1, CommitAmounts
  <2>2. CASE EventsGrow /\ \E w \in Worker : AssignStatus(w)
    <3>1. /\ Len(invoices') = Len(invoices)
          /\ \A i \in 1 .. Len(invoices) :
               invoices'[i].billed = invoices[i].billed /\ Backed(event, invoices'[i])
      BY <2>2, AssignAmounts
    <3> QED BY <2>2, <3>1, GrowStep DEF EventsGrow
  <2>3. CASE EventsGrow /\ invoices' = invoices
    <3>1. /\ Len(invoices') = Len(invoices)
          /\ \A i \in 1 .. Len(invoices) :
               invoices'[i].billed = invoices[i].billed /\ Backed(event, invoices'[i])
      BY <2>3 DEF AmountsInv
    <3> QED BY <2>3, <3>1, GrowStep DEF EventsGrow
  <2> QED BY <2>1, <2>2, <2>3, EventsStepCases DEF AmountsInv
<1> QED BY <1>1, <1>2 DEF AmountsInv

LEMMA AmountsInitially == BillingInit => AmountsInv
<1> SUFFICES ASSUME BillingInit PROVE AmountsInv
  OBVIOUS
<1>1. DOMAIN event = {} /\ Len(invoices) = 0
  BY EmptySeq DEF BillingInit
<1>2. \A w \in Worker : session[w].doing = "nothing"
  BY DEF BillingInit, Idle
<1> QED BY <1>1, <1>2, FS_EmptySet DEF AmountsInv

LEMMA AmountsInvariant == BillingSpec => []AmountsInv
BY AmountsInitially, AmountsStep, BillingInvariant, PTL DEF BillingSpec

-----------------------------------------------------------------------------
(* Types, and lines that can be traced to events *)

\* Events, invoices and the requests under way keep their types, the amounts
\* on the lines of an invoice included.
THEOREM BillingTypes == BillingSpec => []BillingTypeOK
<1>1. BillingInv /\ AmountsInv => BillingTypeOK
  BY DomainOfInvoices DEF BillingInv, TablesOK, AmountsInv, Backed, BillingTypeOK
<1> QED BY <1>1, BillingInvariant, AmountsInvariant, PTL

\* Whatever is charged, priced or invoiced after it, the events linked to an
\* invoice are of its period and amount to its lines and its subtotal, until
\* an invoice that overlapped with it takes over some of the links.
THEOREM OnlyOverlapLosesTraces == BillingSpec => []UntraceableOnlyByOverlap
<1>1. BillingInv /\ AmountsInv => UntraceableOnlyByOverlap
  <2> SUFFICES ASSUME BillingInv, AmountsInv, NEW i \in 1 .. Len(invoices),
                      \A j \in 1 .. Len(invoices) :
                        ~ (/\ j > i /\ invoices[j].after < i
                           /\ invoices[i].billed \cap invoices[j].billed # {})
               PROVE  Traceable(i)
    BY DomainOfInvoices DEF UntraceableOnlyByOverlap
  <2>1. Len(invoices) \in Nat
    BY LedgeredLen DEF BillingInv, TablesOK
  <2>2. Backed(event, invoices[i])
    BY DEF AmountsInv
  <2>3. LinkedTo(i) \subseteq invoices[i].billed
    BY <2>1 DEF LinkedTo, AmountsInv, NoInvoice
  <2>4. invoices[i].billed \subseteq LinkedTo(i)
    <3> SUFFICES ASSUME NEW k \in invoices[i].billed, event[k].invoice # i
                 PROVE  FALSE
      BY <2>2 DEF Backed, LinkedTo
    <3> DEFINE j == event[k].invoice
    <3>1. k \in DOMAIN event /\ j >= i
      BY DEF BillingInv, BilledIsLinked
    <3>2. j \in Nat /\ j <= Len(invoices)
      BY <3>1 DEF BillingInv, TablesOK, Event
    <3>3. j \in 1 .. Len(invoices) /\ j > i
      BY <2>1, <3>1, <3>2
    <3>4. k \in invoices[j].billed
      BY <3>1, <3>3 DEF AmountsInv, NoInvoice
    <3>5. invoices[j].after \in Nat
      BY <3>3 DEF AmountsInv, Backed, Invoice
    <3>6. invoices[j].after < i
      BY <3>3, <3>4, <3>5 DEF BillingInv, OverlapOnly
    <3> QED BY <3>3, <3>4, <3>6
  <2>5. LinkedTo(i) = invoices[i].billed
    BY <2>3, <2>4
  <2> QED BY <2>2, <2>5, FiguresAreLines DEF Backed, Traceable
<1> QED BY <1>1, BillingInvariant, AmountsInvariant, PTL

-----------------------------------------------------------------------------
(* Sums that are rounded part by part *)

LEMMA TypesFinite == IsFiniteSet(EventType)
<1> DEFINE all == {"INBOUND_LINE"} \cup {"DISPATCH_ORDER"} \cup {"PRINT_LABEL"}
                    \cup {"STORAGE_DAY"}
<1>1. IsFiniteSet(all)
  BY FS_Singleton, FS_Union
<1>2. EventType \subseteq all
  BY BillingAssumption DEF EventType
<1> HIDE DEF all
<1> QED BY <1>1, <1>2, FS_Subset

\* A sum of amounts rounded to the cent misses the amount of all by no more
\* than half a cent for each.
LEMMA RoundedSum ==
  ASSUME NEW f, NEW c, NEW S, IsFiniteSet(S),
         \A x \in S : /\ f[x] \in Int /\ c[x] \in Int
                      /\ -50 <= 100 * c[x] - f[x] /\ 100 * c[x] - f[x] <= 50
  PROVE  /\ -(50 * Cardinality(S)) <= 100 * SumFunctionOnSet(c, S) - SumFunctionOnSet(f, S)
         /\ 100 * SumFunctionOnSet(c, S) - SumFunctionOnSet(f, S) <= 50 * Cardinality(S)
<1> DEFINE Near(C, F, n) == -(50 * n) <= 100 * C - F /\ 100 * C - F <= 50 * n
           Ok(s) == Near(SumFunctionOnSet(c, s), SumFunctionOnSet(f, s), Cardinality(s))
           B == {s \in SUBSET S : ~Ok(s)}
<1>1. ASSUME B # {} PROVE FALSE
  <2>1. PICK s \in B : \A x \in s : s \ {x} \notin B
    <3> HIDE DEF Ok
    <3> QED BY <1>1, SmallestSet
  <2>2. s # {} /\ IsFiniteSet(s) /\ s \subseteq S
    <3>1. Ok({})
      BY SumEmpty, FS_EmptySet
    <3> HIDE DEF Ok
    <3> QED BY <2>1, <3>1, FS_Subset
  <2>3. PICK x \in s : TRUE
    BY <2>2
  <2> DEFINE t == s \ {x}
  <2>4. Ok(t) /\ IsFiniteSet(t) /\ t \subseteq S
    <3> HIDE DEF Ok
    <3> QED BY <2>1, <2>2, <2>3, FS_Subset
  <2>5. /\ SumFunctionOnSet(c, s) = c[x] + SumFunctionOnSet(c, t)
        /\ SumFunctionOnSet(f, s) = f[x] + SumFunctionOnSet(f, t)
        /\ Cardinality(s) = Cardinality(t) + 1
        /\ Cardinality(t) \in Nat
    <3>1. \A y \in s : c[y] \in Int /\ f[y] \in Int
      BY <2>2
    <3>2. Cardinality(t) = Cardinality(s) - 1 /\ Cardinality(s) \in Nat /\ Cardinality(t) \in Nat
      BY <2>2, <2>3, <2>4, FS_RemoveElement, FS_CardinalityType
    <3> QED BY <2>2, <2>3, <3>1, <3>2, SumAny
  <2>6. SumFunctionOnSet(c, t) \in Int /\ SumFunctionOnSet(f, t) \in Int
    BY <2>4, SumInt
  <2>7. Ok(s)
    <3>1. x \in S
      BY <2>2, <2>3
    <3> HIDE DEF t
    <3> QED BY <2>4, <2>5, <2>6, <3>1
  <2> QED
    <3> HIDE DEF Ok
    <3> QED BY <2>1, <2>7
<1>2. Ok(S)
  <2> HIDE DEF Ok
  <2> QED BY <1>1
<1> QED BY <1>2

\* What the events amount to is what they amount to type by type.
LEMMA SumByType ==
  ASSUME NEW f, NEW S, IsFiniteSet(S),
         \A k \in S : f[k] \in Int /\ k.type \in EventType
  PROVE  SumFunctionOnSet(f, S)
           = SumFunctionOnSet([type \in EventType |-> SumFunctionOnSet(f, OfType(S, type))],
                              EventType)
<1> DEFINE Part(s) == [type \in EventType |-> SumFunctionOnSet(f, OfType(s, type))]
           Ok(s) == SumFunctionOnSet(f, s) = SumFunctionOnSet(Part(s), EventType)
           B == {s \in SUBSET S : ~Ok(s)}
<1>0. ASSUME NEW s \in SUBSET S
      PROVE  /\ IsFiniteSet(s) /\ SumFunctionOnSet(f, s) \in Int
             /\ \A type \in EventType : Part(s)[type] \in Int
  <2>1. \A u \in SUBSET S : IsFiniteSet(u) /\ SumFunctionOnSet(f, u) \in Int
    BY FS_Subset, SumInt
  <2>2. \A type : OfType(s, type) \in SUBSET S
    BY DEF OfType
  <2> QED BY <2>1, <2>2
<1>1. ASSUME B # {} PROVE FALSE
  <2>1. PICK s \in B : \A x \in s : s \ {x} \notin B
    <3> HIDE DEF Ok
    <3> QED BY <1>1, SmallestSet
  <2>2. s # {} /\ s \in SUBSET S
    <3>1. \A type : OfType({}, type) = {}
      BY DEF OfType
    <3>2. \A type \in EventType : Part({})[type] = 0
      BY <3>1, SumEmpty
    <3> HIDE DEF Part
    <3>3. Ok({})
      BY <3>2, SumEmpty, SumZero, TypesFinite
    <3> HIDE DEF Ok
    <3> QED BY <2>1, <3>3
  <2>3. PICK x \in s : TRUE
    BY <2>2
  <2> DEFINE t == s \ {x}
  <2>4. Ok(t) /\ t \in SUBSET S
    <3> HIDE DEF Ok
    <3> QED BY <2>1, <2>2, <2>3
  <2>5. SumFunctionOnSet(f, s) = f[x] + SumFunctionOnSet(f, t)
    <3>1. IsFiniteSet(s) /\ \A y \in s : f[y] \in Int
      BY <1>0, <2>2
    <3> QED BY <2>3, <3>1, SumAny
  <2>6. \A type \in EventType \ {x.type} : Part(s)[type] = Part(t)[type]
    <3>1. \A type : type # x.type => OfType(s, type) = OfType(t, type)
      BY DEF OfType
    <3> QED BY <3>1
  <2>7. x.type \in EventType /\ Part(s)[x.type] = f[x] + Part(t)[x.type]
    <3>1. /\ x \in OfType(s, x.type) /\ OfType(s, x.type) \ {x} = OfType(t, x.type)
          /\ OfType(s, x.type) \in SUBSET S /\ x.type \in EventType
      BY <2>2, <2>3 DEF OfType
    <3>2. /\ IsFiniteSet(OfType(s, x.type))
          /\ \A y \in OfType(s, x.type) : f[y] \in Int
      BY <1>0, <3>1
    <3>3. SumFunctionOnSet(f, OfType(s, x.type)) = f[x] + SumFunctionOnSet(f, OfType(t, x.type))
      <4>1. PICK u, v : u = OfType(s, x.type) /\ v = OfType(t, x.type)
        OBVIOUS
      <4>2. IsFiniteSet(u) /\ x \in u /\ u \ {x} = v /\ \A y \in u : f[y] \in Int
        BY <3>1, <3>2, <4>1
      <4>3. SumFunctionOnSet(f, u) = f[x] + SumFunctionOnSet(f, v)
        BY <4>2, SumAny
      <4> QED BY <4>1, <4>3
    <3> QED BY <3>1, <3>3
  <2>8. /\ \A type \in EventType : Part(s)[type] \in Int /\ Part(t)[type] \in Int
        /\ SumFunctionOnSet(f, t) \in Int /\ f[x] \in Int
    BY <1>0, <2>2, <2>3, <2>4
  <2>9. Ok(s)
    <3> HIDE DEF t, Part
    <3>1. SumFunctionOnSet(Part(s), EventType)
            = SumFunctionOnSet(Part(t), EventType) + (Part(s)[x.type] - Part(t)[x.type])
      BY <2>6, <2>7, <2>8, SumChange, TypesFinite
    <3>2. Part(t)[x.type] \in Int
      BY <2>7, <2>8
    <3> QED BY <2>4, <2>5, <2>7, <2>8, <3>1, <3>2
  <2> QED
    <3> HIDE DEF Ok
    <3> QED BY <2>1, <2>9
<1>2. Ok(S)
  <2> HIDE DEF Ok
  <2> QED BY <1>1
<1> QED BY <1>2

-----------------------------------------------------------------------------
(* Invoices add up *)

\* The lines of an invoice that are printed are those of the types of which it
\* bills an event.
LEMMA LinesUsed ==
  ASSUME NEW e, IsFiniteSet(DOMAIN e), \A k \in DOMAIN e : e[k] \in Event,
         NEW inv, Backed(e, inv)
  PROVE  \A type \in EventType :
           LET part == OfType(inv.billed, type)
           IN  /\ Amount(e, part) \in Nat
               /\ inv.lines[type].quantity \in Nat
               /\ inv.lines[type].total = Cents(Amount(e, part))
               /\ ~(inv.lines[type].quantity > 0) => Amount(e, part) = 0
<1> SUFFICES ASSUME NEW type \in EventType
             PROVE  /\ Amount(e, OfType(inv.billed, type)) \in Nat
                    /\ inv.lines[type].quantity \in Nat
                    /\ inv.lines[type].total = Cents(Amount(e, OfType(inv.billed, type)))
                    /\ ~(inv.lines[type].quantity > 0)
                         => Amount(e, OfType(inv.billed, type)) = 0
  OBVIOUS
<1>1. PICK part : part = OfType(inv.billed, type)
  OBVIOUS
<1>2. part \in SUBSET DOMAIN e
  BY <1>1 DEF Backed, OfType
<1>3. IsFiniteSet(part)
  BY <1>2, FS_Subset
<1>4. /\ Pieces(e, part) \in Nat /\ Amount(e, part) \in Nat
      /\ Pieces(e, part) = 0 => part = {}
  BY <1>2, <1>3, AmountsAreNat
<1>5. Amount(e, {}) = 0
  BY SumEmpty DEF Amount
<1>6. inv.lines[type] = Figures(e, part)
  BY <1>1 DEF Backed
<1>7. /\ inv.lines[type].quantity = Pieces(e, part)
      /\ inv.lines[type].total = Cents(Amount(e, part))
  BY <1>6 DEF Figures
<1> QED BY <1>1, <1>4, <1>5, <1>7

\* What the lines amount to is what the events do.
LEMMA LinesAmount ==
  ASSUME NEW e, IsFiniteSet(DOMAIN e), \A k \in DOMAIN e : e[k] \in Event,
         NEW keys \in SUBSET DOMAIN e, keys \subseteq EventKey,
         NEW used \in SUBSET EventType,
         \A type \in EventType \ used : Amount(e, OfType(keys, type)) = 0
  PROVE  Amount(e, keys)
           = SumFunctionOnSet([type \in EventType |-> Amount(e, OfType(keys, type))], used)
<1> DEFINE f == [k \in keys |-> e[k].total]
           parts == [type \in EventType |-> SumFunctionOnSet(f, OfType(keys, type))]
           amounts == [type \in EventType |-> Amount(e, OfType(keys, type))]
<1>1. IsFiniteSet(keys) /\ \A k \in keys : f[k] \in Int /\ k.type \in EventType
  <2>1. IsFiniteSet(keys)
    BY FS_Subset
  <2>2. \A k \in keys : e[k].total \in Nat
    BY DEF Event
  <2> QED BY <2>1, <2>2 DEF EventKey
<1>2. \A type \in EventType : parts[type] = amounts[type]
  <2> SUFFICES ASSUME NEW type \in EventType
               PROVE  SumFunctionOnSet(f, OfType(keys, type)) = Amount(e, OfType(keys, type))
    OBVIOUS
  <2>1. PICK part : part = OfType(keys, type)
    OBVIOUS
  <2>2. part \subseteq keys
    BY <2>1 DEF OfType
  <2>3. IsFiniteSet(part)
    BY <1>1, <2>2, FS_Subset
  <2>4. \A k \in part : f[k] = [x \in part |-> e[x].total][k]
    BY <2>2
  <2>5. SumFunctionOnSet(f, part) = SumFunctionOnSet([x \in part |-> e[x].total], part)
    BY <2>3, <2>4, SumAgree
  <2> QED BY <2>1, <2>5 DEF Amount
<1>3. \A type \in EventType : amounts[type] \in Int
  <2>1. \A type : OfType(keys, type) \in SUBSET keys
    BY DEF OfType
  <2>2. \A u \in SUBSET keys : IsFiniteSet(u) /\ u \in SUBSET DOMAIN e
    BY <1>1, FS_Subset
  <2>3. \A u \in SUBSET keys : Amount(e, u) \in Int
    BY <2>2, AmountsAreNat
  <2> QED BY <2>1, <2>3
<1>4. Amount(e, keys) = SumFunctionOnSet(f, keys)
  BY DEF Amount
<1> HIDE DEF f
<1>5. SumFunctionOnSet(f, keys) = SumFunctionOnSet(parts, EventType)
  BY <1>1, SumByType
<1>6. \A type \in EventType \ used : amounts[type] = 0
  OBVIOUS
<1> HIDE DEF parts, amounts
<1>7. SumFunctionOnSet(parts, EventType) = SumFunctionOnSet(amounts, EventType)
  BY <1>2, SumAgree, TypesFinite
<1>8. SumFunctionOnSet(amounts, EventType) = SumFunctionOnSet(amounts, used)
  BY <1>3, <1>6, SumSupport, TypesFinite
<1> QED BY <1>4, <1>5, <1>7, <1>8 DEF amounts

LEMMA BackedAddsUp ==
  ASSUME NEW e, IsFiniteSet(DOMAIN e), \A k \in DOMAIN e : e[k] \in Event,
         NEW inv, Backed(e, inv)
  PROVE  LET used == {type \in EventType : inv.lines[type].quantity > 0}
             byLine == SumFunctionOnSet([type \in used |-> inv.lines[type].total], used)
             bound == Cardinality(used) + 1
         IN  /\ inv.total = inv.subtotal + inv.tax
             /\ 2 * (inv.subtotal - byLine) \in -bound .. bound
<1> DEFINE used == {type \in EventType : inv.lines[type].quantity > 0}
           lines == [type \in used |-> inv.lines[type].total]
           amounts == [type \in EventType |-> Amount(e, OfType(inv.billed, type))]
           all == Amount(e, inv.billed)
           n == Cardinality(used)
           byLine == SumFunctionOnSet(lines, used)
<1>1. all \in Nat
  <2>1. inv.billed \in SUBSET DOMAIN e
    BY DEF Backed
  <2>2. IsFiniteSet(inv.billed)
    BY <2>1, FS_Subset
  <2> QED BY <2>1, <2>2, AmountsAreNat
<1>2. inv.subtotal = Cents(all) /\ inv.total = Cents(all + 100 * inv.tax) /\ inv.tax \in Nat
  BY DEF Backed, Invoice
<1>3. \A type \in EventType :
        /\ amounts[type] \in Nat
        /\ inv.lines[type].total = Cents(amounts[type])
        /\ type \notin used => amounts[type] = 0
  BY LinesUsed
<1>4. used \in SUBSET EventType /\ IsFiniteSet(used)
  BY TypesFinite, FS_Subset
<1>5. all = SumFunctionOnSet(amounts, used)
  <2>1. inv.billed \in SUBSET DOMAIN e /\ inv.billed \subseteq EventKey
    BY DEF Backed, Invoice
  <2>2. \A type \in EventType \ used : Amount(e, OfType(inv.billed, type)) = 0
    BY <1>3
  <2> HIDE DEF used
  <2> QED BY <1>4, <2>1, <2>2, LinesAmount
<1>6. \A type \in used : /\ amounts[type] \in Int /\ lines[type] \in Int
                         /\ -50 <= 100 * lines[type] - amounts[type]
                         /\ 100 * lines[type] - amounts[type] <= 50
  <2>1. \A type \in used : lines[type] = Cents(amounts[type]) /\ amounts[type] \in Nat
    BY <1>3
  <2> HIDE DEF lines, amounts, used
  <2>2. \A a \in Nat : /\ Cents(a) \in Int
                       /\ -50 <= 100 * Cents(a) - a /\ 100 * Cents(a) - a <= 50
    BY CentsNear
  <2> QED BY <2>1, <2>2
<1> HIDE DEF lines, amounts, all, used
<1>7. /\ -(50 * n) <= 100 * byLine - all /\ 100 * byLine - all <= 50 * n
      /\ byLine \in Int /\ n \in Nat
  BY <1>4, <1>5, <1>6, RoundedSum, SumInt, FS_CardinalityType
<1>8. /\ Cents(all) \in Nat
      /\ -50 <= 100 * Cents(all) - all /\ 100 * Cents(all) - all <= 50
      /\ inv.total = inv.subtotal + inv.tax
  BY <1>1, <1>2, CentsNear
<1> HIDE DEF n, byLine
<1>9. 2 * (inv.subtotal - byLine) \in -(n + 1) .. (n + 1)
  <2>1. PICK c : c = Cents(all)
    OBVIOUS
  <2> QED BY <1>1, <1>2, <1>7, <1>8, <2>1
<1> QED BY <1>8, <1>9 DEF n, byLine, lines, used

\* Amounts are rounded one by one, and still every invoice is its subtotal and
\* its tax to the cent, with lines that miss the subtotal by half a cent each at
\* most and one half more.
THEOREM InvoicesAddUp == BillingSpec => []InvoiceAddsUp
<1>1. BillingInv /\ AmountsInv => InvoiceAddsUp
  <2> SUFFICES ASSUME BillingInv, AmountsInv PROVE InvoiceAddsUp
    OBVIOUS
  <2>1. /\ IsFiniteSet(DOMAIN event) /\ \A k \in DOMAIN event : event[k] \in Event
        /\ \A i \in DOMAIN invoices : Backed(event, invoices[i])
    BY DomainOfInvoices DEF BillingInv, TablesOK, AmountsInv
  <2> QED BY <2>1, BackedAddsUp DEF InvoiceAddsUp
<1> QED BY <1>1, BillingInvariant, AmountsInvariant, PTL

=============================================================================
