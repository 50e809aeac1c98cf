-------------------------------- MODULE Charges --------------------------------
(***************************************************************************)
(* The table billing_events as the handlers of the warehouse fill it, and  *)
(* the date the server reads.  An event is unique in type, reference and   *)
(* date, so what was charged for a document once can be charged for it     *)
(* again on any later day.                                                 *)
(***************************************************************************)
EXTENDS Inventory

CONSTANT LastDay   \* bound: days 0 .. LastDay

ASSUME ChargesAssumption == LastDay \in Nat

VARIABLES
  charge,     \* billing_events of the client
  today       \* the UTC date

Day == 0 .. LastDay
NoDay == -1

ChargeType == {"INBOUND_LINE", "PRINT_LABEL", "DISPATCH_ORDER"}
Charge == [type : ChargeType, reference : Reference, date : Day, quantity : Nat \ {0}]

\* The unique key of billing_events is taken.
Charged(type, ref) ==
  \E c \in charge : c.type = type /\ c.reference = ref /\ c.date = today

Event(type, ref, quantity) ==
  [type |-> type, reference |-> ref, date |-> today, quantity |-> quantity]

\* create_billing_event: the event, and everything else in the session of
\* the caller, is committed if the key is free.  If it is taken, the commit
\* fails, the session is rolled back and the caller goes on.
AddCharge(type, ref, quantity) ==
  /\ ~Charged(type, ref)
  /\ charge' = charge \cup {Event(type, ref, quantity)}

ChargesFor(type, ref) == {c \in charge : c.type = type /\ c.reference = ref}

NextDay ==
  /\ today < LastDay
  /\ today' = today + 1
  /\ UNCHANGED <<stockVars, charge>>

=============================================================================
