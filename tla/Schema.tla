-------------------------------- MODULE Schema --------------------------------
(***************************************************************************)
(* What the database and its driver accept, as far as the handlers of the  *)
(* backend can run into it: the range of an INTEGER column, the width of   *)
(* the two VARCHAR columns that hold composed identifiers, and what the    *)
(* driver's JSON encoder does with a UUID.  A statement the database       *)
(* refuses raises in the handler, and the request leaves nothing behind.   *)
(***************************************************************************)
EXTENDS Integers

CONSTANTS
  MaxQty,            \* largest value of a quantity column (2^31 - 1 in Postgres)
  ReferenceIdWidth,  \* width of inventory_ledger.reference_id
  EntityIdWidth,     \* width of audit_logs.entity_id
  JsonEncodesUuid    \* does the JSON encoder of the driver accept a UUID?

ASSUME SchemaAssumption ==
  /\ MaxQty \in Nat \ {0}
  /\ ReferenceIdWidth \in Nat
  /\ EntityIdWidth \in Nat
  /\ JsonEncodesUuid \in BOOLEAN

\* The length of str(uuid), and of f"{from_location_id}->{to_location_id}".
UuidLength == 36
PairIdLength == UuidLength + 2 + UuidLength

\* A ledger row whose reference_id has length n can be inserted.
FitsReferenceId(n) == n <= ReferenceIdWidth

\* An audit row whose entity_id has length n can be inserted.
FitsEntityId(n) == n <= EntityIdWidth

\* audit_log(after = _to_out(row).model_dump()): the dump holds UUID objects.
DumpIsEncodable == JsonEncodesUuid

=============================================================================
