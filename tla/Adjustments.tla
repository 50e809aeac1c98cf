------------------------------ MODULE Adjustments ------------------------------
(***************************************************************************)
(* Stock that changes without a shipment or an order: customer returns     *)
(* (routes_returns.py) and reported discrepancies between count and books  *)
(* (routes_discrepancies.py).  An action is one request, as in Outbound.   *)
(***************************************************************************)
EXTENDS Inventory

CONSTANTS
  NumReturns, NumReports,
  MaxScrapped   \* bound: pieces scrapped in one return

Return == 1 .. NumReturns
Report == 1 .. NumReports
ReturnReference(r) == <<"RETURN", r>>
DiscrepancyReference(d) == <<"DISCREPANCY", d>>

ASSUME AdjustmentsAssumption ==
  /\ NumReturns \in Nat /\ NumReports \in Nat /\ MaxScrapped \in Nat
  /\ \A r \in Return : ReturnReference(r) \in Reference
  /\ \A d \in Report : DiscrepancyReference(d) \in Reference

VARIABLES
  returns,   \* returns: [Return -> status]
  returned,  \* return_lines that hold stock: [Return -> [disposition -> [Key -> qty]]]
  scrapped,  \* return_lines with disposition SCRAP: [Return -> qty]
  report     \* discrepancy_reports

adjustVars == <<returns, returned, scrapped, report>>
adjustmentsVars == <<balance, ledger, returns, returned, scrapped, report>>

Disposition == {"RESTOCK", "QUARANTINE"}
NoReport == [status |-> "NONE"]
ReportOf(k, counted, system, status) ==
  [status |-> status, key |-> k, system_qty |-> system, counted_qty |-> counted,
   delta_qty |-> counted - system]

-----------------------------------------------------------------------------
(* routes_returns.py *)

CreateReturn(r) ==
  /\ returns[r] = "NONE"
  /\ DumpIsEncodable
  /\ returns' = [returns EXCEPT ![r] = "RECEIVED"]
  /\ UNCHANGED <<stockVars, returned, scrapped, report>>

\* Mutant: quarantined stock is not posted.
PostReturned_OnlyRestock(r, disposition, k, q) ==
  /\ CanPost(balance, At(k, q))
  /\ IF disposition = "RESTOCK"
     THEN /\ balance' = Posted(balance, At(k, q))
          /\ ledger' = Recorded(ledger, ReturnReference(r), At(k, q))
     ELSE UNCHANGED stockVars

PostReturned(r, disposition, k, q) ==
  /\ CanPost(balance, At(k, q))
  /\ balance' = Posted(balance, At(k, q))
  /\ ledger' = Recorded(ledger, ReturnReference(r), At(k, q))

\* scan_line, RESTOCK or QUARANTINE: into any location of the warehouse and
\* any batch the request names, in any status of the return.
ReturnToStock(r, disposition, k, q) ==
  /\ returns[r] # "NONE"
  /\ PostReturned(r, disposition, k, q)
  /\ returned' = [returned EXCEPT ![r][disposition][k] = @ + q]
  /\ UNCHANGED <<returns, scrapped, report>>

\* scan_line, SCRAP: a line and no stock.
Scrap(r, q) ==
  /\ returns[r] # "NONE"
  /\ scrapped[r] + q <= MaxScrapped
  /\ scrapped' = [scrapped EXCEPT ![r] = @ + q]
  /\ UNCHANGED <<stockVars, returns, returned, report>>

\* complete_return: status and document in one commit.
CompleteReturn(r) ==
  /\ returns[r] # "NONE"
  /\ returns' = [returns EXCEPT ![r] = "CLOSED"]
  /\ UNCHANGED <<stockVars, returned, scrapped, report>>

-----------------------------------------------------------------------------
(* routes_discrepancies.py *)

\* create_discrepancy: the difference is fixed now, whatever happens until a
\* supervisor decides.  Reports of one row may be pending side by side.
CreateDiscrepancy(d, k, counted) ==
  /\ report[d] = NoReport
  /\ HasRow(k)
  /\ DumpIsEncodable
  /\ report' = [report EXCEPT ![d] = ReportOf(k, counted, balance[k].on_hand, "PENDING")]
  /\ UNCHANGED <<stockVars, returns, returned, scrapped>>

\* Mutant: the row is set to the quantity that was counted.
AdjustmentOf_Counted(d) ==
  At(report[d].key, report[d].counted_qty - balance[report[d].key].on_hand)

AdjustmentOf(d) == At(report[d].key, report[d].delta_qty)

\* Mutant: a report may be decided twice.
CanDecide_Always(d) == report[d] # NoReport

CanDecide(d) == report[d].status = "PENDING"

\* approve_discrepancy: the difference is posted if it is not zero.
ApproveDiscrepancy(d) ==
  /\ CanDecide(d)
  /\ CanPost(balance, AdjustmentOf(d))
  /\ balance' = Posted(balance, AdjustmentOf(d))
  /\ ledger' = Recorded(ledger, DiscrepancyReference(d), AdjustmentOf(d))
  /\ report' = [report EXCEPT ![d].status = "APPROVED"]
  /\ UNCHANGED <<returns, returned, scrapped>>

RejectDiscrepancy(d) ==
  /\ CanDecide(d)
  /\ report' = [report EXCEPT ![d].status = "REJECTED"]
  /\ UNCHANGED <<stockVars, returns, returned, scrapped>>

-----------------------------------------------------------------------------

NothingAdjusted ==
  /\ returns = [r \in Return |-> "NONE"]
  /\ returned = [r \in Return |-> [d \in Disposition |-> [k \in Key |-> 0]]]
  /\ scrapped = [r \in Return |-> 0]
  /\ report = [d \in Report |-> NoReport]

AdjustmentsInit ==
  /\ balance = [k \in Key |-> ZeroRow]
  /\ ledger = [ref \in Reference |-> [k \in Key |-> NoFlow]]
  /\ NothingAdjusted

ReturnRequest(r) ==
  \/ CreateReturn(r)
  \/ \E disposition \in Disposition, k \in Key, q \in 1 .. MaxQty :
       ReturnToStock(r, disposition, k, q)
  \/ \E q \in 1 .. MaxQty : Scrap(r, q)
  \/ CompleteReturn(r)

ReportRequest(d) ==
  \/ \E k \in Key, counted \in 0 .. MaxQty : CreateDiscrepancy(d, k, counted)
  \/ ApproveDiscrepancy(d)
  \/ RejectDiscrepancy(d)

AdjustmentsNext ==
  \/ \E r \in Return : ReturnRequest(r)
  \/ \E d \in Report : ReportRequest(d)

AdjustmentsSpec == AdjustmentsInit /\ [][AdjustmentsNext]_adjustmentsVars

-----------------------------------------------------------------------------
(* Properties *)

AdjustmentsTypeOK ==
  /\ StockTypeOK
  /\ returns \in [Return -> {"NONE", "RECEIVED", "CLOSED"}]
  /\ returned \in [Return -> [Disposition -> [Key -> Nat]]]
  /\ scrapped \in [Return -> 0 .. MaxScrapped]
  /\ \A d \in Report : report[d] # NoReport =>
       report[d] \in [status : {"PENDING", "APPROVED", "REJECTED"}, key : Key,
                      system_qty : 0 .. MaxQty, counted_qty : 0 .. MaxQty,
                      delta_qty : -MaxQty .. MaxQty]

\* "No adjustment is applied without approval": the ledger rows of a report
\* are its difference, once, if it was approved, and none otherwise.
AdjustedOnlyIfApproved ==
  \A d \in Report, k \in Key :
    LET flow == ledger[DiscrepancyReference(d)][k]
    IN  flow.in - flow.out =
          IF report[d] # NoReport /\ report[d].status = "APPROVED"
          THEN (IF k = report[d].key THEN report[d].delta_qty ELSE 0)
          ELSE 0

\* What the lines of a return put back or quarantined is what its ledger rows
\* brought in, location by location; what was scrapped never reaches the books.
ReturnsAreBooked ==
  \A r \in Return, k \in Key :
    /\ ledger[ReturnReference(r)][k].in
         = returned[r]["RESTOCK"][k] + returned[r]["QUARANTINE"][k]
    /\ ledger[ReturnReference(r)][k].out = 0

\* Approval corrects what was counted and nothing else: what has moved in or
\* out of the row between the count and the decision stays moved.
LateApprovalKeepsMovements ==
  [][ \A d \in Report :
        report[d] # report'[d] /\ report'[d].status = "APPROVED" =>
          LET k == report[d].key
          IN  balance'[k].on_hand - report[d].counted_qty
                = balance[k].on_hand - report[d].system_qty ]_adjustmentsVars

=============================================================================
