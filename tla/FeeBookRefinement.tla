-------------------------- MODULE FeeBookRefinement --------------------------
(***************************************************************************)
(* FeeVouchers read as the book of FeeBook: what is charged is kept as it  *)
(* is stored, the plan is what its lines add up to, and the paid and       *)
(* status columns are dropped (EveryBillSettled says what they hold).      *)
(***************************************************************************)
EXTENDS FeeVouchers

PlanOf(s) == [gross |-> TotalOfLines(feeLines[s]), concession |-> concession[s]]
Plans == [s \in Students |-> PlanOf(s)]

ChargeOf(bill) == [gross |-> bill.gross, discount |-> bill.discount, fine |-> bill.fine,
                   due |-> bill.due, withdrawn |-> bill.cancelled]
Charges == [s \in Students |-> [k \in DOMAIN bills[s] |-> ChargeOf(bills[s][k])]]

Book == INSTANCE FeeBook WITH plan <- Plans, charge <- Charges, receipt <- payment

\* Requests that come one at a time are operations on the book, each at the
\* instant its transaction commits, whatever the host stops on the way.
ImplementsBook == Book!Spec
=============================================================================
