----------------------------- MODULE FeesPolicy -----------------------------
(***************************************************************************)
(* The pure rules of src/src/server/fees/fees-policy.ts: what a year's     *)
(* bill comes to, where it stands, and what may still be done to it.       *)
(*                                                                         *)
(* A bill is a record with the money columns of one fee_vouchers row:      *)
(* gross, discount, fine, paid (integers, in paisa), due (a day or         *)
(* NoDueDate), status, and cancelled (whether cancelled_at is set).        *)
(***************************************************************************)
EXTENDS Integers, FiniteSets

Statuses == {"UNPAID", "PARTIALLY_PAID", "PAID", "CANCELLED"}

\* due_date IS NULL: the ordinary case, the college has set no date.
NoDueDate == -1

AtLeastZero(n) == IF n < 0 THEN 0 ELSE n

\* The amounts of the pairs <<id, amount>> added up, counted paisa by paisa:
\* SQL's SUM, which over no row is NULL and is read as nought.
SumOf(pairs) == Cardinality(UNION {{x} \X (1 .. x[2]) : x \in pairs})

\* The year's fee before any concession. `lines` gives each batch of fee
\* lines written together the total of its amounts (0: no such batch).
TotalOfLines(lines) == SumOf({<<b, lines[b]>> : b \in DOMAIN lines})

\* The concession is capped at the fee; a bill never turns negative.
DiscountFor(gross, concession) ==
  IF concession <= 0 THEN 0
  ELSE IF concession < AtLeastZero(gross) THEN concession ELSE AtLeastZero(gross)

NetPayable(bill) == AtLeastZero(bill.gross - bill.discount + bill.fine)

Outstanding(bill) == AtLeastZero(NetPayable(bill) - bill.paid)

StatusFor(bill, cancelled) ==
  IF cancelled THEN "CANCELLED"
  ELSE IF bill.paid <= 0 THEN "UNPAID"
  ELSE IF bill.paid >= NetPayable(bill) THEN "PAID" ELSE "PARTIALLY_PAID"

\* The late fine owed today by a bill on which `paid` has come in. The caller
\* says how much that is: the screen passes what was paid, a settlement 0.
LateFineDue(bill, paid, today, rule) ==
  IF /\ ~bill.cancelled
     /\ bill.due # NoDueDate
     /\ rule > 0
     /\ today > bill.due
     /\ AtLeastZero(bill.gross - bill.discount) - paid > 0
  THEN rule ELSE 0

\* Faulty variant of CanCancelVoucher: it does not ask whether money came in.
CanCancelAnyLive(bill) == bill.status # "CANCELLED"

CanCancelVoucher(bill) == bill.status # "CANCELLED" /\ bill.paid <= 0

CanRecordPayment(bill) == bill.status \notin {"CANCELLED", "PAID"}

CanVoidPayment(entry) == ~entry.voided

ShouldBillForSession(hasFeeLines, alreadyBilled) == hasFeeLines /\ ~alreadyBilled
=============================================================================
