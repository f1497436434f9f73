----------------------------- MODULE FeeVouchers -----------------------------
(***************************************************************************)
(* The fee ledger of one academic session: fee plans, vouchers, payments.  *)
(* src/src/server/services/fees.service.ts over PostgreSQL.                *)
(*                                                                         *)
(* Every transaction of the code runs at READ COMMITTED and takes no lock  *)
(* of its own, so each statement sees whatever is committed when it runs.  *)
(* A handler is therefore split where another transaction can come in:     *)
(* its checks, and each statement whose answer a later one depends on. Row *)
(* locks are those PostgreSQL takes for an UPDATE, held until commit.      *)
(*                                                                         *)
(* A clerk is one request in flight (two tabs of one person are two        *)
(* clerks). A voucher is <<student, k>>: the k-th issued to that student.  *)
(***************************************************************************)
EXTENDS FeesPolicy, Sequences

CONSTANTS Students, Clerks, Payments,
          Admission,   \* the batch of fee lines written with the admission
          None,        \* no voucher, payment or ledger entry
          Fees,        \* the fee forms the office sends: [gross, concession]
          Amounts,     \* the payments it takes
          FineRules,   \* the values of the late-fine setting
          DueDates,    \* the due dates a run may set, NoDueDate among them
          Batch,       \* vouchers per transaction of a run (25 in the code)
          LastDay,     \* bound: days that pass
          MaxBills     \* bound: vouchers issued to one student

ASSUME ManyAssumption == IsFiniteSet(Clerks) /\ IsFiniteSet(Payments)
ASSUME FeesAssumption == Fees \subseteq [gross : Nat, concession : Nat]
ASSUME AmountsAssumption == Amounts \subseteq Nat \ {0}
ASSUME RulesAssumption == FineRules \subseteq Nat /\ FineRules # {}
ASSUME DatesAssumption == DueDates \subseteq Nat \cup {NoDueDate}
ASSUME BoundsAssumption == Batch \in Nat \ {0} /\ LastDay \in Nat /\ MaxBills \in Nat
ASSUME NamesAssumption ==
  /\ Admission \notin Clerks
  /\ None \notin Payments \cup Students \cup Fees \cup (Students \X (Nat \ {0}))

VARIABLES
  day,        \* today on the college calendar
  lateFine,   \* the setting fees.late_fine_paisa
  admitted,   \* the students that exist
  feeLines,   \* student_fee_lines: per student, the total of each batch
  concession, \* students.fee_discount_paisa
  bills,      \* fee_vouchers: per student, the rows issued so far
  payment,    \* fee_payments: [voucher, amount, voided]
  told,       \* vouchers whose family was notified of the bill as it stands
  task,       \* the request each clerk has in flight
  fresh,      \* history: clerks settling a bill nobody changed since they read it
  clean       \* history: vouchers last settled by such a clerk

ledger == <<bills, payment>>
plans == <<admitted, feeLines, concession>>
history == <<fresh, clean>>
vars == <<day, lateFine, plans, ledger, told, task, history>>

\* A row as the table's CHECK constraint fee_vouchers_amounts_are_sane has it.
Bill == {b \in [gross : Nat, discount : Nat, fine : Nat, paid : Nat,
                due : Nat \cup {NoDueDate}, status : Statuses, cancelled : BOOLEAN] :
           b.discount <= b.gross}

Vouchers == Students \X (Nat \ {0})
Issued == UNION {{<<s, k>> : k \in DOMAIN bills[s]} : s \in Students}
Row(v) == bills[v[1]][v[2]]

Live(bill) == bill.status # "CANCELLED"
LiveOf(s) == {k \in DOMAIN bills[s] : Live(bills[s][k])}

\* Faulty variant of IndexAllows: the partial unique index was never created.
NoIndex(s, k, bill) == TRUE

\* fee_vouchers_student_id_academic_session_id_live_key: may row k of student
\* s be written (or inserted) with this bill?
IndexAllows(s, k, bill) == Live(bill) => LiveOf(s) \subseteq {k}

Entry == [voucher : Vouchers, amount : Nat, voided : BOOLEAN]
Unrecorded == [voucher |-> None, amount |-> 0, voided |-> FALSE]
Recorded == {p \in Payments : payment[p].voucher # None}

\* The payments of `ps` on v that have not been voided, and what they come to.
LivePayments(ps, v) ==
  {<<p, ps[p].amount>> : p \in {q \in Payments : ps[q].voucher = v /\ ~ps[q].voided}}
PaidOn(v) == SumOf(LivePayments(payment, v))

---------------------------------------------------------------------------
\* Requests in flight.

Stages == {"idle", "void", "read", "sum", "write", "cancel",
           "find", "lock", "issue", "notify"}

\* at: the statement the request is about to run. s/v: its student, voucher.
\* pay/entry: the ledger row its transaction has written, not yet committed.
\* fee/replaced: the form of setStudentFeePlan, and the lines its DELETE saw.
\* today/rule: read before the transaction. seen/paid: what settling has read.
\* todo/due: the bills a run still has to issue. tell: whom to notify.
Idle == [at |-> "idle", s |-> None, v |-> None, pay |-> None, entry |-> Unrecorded,
         fee |-> None, replaced |-> {}, today |-> 0, rule |-> 0, seen |-> None,
         paid |-> 0, todo |-> {}, due |-> NoDueDate, tell |-> {}]

\* The transaction's own view of payments and of its voucher's row.
OwnPayments(t) == IF t.pay = None THEN payment ELSE [payment EXCEPT ![t.pay] = t.entry]

\* Faulty variant of Rebilled: the concession on the bill is left as it was.
RebilledGrossOnly(bill, fee) == [bill EXCEPT !.gross = fee.gross]

Rebilled(bill, fee) == [bill EXCEPT !.gross = fee.gross,
                                    !.discount = DiscountFor(fee.gross, fee.concession)]

OwnRow(t) == IF t.fee = None THEN Row(t.v) ELSE Rebilled(Row(t.v), t.fee)

\* A re-billing holds its voucher's row from the first UPDATE to the commit.
RowLocked(v) == \E c \in Clerks : /\ task[c].fee # None
                                  /\ task[c].v = v
                                  /\ task[c].at \in {"sum", "write"}

\* The student's row, from setStudentFeePlan's UPDATE to its commit.
StudentLocked(s) == \E c \in Clerks : /\ task[c].fee # None
                                      /\ task[c].s = s
                                      /\ task[c].at \in {"lock", "sum", "write"}

\* A payment's row, from its INSERT or voidPayment's UPDATE to the commit.
PaymentLocked(p) == \E c \in Clerks : /\ task[c].pay = p
                                      /\ task[c].at \in {"read", "sum", "write"}

Advance(c, t) == task' = [task EXCEPT ![c] = t]

\* Committing a change to v overtakes every clerk that has read it.
Overtake(v) == fresh' = {c \in fresh : task[c].v # v}

---------------------------------------------------------------------------
Init ==
  /\ day = 0
  /\ lateFine \in FineRules
  /\ admitted = {}
  /\ feeLines = [s \in Students |-> [b \in Clerks \cup {Admission} |-> 0]]
  /\ concession = [s \in Students |-> 0]
  /\ bills = [s \in Students |-> <<>>]
  /\ payment = [p \in Payments |-> Unrecorded]
  /\ told = {}
  /\ task = [c \in Clerks |-> Idle]
  /\ fresh = {}
  /\ clean = {}

Tick ==
  /\ day < LastDay
  /\ day' = day + 1
  /\ UNCHANGED <<lateFine, plans, ledger, told, task, history>>

UpdateFeeRules ==
  /\ lateFine' \in FineRules
  /\ UNCHANGED <<day, plans, ledger, told, task, history>>

\* createFeeLinesForAdmission, inside the transaction that creates the student.
Admit(s) ==
  /\ s \notin admitted
  /\ admitted' = admitted \cup {s}
  /\ \E fee \in Fees :
       /\ feeLines' = [feeLines EXCEPT ![s][Admission] = fee.gross]
       /\ concession' = [concession EXCEPT ![s] = fee.concession]
  /\ UNCHANGED <<day, lateFine, ledger, told, task, history>>

---------------------------------------------------------------------------
\* recordPayment: the check, then the transaction's INSERT.
StartPayment(c) ==
  /\ task[c] = Idle
  /\ \E v \in Issued, p \in Payments \ Recorded, amount \in Amounts :
       /\ CanRecordPayment(Row(v))
       /\ ~PaymentLocked(p)
       /\ Advance(c, [Idle EXCEPT !.at = "read", !.v = v, !.pay = p,
                        !.entry = [voucher |-> v, amount |-> amount, voided |-> FALSE],
                        !.today = day, !.rule = lateFine])
  /\ UNCHANGED <<day, lateFine, plans, ledger, told, history>>

\* Faulty variant of CheckVoid: the mistake is voided by zeroing its amount.
CheckVoidByZero(c) ==
  /\ task[c] = Idle
  /\ \E p \in Recorded :
       /\ CanVoidPayment(payment[p])
       /\ Advance(c, [Idle EXCEPT !.at = "void", !.v = payment[p].voucher, !.pay = p,
                        !.entry = [payment[p] EXCEPT !.voided = TRUE, !.amount = 0],
                        !.today = day, !.rule = lateFine])
  /\ UNCHANGED <<day, lateFine, plans, ledger, told, history>>

\* voidPayment: the check; then the UPDATE that takes the payment's row. A
\* second void of one payment passes the check and waits for the first.
CheckVoid(c) ==
  /\ task[c] = Idle
  /\ \E p \in Recorded :
       /\ CanVoidPayment(payment[p])
       /\ Advance(c, [Idle EXCEPT !.at = "void", !.v = payment[p].voucher, !.pay = p,
                        !.entry = [payment[p] EXCEPT !.voided = TRUE],
                        !.today = day, !.rule = lateFine])
  /\ UNCHANGED <<day, lateFine, plans, ledger, told, history>>

TakePayment(c) ==
  /\ task[c].at = "void"
  /\ ~PaymentLocked(task[c].pay)
  /\ Advance(c, [task[c] EXCEPT !.at = "read"])
  /\ UNCHANGED <<day, lateFine, plans, ledger, told, history>>

\* recomputeVoucher, its first statement: the voucher's row.
ReadRow(c) ==
  /\ task[c].at = "read"
  /\ Advance(c, [task[c] EXCEPT !.at = "sum", !.seen = OwnRow(task[c])])
  /\ fresh' = fresh \cup {c}
  /\ UNCHANGED <<day, lateFine, plans, ledger, told, clean>>

\* Faulty variant of SumPayments: it asks outside the transaction, and misses
\* the transaction's own entry.
SumPaymentsOutside(c) ==
  /\ task[c].at = "sum"
  /\ Advance(c, [task[c] EXCEPT !.at = "write",
                   !.paid = SumOf(LivePayments(payment, task[c].v))])
  /\ UNCHANGED <<day, lateFine, plans, ledger, told, history>>

\* Its second: the aggregate over the payments that have not been voided.
SumPayments(c) ==
  /\ task[c].at = "sum"
  /\ Advance(c, [task[c] EXCEPT !.at = "write",
                   !.paid = SumOf(LivePayments(OwnPayments(task[c]), task[c].v))])
  /\ UNCHANGED <<day, lateFine, plans, ledger, told, history>>

\* Faulty variant of FineFor: the fine is worked out anew each time.
FineAnew(t) == IF t.paid = 0 THEN 0 ELSE LateFineDue(t.seen, 0, t.today, t.rule)

\* What its third writes: paid, fine and status, worked out from what it read.
FineFor(t) ==
  IF t.paid = 0 THEN 0
  ELSE IF t.seen.fine > 0 THEN t.seen.fine
  ELSE LateFineDue(t.seen, 0, t.today, t.rule)

\* Faulty variant of Settled: the status is left to the next request.
SettledLater(t) == [OwnRow(t) EXCEPT !.paid = t.paid, !.fine = FineFor(t)]

Settled(t) ==
  LET asRead == [t.seen EXCEPT !.paid = t.paid, !.fine = FineFor(t)]
  IN  [OwnRow(t) EXCEPT !.paid = t.paid, !.fine = FineFor(t),
                        !.status = StatusFor(asRead, t.seen.cancelled)]

\* Its third statement and the commit. A status that would make a second bill
\* live breaks the unique index, and the whole transaction is rolled back.
RejectedByIndex(c) ==
  /\ task[c].at = "write"
  /\ ~IndexAllows(task[c].v[1], task[c].v[2], Settled(task[c]))
  /\ Advance(c, Idle)
  /\ fresh' = fresh \ {c}
  /\ UNCHANGED <<day, lateFine, plans, ledger, told, clean>>

WriteBill(c) ==
  LET t == task[c] IN
  /\ t.at = "write"
  /\ IndexAllows(t.v[1], t.v[2], Settled(t))
  /\ bills' = [bills EXCEPT ![t.v[1]][t.v[2]] = Settled(t)]
  /\ Overtake(t.v)
  /\ clean' = IF c \in fresh THEN clean \cup {t.v} ELSE clean \ {t.v}

\* The commit of recordPayment (which then notifies) and of voidPayment.
CommitPayment(c) ==
  LET t == task[c] IN
  /\ t.pay # None
  /\ ~RowLocked(t.v)
  /\ WriteBill(c)
  /\ payment' = OwnPayments(t)
  /\ Advance(c, IF t.entry.voided THEN Idle
                ELSE [Idle EXCEPT !.at = "notify", !.tell = {t.v}])
  /\ UNCHANGED <<day, lateFine, plans, told>>

---------------------------------------------------------------------------
\* cancelVoucher: the check, then an UPDATE that looks at nothing again.
CheckCancel(c) ==
  /\ task[c] = Idle
  /\ \E v \in Issued :
       /\ CanCancelVoucher(Row(v))
       /\ Advance(c, [Idle EXCEPT !.at = "cancel", !.v = v])
  /\ UNCHANGED <<day, lateFine, plans, ledger, told, history>>

CommitCancel(c) ==
  LET v == task[c].v IN
  /\ task[c].at = "cancel"
  /\ ~RowLocked(v)
  /\ bills' = [bills EXCEPT ![v[1]][v[2]].status = "CANCELLED",
                            ![v[1]][v[2]].cancelled = TRUE]
  /\ Overtake(v)
  /\ Advance(c, Idle)
  /\ UNCHANGED <<day, lateFine, plans, payment, told, clean>>

---------------------------------------------------------------------------
\* setStudentFeePlan. Its transaction first deletes the lines it can see and
\* writes the form's; then, with the student's row in hand, looks for the live
\* voucher and, if there is one, re-bills it.
StartPlan(c) ==
  /\ task[c] = Idle
  /\ \E s \in admitted, fee \in Fees :
       Advance(c, [Idle EXCEPT !.at = "find", !.s = s, !.fee = fee,
                     !.replaced = {b \in DOMAIN feeLines[s] : feeLines[s][b] > 0},
                     !.today = day, !.rule = lateFine])
  /\ UNCHANGED <<day, lateFine, plans, ledger, told, history>>

\* The lines and concession as the transaction of clerk c leaves them.
WritePlan(c) ==
  LET t == task[c] IN
  /\ feeLines' = [feeLines EXCEPT ![t.s] =
       [b \in DOMAIN @ |-> IF b = c THEN t.fee.gross
                           ELSE IF b \in t.replaced THEN 0 ELSE @[b]]]
  /\ concession' = [concession EXCEPT ![t.s] = t.fee.concession]
  /\ UNCHANGED admitted

NoLiveBill(c) ==
  LET t == task[c] IN
  /\ t.at = "find"
  /\ ~StudentLocked(t.s)
  /\ LiveOf(t.s) = {}
  /\ WritePlan(c)
  /\ Advance(c, Idle)
  /\ UNCHANGED <<day, lateFine, ledger, told, history>>

\* The family is told when what it owes moved, against the row found here.
FindLiveBill(c) ==
  LET t == task[c] IN
  /\ t.at = "find"
  /\ ~StudentLocked(t.s)
  /\ \E k \in LiveOf(t.s) :
       LET was == bills[t.s][k]
           moved == NetPayable(Rebilled(was, t.fee)) # NetPayable(was)
       IN Advance(c, [t EXCEPT !.at = "lock", !.v = <<t.s, k>>,
                               !.tell = IF moved THEN {<<t.s, k>>} ELSE {}])
  /\ UNCHANGED <<day, lateFine, plans, ledger, told, history>>

\* The UPDATE of the charges takes the voucher's row, as it now stands, and
\* recomputeVoucher reads it back.
LockBill(c) ==
  /\ task[c].at = "lock"
  /\ ~RowLocked(task[c].v)
  /\ Advance(c, [task[c] EXCEPT !.at = "sum", !.seen = OwnRow(task[c])])
  /\ fresh' = fresh \cup {c}
  /\ UNCHANGED <<day, lateFine, plans, ledger, told, clean>>

CommitPlan(c) ==
  /\ task[c].fee # None
  /\ WriteBill(c)
  /\ WritePlan(c)
  /\ Advance(c, IF task[c].tell = {} THEN Idle
                ELSE [Idle EXCEPT !.at = "notify", !.tell = task[c].tell])
  /\ UNCHANGED <<day, lateFine, payment, told>>

---------------------------------------------------------------------------
\* runVouchers: who has a fee and no live bill is read once; any part of them
\* may be asked for (a section, a class, the first `limit`).
Billable == {s \in admitted :
  ShouldBillForSession(\E b \in DOMAIN feeLines[s] : feeLines[s][b] > 0, LiveOf(s) # {})}

BillOf(s) ==
  LET gross == TotalOfLines(feeLines[s])
  IN  [s |-> s, gross |-> gross, discount |-> DiscountFor(gross, concession[s])]

\* The bound MaxBills: bills issued to s and bills that runs at work may issue.
Issuable(s) ==
  Len(bills[s]) + Cardinality({c \in Clerks : \E b \in task[c].todo : b.s = s}) < MaxBills

StartRun(c) ==
  /\ task[c] = Idle
  /\ \E chosen \in SUBSET {s \in Billable : Issuable(s)}, due \in DueDates :
       /\ chosen # {}
       /\ Advance(c, [Idle EXCEPT !.at = "issue", !.due = due,
                                  !.todo = {BillOf(s) : s \in chosen}])
  /\ UNCHANGED <<day, lateFine, plans, ledger, told, history>>

NewBill(b, due) ==
  [gross |-> b.gross, discount |-> b.discount, fine |-> 0, paid |-> 0,
   due |-> due, status |-> "UNPAID", cancelled |-> FALSE]

NextNumber(s) == Len(bills[s]) + 1

\* The bills a run's next transaction issues, in the order of student codes.
Batches(todo) == {b \in SUBSET todo :
  Cardinality(b) = IF Cardinality(todo) < Batch THEN Cardinality(todo) ELSE Batch}

\* One transaction of the run. The code counter's row keeps two from mixing.
IssueBatch(c) ==
  LET t == task[c] IN
  /\ t.at = "issue"
  /\ t.todo # {}
  /\ \E batch \in Batches(t.todo) :
       LET made == {b.s : b \in batch}
           billFor(s) == NewBill(CHOOSE b \in batch : b.s = s, t.due)
       IN /\ \A s \in made : IndexAllows(s, NextNumber(s), billFor(s))
          /\ bills' = [s \in Students |->
                         IF s \in made THEN Append(bills[s], billFor(s)) ELSE bills[s]]
          /\ clean' = clean \cup {<<s, NextNumber(s)>> : s \in made}
          /\ Advance(c, [t EXCEPT !.todo = @ \ batch,
                           !.tell = @ \cup {<<s, NextNumber(s)>> : s \in made}])
  /\ UNCHANGED <<day, lateFine, plans, payment, told, fresh>>

\* Faulty variant of RunRejected: the broken index is swallowed and tried again.
RunRetries(c) ==
  /\ task[c].at = "issue"
  /\ \E batch \in Batches(task[c].todo) : \E b \in batch : LiveOf(b.s) # {}
  /\ UNCHANGED vars

\* A student of the batch was billed meanwhile: the insert breaks the unique
\* index, that transaction is rolled back and the run ends in an error.
RunRejected(c) ==
  /\ task[c].at = "issue"
  /\ \E batch \in Batches(task[c].todo) : \E b \in batch : LiveOf(b.s) # {}
  /\ Advance(c, Idle)
  /\ UNCHANGED <<day, lateFine, plans, ledger, told, history>>

RunDone(c) ==
  /\ task[c].at = "issue"
  /\ task[c].todo = {}
  /\ Advance(c, [task[c] EXCEPT !.at = "notify"])
  /\ UNCHANGED <<day, lateFine, plans, ledger, told, history>>

\* notify, after the commit and outside the transaction.
Notify(c) ==
  /\ task[c].at = "notify"
  /\ told' = told \cup task[c].tell
  /\ Advance(c, Idle)
  /\ UNCHANGED <<day, lateFine, plans, ledger, history>>

\* The host stops the request: its open transaction is rolled back.
Stopped(c) ==
  /\ task[c] # Idle
  /\ Advance(c, Idle)
  /\ fresh' = fresh \ {c}
  /\ UNCHANGED <<day, lateFine, plans, ledger, told, clean>>

---------------------------------------------------------------------------
Settling(c) == ReadRow(c) \/ SumPayments(c) \/ RejectedByIndex(c) \/ CommitPayment(c)
Paying(c) == StartPayment(c) \/ CheckVoid(c) \/ TakePayment(c)
Cancelling(c) == CheckCancel(c) \/ CommitCancel(c)
Planning(c) == StartPlan(c) \/ NoLiveBill(c) \/ FindLiveBill(c) \/ LockBill(c) \/ CommitPlan(c)
Running(c) == StartRun(c) \/ IssueBatch(c) \/ RunRejected(c) \/ RunDone(c)

Next ==
  \/ Tick
  \/ UpdateFeeRules
  \/ \E s \in Students : Admit(s)
  \/ \E c \in Clerks :
       \/ Settling(c) \/ Paying(c) \/ Cancelling(c) \/ Planning(c) \/ Running(c)
       \/ Notify(c) \/ Stopped(c)

Spec == Init /\ [][Next]_vars

---------------------------------------------------------------------------
\* What holds however many clerks work at once.

\* Types of the stored rows and of the requests in flight.
TypeOK ==
  /\ day \in 0..LastDay
  /\ lateFine \in FineRules
  /\ admitted \subseteq Students
  /\ feeLines \in [Students -> [Clerks \cup {Admission} -> Nat]]
  /\ concession \in [Students -> Nat]
  /\ bills \in [Students -> Seq(Bill)]
  /\ payment \in [Payments -> Entry \cup {Unrecorded}]
  /\ told \subseteq Vouchers
  /\ fresh \subseteq Clerks
  /\ clean \subseteq Vouchers

\* Nobody is billed twice for a year: two runs, or a run and a cancelled bill
\* brought back by a late settlement, never leave a student two live vouchers.
OneLiveVoucher ==
  \A s \in Students : \A j, k \in LiveOf(s) : j = k

\* The row of v says what its payments come to, and the status that follows.
IsSettled(v) ==
  /\ Row(v).paid = PaidOn(v)
  /\ Row(v).status = StatusFor(Row(v), Row(v).cancelled)

\* recomputeVoucher is right whenever nobody committed a change to the voucher
\* between its first read and its write, whatever happened to it before: a
\* settlement that is not overtaken repairs what an overtaken one left behind.
CleanIsSettled == \A v \in Issued : v \in clean => IsSettled(v)

\* A payment is never edited, deleted or moved, and a void never taken back,
\* whichever transactions overlap.
LedgerAppendOnly ==
  [][\A p \in Recorded : /\ payment'[p].voucher = payment[p].voucher
                         /\ payment'[p].amount = payment[p].amount
                         /\ payment[p].voided => payment'[p].voided]_vars

---------------------------------------------------------------------------
\* What holds while requests come one at a time, and what the code's comments
\* say without that condition.

\* paid_paisa is "the sum of payments that have not been voided", and the
\* status is the one that follows from it.
EveryBillSettled == \A v \in Issued : IsSettled(v)

\* "The live voucher follows the fee": what is charged is what the plan says.
LiveBillFollowsPlan ==
  \A s \in Students : \A k \in LiveOf(s) :
    LET gross == TotalOfLines(feeLines[s])
    IN  /\ bills[s][k].gross = gross
        /\ bills[s][k].discount = DiscountFor(gross, concession[s])

\* A fee plan is replaced whole: the lines of one form at a time.
PlanIsOneForm ==
  \A s \in Students : \A a, b \in DOMAIN feeLines[s] :
    feeLines[s][a] > 0 /\ feeLines[s][b] > 0 => a = b

\* What a family is charged is one fee form and nothing else: the rows are of
\* their types, the plan is a single form's, and the live bill is that plan's, "The
\* live voucher follows the fee" (fees.service.ts:281). The schema says otherwise, see
\* AmountsFrozenAtIssue.
BillsFollowPlan == TypeOK /\ PlanIsOneForm /\ LiveBillFollowsPlan

\* "The amounts are frozen at the moment it is issued" (schema.prisma:1170; so too
\* 1184-1187, DATABASE_SCHEMA.md:793): what a voucher charges before any fine never
\* changes. The code does not promise it any more: setStudentFeePlan re-bills.
AmountsFrozenAtIssue ==
  [][\A v \in Issued : Row(v)'.gross = Row(v).gross /\ Row(v)'.discount = Row(v).discount]_vars

\* A withdrawn bill has no payment standing against it.
WithdrawnHoldsNoMoney ==
  \A v \in Issued : Row(v).cancelled => LivePayments(payment, v) = {}

\* A cancelled voucher is left alone, whatever the office does to the plan.
CancelledIsFinal ==
  [][\A v \in Issued : Row(v).cancelled => Row(v)' = Row(v)]_vars

\* Once money has been taken against a late voucher its fine stays what it
\* was, through any payment, void or re-billing that leaves money on it.
FineIsFrozen ==
  [][\A v \in Issued : Row(v).fine > 0 /\ Row(v)'.paid > 0
                         => Row(v)'.fine = Row(v).fine]_vars

\* What has been written on a bill for good stays: a cancellation, and the fine
\* of a bill that money has been taken against.
StaysAsWritten == CancelledIsFinal /\ FineIsFrozen

\* Faulty variant of ShownFine: the rule of today, whatever fine was frozen.
ShownRuleOnly(bill, today, rule) == LateFineDue(bill, bill.paid, today, rule)

\* The fine the screens add to a row (toRow), and what they say is owed.
ShownFine(bill, today, rule) ==
  IF bill.fine > 0 THEN bill.fine ELSE LateFineDue(bill, bill.paid, today, rule)

ShownOutstanding(bill, today, rule) ==
  IF bill.status = "CANCELLED" THEN 0
  ELSE Outstanding([bill EXCEPT !.fine = ShownFine(bill, today, rule)])

\* A family that pays exactly what the screen asks for is settled in full, the fine
\* the settlement works out being the one the screen showed: none, the one of today's
\* rule, or the one an earlier payment froze under a rule that may have changed.
PayingWhatIsShownSettles ==
  [][\A c \in Clerks, v \in Issued :
       /\ task[c].at = "write" /\ task[c].pay # None /\ task[c].v = v
       /\ task'[c].at = "notify"
       /\ task[c].entry.amount = ShownOutstanding(Row(v), task[c].today, task[c].rule)
       => Row(v)'.status = "PAID"]_vars

---------------------------------------------------------------------------
\* A request the host does not stop goes on to its end. A waiter for a row is
\* served in its turn (PostgreSQL queues them), hence strong fairness.
Proceeds(c) ==
  \/ TakePayment(c) \/ Settling(c) \/ CommitCancel(c)
  \/ NoLiveBill(c) \/ FindLiveBill(c) \/ LockBill(c) \/ CommitPlan(c)
  \/ IssueBatch(c) \/ RunRejected(c) \/ RunDone(c) \/ Notify(c)

FairSpec == Spec /\ \A c \in Clerks : SF_vars(Proceeds(c))

\* No set of requests waits on one another's rows for ever.
RequestsEnd == \A c \in Clerks : task[c].at # "idle" ~> task[c].at = "idle"
=============================================================================
