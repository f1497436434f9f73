------------------------------- MODULE FeeBook -------------------------------
(***************************************************************************)
(* What the fee ledger promises, with every operation of the office        *)
(* happening at one instant: a bill holds what is charged, and what is     *)
(* paid on it and where it stands are read off the payments, never kept.   *)
(*                                                                         *)
(* FeeVouchers implements this while requests come one at a time.          *)
(***************************************************************************)
EXTENDS FeesPolicy, Sequences

CONSTANTS Students, Payments, None, Fees, Amounts, FineRules, DueDates

VARIABLES day,     \* today
          plan,    \* per student: what the year costs, [gross, concession]
          charge,  \* per student: the bills, [gross, discount, fine, due, withdrawn]
          receipt  \* per payment: [voucher, amount, voided]

book == <<day, plan, charge, receipt>>

Charge(v) == charge[v[1]][v[2]]
Bills == UNION {{<<s, k>> : k \in DOMAIN charge[s]} : s \in Students}
Standing(s) == {k \in DOMAIN charge[s] : ~charge[s][k].withdrawn}

Receipts(rs, v) ==
  {<<p, rs[p].amount>> : p \in {q \in Payments : rs[q].voucher = v /\ ~rs[q].voided}}

PaidUp(v) ==
  LET paid == SumOf(Receipts(receipt, v)) IN paid > 0 /\ paid >= NetPayable(Charge(v))

\* The fine on a bill after receipts become rs: none without money, the one
\* already charged if there is one, else what a day up to today and a rule of
\* the office make of it (those in force when the request came in).
MayFine(v, bill, rs, fine) ==
  IF Receipts(rs, v) = {} THEN fine = 0
  ELSE IF bill.fine > 0 THEN fine = bill.fine
  ELSE \E on \in 0..day, rule \in FineRules :
         fine = LateFineDue([gross |-> bill.gross, discount |-> bill.discount, due |-> bill.due,
                             cancelled |-> bill.withdrawn], 0, on, rule)

\* Bill v is charged as `bill`, with the fine that follows from receipts rs.
Settle(v, bill, rs) ==
  \E fine \in FineRules \cup {0, bill.fine} :
    /\ MayFine(v, bill, rs, fine)
    /\ charge' = [charge EXCEPT ![v[1]][v[2]] = [bill EXCEPT !.fine = fine]]

Init ==
  /\ day = 0
  /\ plan = [s \in Students |-> [gross |-> 0, concession |-> 0]]
  /\ charge = [s \in Students |-> <<>>]
  /\ receipt = [p \in Payments |-> [voucher |-> None, amount |-> 0, voided |-> FALSE]]

NewDay == day' = day + 1 /\ UNCHANGED <<plan, charge, receipt>>

\* A plan set at admission or afterwards; the standing bill follows it.
SetPlan(s, fee) ==
  /\ plan' = [plan EXCEPT ![s] = fee]
  /\ IF Standing(s) = {} THEN UNCHANGED charge
     ELSE \E k \in Standing(s) :
            Settle(<<s, k>>, [charge[s][k] EXCEPT !.gross = fee.gross,
                                !.discount = DiscountFor(fee.gross, fee.concession)], receipt)
  /\ UNCHANGED <<day, receipt>>

Pay(v, p, amount) ==
  /\ ~Charge(v).withdrawn /\ ~PaidUp(v)
  /\ receipt[p].voucher = None
  /\ receipt' = [receipt EXCEPT ![p] = [voucher |-> v, amount |-> amount, voided |-> FALSE]]
  /\ Settle(v, Charge(v), receipt')
  /\ UNCHANGED <<day, plan>>

Void(p) ==
  /\ receipt[p].voucher # None /\ ~receipt[p].voided
  /\ receipt' = [receipt EXCEPT ![p].voided = TRUE]
  /\ Settle(receipt[p].voucher, Charge(receipt[p].voucher), receipt')
  /\ UNCHANGED <<day, plan>>

\* Only a bill with no money on it is withdrawn, and that is the end of it.
Withdraw(v) ==
  /\ ~Charge(v).withdrawn
  /\ Receipts(receipt, v) = {}
  /\ charge' = [charge EXCEPT ![v[1]][v[2]].withdrawn = TRUE]
  /\ UNCHANGED <<day, plan, receipt>>

\* Some students who have a fee and no standing bill get one.
Issue(ss, due) ==
  /\ \A s \in ss : plan[s].gross > 0 /\ Standing(s) = {}
  /\ charge' = [s \in Students |->
       IF s \notin ss THEN charge[s]
       ELSE Append(charge[s],
              [gross |-> plan[s].gross, discount |-> DiscountFor(plan[s].gross, plan[s].concession),
               fine |-> 0, due |-> due, withdrawn |-> FALSE])]
  /\ UNCHANGED <<day, plan, receipt>>

Next ==
  \/ NewDay
  \/ \E s \in Students, fee \in Fees : SetPlan(s, fee)
  \/ \E v \in Bills, p \in Payments, amount \in Amounts : Pay(v, p, amount)
  \/ \E p \in Payments : Void(p)
  \/ \E v \in Bills : Withdraw(v)
  \/ \E ss \in SUBSET Students, due \in DueDates : Issue(ss, due)

Spec == Init /\ [][Next]_book
=============================================================================
