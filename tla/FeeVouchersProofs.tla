-------------------------- MODULE FeeVouchersProofs --------------------------
(***************************************************************************)
(* Theorems about FeeVouchers, for any number of students, clerks and      *)
(* payments.                                                               *)
(*                                                                         *)
(* Typed and Linked are the shape of the state: which fields of a request  *)
(* are set at which of its statements. On them rest OneLiveVoucher and     *)
(* LedgerAppendOnly, and with Ledgered (what a request in flight may count *)
(* on about the payments) and FreshIsTrue (what a settlement that was not  *)
(* overtaken has read is still so), CleanIsSettled.                        *)
(*                                                                         *)
(* The second half is about requests that come one at a time (OneAtWork).  *)
(* Orderly is its inductive invariant: the book is as the office means it, *)
(* and what a request has found out stays so until it ends. On it rest     *)
(* what the bills say, whom they charge, and what is final on them.        *)
(* Last, with Promised (what a request was sent and what it has read of    *)
(* the settings), each transaction is one operation of FeeBook.            *)
(***************************************************************************)
EXTENDS FeeVouchers, FeeBookRefinement, FiniteSetTheorems, TLAPS

---------------------------------------------------------------------------
\* Sums of amounts, counted paisa by paisa.
Paisas(pairs) == UNION {{x} \X (1 .. x[2]) : x \in pairs}

LEMMA PairsAreFinite ==
  ASSUME NEW S, IsFiniteSet(S), NEW a
  PROVE  IsFiniteSet({<<x, a[x]>> : x \in S})
<1>1. PICK T : T = {<<x, a[x]>> : x \in S}
  OBVIOUS
<1>2. PICK f : f = [x \in S |-> <<x, a[x]>>]
  OBVIOUS
<1>3. f \in Surjection(S, T)
  BY <1>1, <1>2 DEF Surjection
<1> QED BY <1>1, <1>3, FS_Surjection

LEMMA PaisasOfOne ==
  ASSUME NEW x, x[2] \in Nat
  PROVE  IsFiniteSet({x} \X (1 .. x[2])) /\ Cardinality({x} \X (1 .. x[2])) = x[2]
<1>1. PICK n \in Nat : n = x[2]
  OBVIOUS
<1>2. IsFiniteSet(1 .. n) /\ Cardinality(1 .. n) = n
  BY FS_Interval
<1>3. IsFiniteSet({x}) /\ Cardinality({x}) = 1
  BY FS_Singleton
<1>4. IsFiniteSet({x} \X (1 .. n)) /\ Cardinality({x} \X (1 .. n)) = 1 * n
  BY <1>2, <1>3, FS_Product
<1> QED BY <1>1, <1>4

LEMMA PaisasAreFinite ==
  ASSUME NEW P, IsFiniteSet(P), \A x \in P : x[2] \in Nat
  PROVE  IsFiniteSet(Paisas(P))
<1>1. PICK T : T = {{x} \X (1 .. x[2]) : x \in P}
  OBVIOUS
<1>2. PICK f : f = [x \in P |-> {x} \X (1 .. x[2])]
  OBVIOUS
<1>3. f \in Surjection(P, T)
  BY <1>1, <1>2 DEF Surjection
<1>4. IsFiniteSet(T)
  BY <1>3, FS_Surjection
<1>5. \A t \in T : IsFiniteSet(t)
  BY <1>1, PaisasOfOne
<1>6. IsFiniteSet(UNION T)
  BY <1>4, <1>5, FS_UNION
<1> QED BY <1>1, <1>6 DEF Paisas

\* A sum of naturals is a natural, and it is nought when every amount is.
LEMMA SumIsNat ==
  ASSUME NEW P, IsFiniteSet(P), \A x \in P : x[2] \in Nat
  PROVE  SumOf(P) \in Nat /\ (SumOf(P) = 0 <=> \A x \in P : x[2] = 0)
<1>1. IsFiniteSet(Paisas(P)) /\ SumOf(P) = Cardinality(Paisas(P))
  BY PaisasAreFinite DEF Paisas, SumOf
<1>2. SumOf(P) \in Nat /\ (SumOf(P) = 0 <=> Paisas(P) = {})
  BY <1>1, FS_CardinalityType, FS_EmptySet
<1>3. ASSUME NEW x \in P, x[2] # 0 PROVE Paisas(P) # {}
  <2>1. <<x, 1>> \in {x} \X (1 .. x[2])
    BY <1>3
  <2> QED BY <2>1 DEF Paisas
<1>4. ASSUME \A x \in P : x[2] = 0 PROVE Paisas(P) = {}
  <2>1. \A x \in P : {x} \X (1 .. x[2]) = {}
    BY <1>4
  <2> QED BY <2>1 DEF Paisas
<1> QED BY <1>2, <1>3, <1>4

\* One amount alone is its own sum.
LEMMA SumOfOne ==
  ASSUME NEW P, NEW y \in P, y[2] \in Nat, \A x \in P : x # y => x[2] = 0
  PROVE  SumOf(P) = y[2]
<1>1. \A x \in P : x # y => {x} \X (1 .. x[2]) = {}
  OBVIOUS
<1>2. Paisas(P) = {y} \X (1 .. y[2])
  BY <1>1 DEF Paisas
<1>3. Cardinality({y} \X (1 .. y[2])) = y[2]
  BY PaisasOfOne
<1> QED BY <1>2, <1>3 DEF Paisas, SumOf

\* One amount more adds to the sum.
LEMMA SumOfOneMore ==
  ASSUME NEW P, IsFiniteSet(P), \A x \in P : x[2] \in Nat, NEW y, y \notin P, y[2] \in Nat
  PROVE  SumOf(P \cup {y}) = SumOf(P) + y[2]
<1>1. PICK new : new = {y} \X (1 .. y[2])
  OBVIOUS
<1>2. Paisas(P \cup {y}) = Paisas(P) \cup new
  BY <1>1 DEF Paisas
<1>3. Paisas(P) \cap new = {}
  BY <1>1 DEF Paisas
<1>4. IsFiniteSet(new) /\ Cardinality(new) = y[2]
  BY <1>1, PaisasOfOne
<1>5. Cardinality(Paisas(P) \cup new) = Cardinality(Paisas(P)) + Cardinality(new) - Cardinality({})
  BY <1>3, <1>4, PaisasAreFinite, FS_Union
<1>6. Cardinality({}) = 0 /\ Cardinality(Paisas(P)) \in Nat
  BY PaisasAreFinite, FS_CardinalityType, FS_EmptySet
<1>7. SumOf(P \cup {y}) = Cardinality(Paisas(P \cup {y})) /\ SumOf(P) = Cardinality(Paisas(P))
  BY DEF SumOf, Paisas
<1>8. PICK n \in Nat : n = Cardinality(Paisas(P))
  BY <1>6
<1>9. Cardinality(Paisas(P) \cup new) = n + y[2]
  BY <1>4, <1>5, <1>6, <1>8
<1> QED BY <1>2, <1>7, <1>8, <1>9

---------------------------------------------------------------------------
\* The shape of the state.
BillRow == [gross : Nat, discount : Nat, fine : Nat, paid : Nat,
            due : Nat \cup {NoDueDate}, status : Statuses, cancelled : BOOLEAN]

Task == [at : Stages, s : Students \cup {None}, v : Vouchers \cup {None},
         pay : Payments \cup {None}, entry : Entry \cup {Unrecorded},
         fee : Fees \cup {None}, replaced : SUBSET (Clerks \cup {Admission}),
         today : Nat, rule : Nat, seen : BillRow \cup {None}, paid : Nat,
         todo : SUBSET [s : Students, gross : Nat, discount : Nat],
         due : Nat \cup {NoDueDate}, tell : SUBSET Vouchers]

Typed ==
  /\ day \in Nat
  /\ lateFine \in FineRules
  /\ admitted \subseteq Students
  /\ feeLines \in [Students -> [Clerks \cup {Admission} -> Nat]]
  /\ concession \in [Students -> Nat]
  /\ bills \in [Students -> Seq(BillRow)]
  /\ payment \in [Payments -> Entry \cup {Unrecorded}]
  /\ told \subseteq Vouchers
  /\ task \in [Clerks -> Task]
  /\ fresh \subseteq Clerks
  /\ clean \subseteq Vouchers

\* Which fields of a request are set at which statement.
LinkedAt(c) ==
  /\ task[c].at \in {"void", "read", "sum", "write", "cancel", "lock"} => task[c].v \in Issued
  /\ task[c].at \in {"void", "read"} => task[c].pay \in Payments /\ task[c].fee = None
  /\ task[c].at \in {"find", "lock"} => task[c].fee \in Fees
  /\ task[c].at \in {"sum", "write"} =>
       task[c].seen \in BillRow /\ (task[c].pay \in Payments \/ task[c].fee \in Fees)
  /\ task[c].fee \in Fees =>
       /\ task[c].at \in {"find", "lock", "sum", "write"}
       /\ task[c].pay = None
       /\ task[c].s \in Students
       /\ task[c].at # "find" => task[c].v[1] = task[c].s
  /\ task[c].pay \in Payments =>
       /\ task[c].at \in {"void", "read", "sum", "write"}
       /\ task[c].entry \in Entry
       /\ task[c].entry.voucher = task[c].v

Linked == \A c \in Clerks : LinkedAt(c)

Shape == Typed /\ Linked

---------------------------------------------------------------------------
\* The constants, as the proofs use them.
LEMMA ConstantFacts ==
  /\ Fees \subseteq [gross : Nat, concession : Nat]
  /\ Amounts \subseteq Nat
  /\ FineRules \subseteq Nat
  /\ DueDates \subseteq Nat \cup {NoDueDate}
  /\ None \notin Payments /\ None \notin Students /\ None \notin Fees /\ None \notin Vouchers
  /\ Admission \notin Clerks
BY FeesAssumption, AmountsAssumption, RulesAssumption, DatesAssumption, NamesAssumption
   DEF Vouchers

\* A voucher that has been issued is a voucher, and its row is a bill.
LEMMA IssuedRow ==
  ASSUME bills \in [Students -> Seq(BillRow)], NEW v \in Issued
  PROVE  /\ v \in Vouchers /\ v[1] \in Students /\ v[2] \in DOMAIN bills[v[1]]
         /\ v = <<v[1], v[2]>>
         /\ Row(v) \in BillRow
<1>1. PICK s \in Students : v \in {<<s, k>> : k \in DOMAIN bills[s]}
  BY DEF Issued
<1>2. PICK k \in DOMAIN bills[s] : v = <<s, k>>
  BY <1>1
<1>3. bills[s] \in Seq(BillRow)
  OBVIOUS
<1>4. k \in 1..Len(bills[s])
  BY <1>2, <1>3
<1> QED BY <1>2, <1>3, <1>4 DEF Vouchers, Row

LEMMA RowsAreNumbered ==
  ASSUME NEW q \in Seq(BillRow)
  PROVE  DOMAIN q = 1..Len(q) /\ Len(q) \in Nat
OBVIOUS

\* Only runs issue vouchers: a change of one row leaves the same set issued.
LEMMA SameIssued ==
  ASSUME bills \in [Students -> Seq(BillRow)], NEW v \in Issued, NEW b,
         bills' = [bills EXCEPT ![v[1]][v[2]] = b]
  PROVE  Issued' = Issued
<1>1. \A s \in Students : DOMAIN bills'[s] = DOMAIN bills[s]
  BY IssuedRow
<1> QED BY <1>1 DEF Issued

---------------------------------------------------------------------------
\* What the operators of the model return.

LEMMA IdleIsTask == Idle \in Task
BY SMT DEF Idle, Task, Stages, Entry, Unrecorded

LEMMA MoneyFacts ==
  ASSUME NEW g \in Nat, NEW concess \in Nat
  PROVE  AtLeastZero(g) \in Nat /\ DiscountFor(g, concess) \in Nat
BY DEF AtLeastZero, DiscountFor

\* The payments that stand on a voucher add up, to nought if and only if there are none.
LEMMA LiveIsFinite ==
  ASSUME NEW ps \in [Payments -> Entry \cup {Unrecorded}], NEW v
  PROVE  /\ IsFiniteSet(LivePayments(ps, v))
         /\ \A x \in LivePayments(ps, v) : x[2] \in Nat
<1>1. PICK S \in SUBSET Payments : S = {q \in Payments : ps[q].voucher = v /\ ~ps[q].voided}
  OBVIOUS
<1>2. IsFiniteSet(S)
  BY ManyAssumption, FS_Subset
<1>3. PICK a : a = [p \in Payments |-> ps[p].amount]
  OBVIOUS
<1>4. LivePayments(ps, v) = {<<p, a[p]>> : p \in S}
  BY <1>1, <1>3 DEF LivePayments
<1>5. \A p \in Payments : a[p] \in Nat
  BY <1>3 DEF Entry, Unrecorded
<1> QED BY <1>2, <1>4, <1>5, PairsAreFinite

LEMMA SumIsMoney ==
  ASSUME NEW ps \in [Payments -> Entry \cup {Unrecorded}], NEW v
  PROVE  SumOf(LivePayments(ps, v)) \in Nat
BY LiveIsFinite, SumIsNat

LEMMA LinesAreFinite ==
  ASSUME NEW lines \in [Clerks \cup {Admission} -> Nat]
  PROVE  /\ IsFiniteSet({<<b, lines[b]>> : b \in DOMAIN lines})
         /\ \A x \in {<<b, lines[b]>> : b \in DOMAIN lines} : x[2] \in Nat
<1>1. IsFiniteSet(DOMAIN lines)
  BY ManyAssumption, FS_AddElement
<1> QED BY <1>1, PairsAreFinite

LEMMA TotalIsMoney ==
  ASSUME NEW lines \in [Clerks \cup {Admission} -> Nat]
  PROVE  TotalOfLines(lines) \in Nat
BY LinesAreFinite, SumIsNat DEF TotalOfLines

LEMMA RebilledRow ==
  ASSUME NEW bill \in BillRow, NEW fee \in Fees
  PROVE  Rebilled(bill, fee) \in BillRow
<1>1. fee.gross \in Nat /\ fee.concession \in Nat
  BY ConstantFacts
<1>2. DiscountFor(fee.gross, fee.concession) \in Nat
  BY <1>1, MoneyFacts
<1> QED BY <1>1, <1>2 DEF Rebilled, BillRow

LEMMA OwnRowIsBill ==
  ASSUME bills \in [Students -> Seq(BillRow)], NEW t \in Task, t.v \in Issued
  PROVE  OwnRow(t) \in BillRow
<1>1. Row(t.v) \in BillRow
  BY IssuedRow
<1>2. CASE t.fee = None
  BY <1>1, <1>2 DEF OwnRow
<1>3. CASE t.fee # None
  <2>1. t.fee \in Fees
    BY <1>3 DEF Task
  <2> QED BY <1>1, <1>3, <2>1, RebilledRow DEF OwnRow
<1> QED BY <1>2, <1>3

LEMMA FineIsNat ==
  ASSUME NEW t \in Task, t.seen \in BillRow
  PROVE  FineFor(t) \in Nat
BY DEF FineFor, LateFineDue, Task, BillRow

LEMMA StatusIsStatus ==
  ASSUME NEW bill, NEW cancelled
  PROVE  StatusFor(bill, cancelled) \in Statuses
BY DEF StatusFor, Statuses

LEMMA SettledIsBill ==
  ASSUME bills \in [Students -> Seq(BillRow)], NEW t \in Task,
         t.v \in Issued, t.seen \in BillRow
  PROVE  Settled(t) \in BillRow
<1>1. OwnRow(t) \in BillRow
  BY OwnRowIsBill
<1>2. FineFor(t) \in Nat /\ t.paid \in Nat
  BY FineIsNat DEF Task
<1>3. StatusFor([t.seen EXCEPT !.paid = t.paid, !.fine = FineFor(t)], t.seen.cancelled) \in Statuses
  BY StatusIsStatus
<1> QED BY <1>1, <1>2, <1>3 DEF Settled, BillRow

LEMMA OwnPaymentsTyped ==
  ASSUME payment \in [Payments -> Entry \cup {Unrecorded}], NEW t \in Task
  PROVE  OwnPayments(t) \in [Payments -> Entry \cup {Unrecorded}]
BY DEF OwnPayments, Task

\* Writing one row of a voucher that was issued keeps the table's type.
LEMMA RowWritten ==
  ASSUME bills \in [Students -> Seq(BillRow)], NEW v \in Issued, NEW b \in BillRow
  PROVE  [bills EXCEPT ![v[1]][v[2]] = b] \in [Students -> Seq(BillRow)]
<1>1. v[1] \in Students /\ v[2] \in DOMAIN bills[v[1]]
  BY IssuedRow
<1>2. [bills[v[1]] EXCEPT ![v[2]] = b] \in Seq(BillRow)
  BY <1>1
<1> QED BY <1>1, <1>2

---------------------------------------------------------------------------
LEMMA InitShape == Init => Shape
<1> SUFFICES ASSUME Init PROVE Shape
  OBVIOUS
<1>1. Typed
  BY IdleIsTask DEF Init, Typed, Statuses
<1>2. Linked
  BY ConstantFacts DEF Init, Linked, LinkedAt, Idle
<1> QED BY <1>1, <1>2 DEF Shape

---------------------------------------------------------------------------
\* Each request's next statement keeps the shape. What an action must give is
\* the task it leaves: its type, and its fields linked to the next state.

LEMMA AdvanceShape ==
  ASSUME Shape, NEW c \in Clerks, NEW t \in Task, Advance(c, t)
  PROVE  /\ task' \in [Clerks -> Task]
         /\ task'[c] = t
         /\ \A d \in Clerks \ {c} : task'[d] = task[d]
BY DEF Shape, Typed, Advance

\* An action that moves clerk c on and leaves the issued set keeps Linked if
\* it links c.
LEMMA LinkOne ==
  ASSUME Shape, NEW c \in Clerks, NEW t \in Task, Advance(c, t),
         Issued' = Issued, LinkedAt(c)'
  PROVE  Linked'
<1> SUFFICES ASSUME NEW d \in Clerks, d # c PROVE LinkedAt(d)'
  BY DEF Linked
<1>1. task'[d] = task[d]
  BY AdvanceShape
<1> QED BY <1>1 DEF Shape, Linked, LinkedAt

LEMMA IdleLinks ==
  ASSUME NEW c \in Clerks, task'[c] = Idle
  PROVE  LinkedAt(c)'
BY ConstantFacts DEF LinkedAt, Idle

\* A clerk that only tells families links to nothing.
LEMMA NotifyLinks ==
  ASSUME NEW c \in Clerks, NEW tell,
         task'[c] = [Idle EXCEPT !.at = "notify", !.tell = tell]
  PROVE  LinkedAt(c)'
BY ConstantFacts DEF LinkedAt, Idle

LEMMA TaskMoves ==
  ASSUME NEW t \in Task, NEW at \in Stages
  PROVE  /\ [t EXCEPT !.at = at] \in Task
         /\ \A bill \in BillRow : [t EXCEPT !.at = at, !.seen = bill] \in Task
         /\ \A paid \in Nat : [t EXCEPT !.at = at, !.paid = paid] \in Task
         /\ \A v \in Vouchers, tell \in SUBSET Vouchers :
              [t EXCEPT !.at = at, !.v = v, !.tell = tell] \in Task
<1>1. [t EXCEPT !.at = at] \in Task
  BY DEF Task
<1>2. ASSUME NEW bill \in BillRow PROVE [t EXCEPT !.at = at, !.seen = bill] \in Task
  BY DEF Task
<1>3. ASSUME NEW paid \in Nat PROVE [t EXCEPT !.at = at, !.paid = paid] \in Task
  BY DEF Task
<1>4. ASSUME NEW v \in Vouchers, NEW tell \in SUBSET Vouchers
      PROVE  [t EXCEPT !.at = at, !.v = v, !.tell = tell] \in Task
  BY DEF Task
<1> QED BY <1>1, <1>2, <1>3, <1>4

LEMMA TaskTyped ==
  ASSUME Shape, NEW c \in Clerks
  PROVE  task[c] \in Task /\ LinkedAt(c)
BY DEF Shape, Typed, Linked

LEMMA StartPaymentShape ==
  ASSUME Shape, NEW c \in Clerks, StartPayment(c)
  PROVE  Shape'
<1>1. PICK v \in Issued, p \in Payments \ Recorded, amount \in Amounts :
        Advance(c, [Idle EXCEPT !.at = "read", !.v = v, !.pay = p,
                      !.entry = [voucher |-> v, amount |-> amount, voided |-> FALSE],
                      !.today = day, !.rule = lateFine])
  BY DEF StartPayment
<1> DEFINE t == [Idle EXCEPT !.at = "read", !.v = v, !.pay = p,
                      !.entry = [voucher |-> v, amount |-> amount, voided |-> FALSE],
                      !.today = day, !.rule = lateFine]
<1>2. v \in Vouchers /\ [voucher |-> v, amount |-> amount, voided |-> FALSE] \in Entry
  BY IssuedRow, ConstantFacts DEF Shape, Typed, Entry
<1>3. day \in Nat /\ lateFine \in Nat
  BY ConstantFacts DEF Shape, Typed
<1>4. t \in Task
  BY <1>2, <1>3, IdleIsTask DEF Task, Stages, Idle
<1>5. UNCHANGED <<day, lateFine, plans, ledger, told, history>>
  BY DEF StartPayment
<1>6. Typed'
  BY <1>1, <1>4, <1>5, AdvanceShape DEF Shape, Typed, plans, ledger, history
<1>7. Issued' = Issued
  BY <1>5 DEF Issued, ledger
<1>8. LinkedAt(c)'
  <2>1. /\ t.at = "read" /\ t.v = v /\ t.pay = p /\ t.fee = None
        /\ t.entry = [voucher |-> v, amount |-> amount, voided |-> FALSE]
    BY DEF Idle
  <2>2. task'[c] = t
    BY <1>1, <1>4, AdvanceShape
  <2> HIDE DEF t
  <2> QED BY <1>2, <1>7, <2>1, <2>2, ConstantFacts DEF LinkedAt
<1> QED BY <1>1, <1>4, <1>6, <1>7, <1>8, LinkOne DEF Shape

LEMMA CheckVoidShape ==
  ASSUME Shape, NEW c \in Clerks, CheckVoid(c), \A p \in Recorded : payment[p].voucher \in Issued
  PROVE  Shape'
<1>1. PICK p \in Recorded :
        Advance(c, [Idle EXCEPT !.at = "void", !.v = payment[p].voucher, !.pay = p,
                      !.entry = [payment[p] EXCEPT !.voided = TRUE],
                      !.today = day, !.rule = lateFine])
  BY DEF CheckVoid
<1> DEFINE t == [Idle EXCEPT !.at = "void", !.v = payment[p].voucher, !.pay = p,
                      !.entry = [payment[p] EXCEPT !.voided = TRUE],
                      !.today = day, !.rule = lateFine]
<1>2. p \in Payments /\ payment[p] \in Entry /\ payment[p].voucher \in Issued
  BY DEF Recorded, Shape, Typed, Unrecorded
<1>3. /\ [payment[p] EXCEPT !.voided = TRUE] \in Entry
      /\ [payment[p] EXCEPT !.voided = TRUE].voucher = payment[p].voucher
  BY <1>2 DEF Entry
<1>4. day \in Nat /\ lateFine \in Nat
  BY ConstantFacts DEF Shape, Typed
<1>5. t \in Task
  BY <1>2, <1>3, <1>4, IdleIsTask, IssuedRow DEF Task, Stages, Idle, Shape, Typed
<1>6. UNCHANGED <<day, lateFine, plans, ledger, told, history>>
  BY DEF CheckVoid
<1>7. Typed'
  BY <1>1, <1>5, <1>6, AdvanceShape DEF Shape, Typed, plans, ledger, history
<1>8. Issued' = Issued
  BY <1>6 DEF Issued, ledger
<1>9. LinkedAt(c)'
  <2>1. /\ t.at = "void" /\ t.v = payment[p].voucher /\ t.pay = p /\ t.fee = None
        /\ t.entry = [payment[p] EXCEPT !.voided = TRUE]
    BY DEF Idle
  <2>2. task'[c] = t
    BY <1>1, <1>5, AdvanceShape
  <2> HIDE DEF t
  <2> QED BY <1>2, <1>3, <1>8, <2>1, <2>2, ConstantFacts DEF LinkedAt
<1> QED BY <1>1, <1>5, <1>7, <1>8, <1>9, LinkOne DEF Shape

LEMMA TakePaymentShape ==
  ASSUME Shape, NEW c \in Clerks, TakePayment(c)
  PROVE  Shape'
<1> DEFINE t == [task[c] EXCEPT !.at = "read"]
<1>1. Advance(c, t) /\ task[c].at = "void"
  BY DEF TakePayment
<1>2. t \in Task
  BY TaskTyped, TaskMoves DEF Stages
<1>3. UNCHANGED <<day, lateFine, plans, ledger, told, history>>
  BY DEF TakePayment
<1>4. Typed'
  BY <1>1, <1>2, <1>3, AdvanceShape DEF Shape, Typed, plans, ledger, history
<1>5. Issued' = Issued
  BY <1>3 DEF Issued, ledger
<1>6. task[c] \in Task /\ LinkedAt(c) /\ task'[c] = t
  BY <1>1, <1>2, TaskTyped, AdvanceShape
<1>7. LinkedAt(c)'
  BY <1>1, <1>5, <1>6, ConstantFacts DEF LinkedAt, Task
<1> QED BY <1>1, <1>2, <1>4, <1>5, <1>7, LinkOne DEF Shape

\* A request that ends, its transaction rolled back.
LEMMA EndedShape ==
  ASSUME Shape, NEW c \in Clerks, Advance(c, Idle),
         UNCHANGED <<day, lateFine, plans, ledger, clean>>,
         fresh' \subseteq Clerks, told' \subseteq Vouchers
  PROVE  Shape'
<1>1. Typed'
  BY IdleIsTask, AdvanceShape DEF Shape, Typed, plans, ledger
<1>2. Issued' = Issued
  BY DEF Issued, ledger
<1> QED BY <1>1, <1>2, IdleIsTask, AdvanceShape, IdleLinks, LinkOne DEF Shape

LEMMA ReadRowShape ==
  ASSUME Shape, NEW c \in Clerks, ReadRow(c) \/ LockBill(c)
  PROVE  Shape'
<1> DEFINE t == [task[c] EXCEPT !.at = "sum", !.seen = OwnRow(task[c])]
<1>1. Advance(c, t) /\ task[c].at \in {"read", "lock"}
  BY DEF ReadRow, LockBill
<1>2. task[c] \in Task /\ LinkedAt(c) /\ bills \in [Students -> Seq(BillRow)]
  BY TaskTyped DEF Shape, Typed
<1>3. OwnRow(task[c]) \in BillRow
  BY <1>1, <1>2, OwnRowIsBill DEF LinkedAt
<1>4. t \in Task
  BY <1>2, <1>3, TaskMoves DEF Stages
<1>5. UNCHANGED <<day, lateFine, plans, ledger, told, clean>> /\ fresh' = fresh \cup {c}
  BY DEF ReadRow, LockBill
<1>6. Typed'
  BY <1>1, <1>4, <1>5, AdvanceShape DEF Shape, Typed, plans, ledger
<1>7. Issued' = Issued
  BY <1>5 DEF Issued, ledger
<1>8. task'[c] = t
  BY <1>1, <1>4, AdvanceShape
<1>9. LinkedAt(c)'
  BY <1>1, <1>2, <1>3, <1>7, <1>8, ConstantFacts DEF LinkedAt, Task
<1> QED BY <1>1, <1>4, <1>6, <1>7, <1>9, LinkOne DEF Shape

LEMMA SumPaymentsShape ==
  ASSUME Shape, NEW c \in Clerks, SumPayments(c)
  PROVE  Shape'
<1> DEFINE paid == SumOf(LivePayments(OwnPayments(task[c]), task[c].v))
           t == [task[c] EXCEPT !.at = "write", !.paid = paid]
<1>1. Advance(c, t) /\ task[c].at = "sum"
  BY DEF SumPayments
<1>2. task[c] \in Task /\ LinkedAt(c) /\ payment \in [Payments -> Entry \cup {Unrecorded}]
  BY TaskTyped DEF Shape, Typed
<1>3. paid \in Nat
  BY <1>2, OwnPaymentsTyped, SumIsMoney
<1>4. t \in Task
  BY <1>2, <1>3, TaskMoves DEF Stages
<1>5. UNCHANGED <<day, lateFine, plans, ledger, told, history>>
  BY DEF SumPayments
<1>6. Typed'
  BY <1>1, <1>4, <1>5, AdvanceShape DEF Shape, Typed, plans, ledger, history
<1>7. Issued' = Issued
  BY <1>5 DEF Issued, ledger
<1>8. task'[c] = t
  BY <1>1, <1>4, AdvanceShape
<1> HIDE DEF paid
<1>9. LinkedAt(c)'
  BY <1>1, <1>2, <1>7, <1>8, ConstantFacts DEF LinkedAt, Task
<1> QED BY <1>1, <1>4, <1>6, <1>7, <1>9, LinkOne DEF Shape

\* What a settlement about to be written is, and what writing it does.
LEMMA WriteBillShape ==
  ASSUME Shape, NEW c \in Clerks, WriteBill(c)
  PROVE  /\ task[c].v \in Issued /\ task[c].v \in Vouchers
         /\ Settled(task[c]) \in BillRow
         /\ bills' \in [Students -> Seq(BillRow)]
         /\ Issued' = Issued
         /\ fresh' \subseteq Clerks /\ clean' \subseteq Vouchers
<1>1. task[c] \in Task /\ LinkedAt(c) /\ bills \in [Students -> Seq(BillRow)]
  BY TaskTyped DEF Shape, Typed
<1>2. task[c].v \in Issued /\ task[c].seen \in BillRow
  BY <1>1 DEF WriteBill, LinkedAt
<1>3. Settled(task[c]) \in BillRow
  BY <1>1, <1>2, SettledIsBill
<1>4. bills' = [bills EXCEPT ![task[c].v[1]][task[c].v[2]] = Settled(task[c])]
  BY DEF WriteBill
<1>5. bills' \in [Students -> Seq(BillRow)]
  BY <1>1, <1>2, <1>3, <1>4, RowWritten
<1>6. Issued' = Issued
  BY <1>1, <1>2, <1>4, SameIssued
<1>7. task[c].v \in Vouchers
  BY <1>1, <1>2, IssuedRow
<1>8. fresh' \subseteq Clerks /\ clean' \subseteq Vouchers
  BY <1>7 DEF WriteBill, Overtake, Shape, Typed
<1> QED BY <1>2, <1>3, <1>5, <1>6, <1>7, <1>8

LEMMA NotifyIsTask ==
  ASSUME NEW tell \in SUBSET Vouchers
  PROVE  [Idle EXCEPT !.at = "notify", !.tell = tell] \in Task
BY IdleIsTask DEF Task, Stages

LEMMA CommitPaymentShape ==
  ASSUME Shape, NEW c \in Clerks, CommitPayment(c)
  PROVE  Shape'
<1> DEFINE t == IF task[c].entry.voided THEN Idle
                ELSE [Idle EXCEPT !.at = "notify", !.tell = {task[c].v}]
<1>1. Advance(c, t) /\ WriteBill(c)
  BY DEF CommitPayment
<1>2. task[c].v \in Vouchers
  BY <1>1, WriteBillShape
<1>3. t \in Task
  BY <1>2, IdleIsTask, NotifyIsTask
<1>4. payment' = OwnPayments(task[c]) /\ UNCHANGED <<day, lateFine, plans, told>>
  BY DEF CommitPayment
<1>5. payment' \in [Payments -> Entry \cup {Unrecorded}]
  BY <1>4, OwnPaymentsTyped, TaskTyped DEF Shape, Typed
<1>6. Typed'
  BY <1>1, <1>3, <1>4, <1>5, AdvanceShape, WriteBillShape DEF Shape, Typed, plans
<1>7. Issued' = Issued
  BY <1>1, WriteBillShape
<1>8. LinkedAt(c)'
  BY <1>1, <1>3, AdvanceShape, IdleLinks, NotifyLinks
<1> QED BY <1>1, <1>3, <1>6, <1>7, <1>8, LinkOne DEF Shape

LEMMA CheckCancelShape ==
  ASSUME Shape, NEW c \in Clerks, CheckCancel(c)
  PROVE  Shape'
<1>1. PICK v \in Issued : Advance(c, [Idle EXCEPT !.at = "cancel", !.v = v])
  BY DEF CheckCancel
<1> DEFINE t == [Idle EXCEPT !.at = "cancel", !.v = v]
<1>2. v \in Vouchers
  BY IssuedRow DEF Shape, Typed
<1>3. t \in Task
  BY <1>2, IdleIsTask DEF Task, Stages
<1>4. UNCHANGED <<day, lateFine, plans, ledger, told, history>>
  BY DEF CheckCancel
<1>5. Typed'
  BY <1>1, <1>3, <1>4, AdvanceShape DEF Shape, Typed, plans, ledger, history
<1>6. Issued' = Issued
  BY <1>4 DEF Issued, ledger
<1>7. t.at = "cancel" /\ t.v = v /\ t.pay = None /\ t.fee = None
  BY DEF Idle
<1>8. task'[c] = t
  BY <1>1, <1>3, AdvanceShape
<1> HIDE DEF t
<1>9. LinkedAt(c)'
  BY <1>6, <1>7, <1>8, ConstantFacts DEF LinkedAt
<1> QED BY <1>1, <1>3, <1>5, <1>6, <1>9, LinkOne DEF Shape, t

LEMMA CommitCancelShape ==
  ASSUME Shape, NEW c \in Clerks, CommitCancel(c)
  PROVE  /\ Shape' /\ Issued' = Issued
         /\ task[c].v \in Issued
         /\ bills' = [bills EXCEPT ![task[c].v[1]][task[c].v[2]] =
                        [Row(task[c].v) EXCEPT !.status = "CANCELLED", !.cancelled = TRUE]]
<1>1. task[c] \in Task /\ LinkedAt(c) /\ bills \in [Students -> Seq(BillRow)]
  BY TaskTyped DEF Shape, Typed
<1>2. task[c].v \in Issued
  BY <1>1 DEF CommitCancel, LinkedAt
<1> DEFINE b == [Row(task[c].v) EXCEPT !.status = "CANCELLED", !.cancelled = TRUE]
<1>3. b \in BillRow
  BY <1>1, <1>2, IssuedRow DEF BillRow, Statuses
<1>4. bills' = [bills EXCEPT ![task[c].v[1]][task[c].v[2]] = b]
  BY <1>1, <1>2, IssuedRow DEF CommitCancel, Row
<1>5. bills' \in [Students -> Seq(BillRow)] /\ Issued' = Issued
  BY <1>1, <1>2, <1>3, <1>4, RowWritten, SameIssued
<1>6. Advance(c, Idle) /\ UNCHANGED <<day, lateFine, plans, payment, told, clean>>
  BY DEF CommitCancel
<1>7. fresh' \subseteq Clerks
  BY DEF CommitCancel, Overtake, Shape, Typed
<1>8. Typed'
  BY <1>5, <1>6, <1>7, IdleIsTask, AdvanceShape DEF Shape, Typed, plans
<1>9. Linked'
  BY <1>5, <1>6, IdleIsTask, AdvanceShape, IdleLinks, LinkOne
<1> QED BY <1>2, <1>4, <1>5, <1>8, <1>9 DEF Shape

LEMMA StartPlanShape ==
  ASSUME Shape, NEW c \in Clerks, StartPlan(c)
  PROVE  Shape'
<1>1. PICK s \in admitted, fee \in Fees :
        Advance(c, [Idle EXCEPT !.at = "find", !.s = s, !.fee = fee,
                      !.replaced = {b \in DOMAIN feeLines[s] : feeLines[s][b] > 0},
                      !.today = day, !.rule = lateFine])
  BY DEF StartPlan
<1> DEFINE seen == {b \in DOMAIN feeLines[s] : feeLines[s][b] > 0}
           t == [Idle EXCEPT !.at = "find", !.s = s, !.fee = fee, !.replaced = seen,
                             !.today = day, !.rule = lateFine]
<1>2. s \in Students /\ seen \in SUBSET (Clerks \cup {Admission})
  BY DEF Shape, Typed
<1>3. day \in Nat /\ lateFine \in Nat
  BY ConstantFacts DEF Shape, Typed
<1>4. Advance(c, t)
  BY <1>1
<1> HIDE DEF seen
<1>5. t \in Task
  BY <1>2, <1>3, IdleIsTask DEF Task, Stages
<1>6. UNCHANGED <<day, lateFine, plans, ledger, told, history>>
  BY DEF StartPlan
<1>7. Typed'
  BY <1>4, <1>5, <1>6, AdvanceShape DEF Shape, Typed, plans, ledger, history
<1>8. Issued' = Issued
  BY <1>6 DEF Issued, ledger
<1>9. t.at = "find" /\ t.fee = fee /\ t.s = s /\ t.pay = None
  BY DEF Idle
<1>10. task'[c] = t
  BY <1>4, <1>5, AdvanceShape
<1>11. LinkedAt(c)'
  <2> HIDE DEF t
  <2> QED BY <1>2, <1>9, <1>10, ConstantFacts DEF LinkedAt
<1> QED BY <1>4, <1>5, <1>7, <1>8, <1>11, LinkOne DEF Shape

\* What a form leaves of the lines and the concession.
LEMMA WritePlanTyped ==
  ASSUME Shape, NEW c \in Clerks, task[c].fee \in Fees, WritePlan(c)
  PROVE  /\ feeLines' \in [Students -> [Clerks \cup {Admission} -> Nat]]
         /\ concession' \in [Students -> Nat]
         /\ admitted' \subseteq Students
<1>1. task[c].fee.gross \in Nat /\ task[c].fee.concession \in Nat
  BY ConstantFacts
<1>2. feeLines \in [Students -> [Clerks \cup {Admission} -> Nat]] /\ concession \in [Students -> Nat]
  BY DEF Shape, Typed
<1>3. feeLines' \in [Students -> [Clerks \cup {Admission} -> Nat]]
  BY <1>1, <1>2 DEF WritePlan
<1>4. concession' \in [Students -> Nat] /\ admitted' \subseteq Students
  BY <1>1, <1>2 DEF WritePlan, Shape, Typed
<1> QED BY <1>3, <1>4

LEMMA NoLiveBillShape ==
  ASSUME Shape, NEW c \in Clerks, NoLiveBill(c)
  PROVE  Shape'
<1>1. task[c].fee \in Fees
  BY TaskTyped DEF LinkedAt, NoLiveBill
<1>2. WritePlan(c) /\ Advance(c, Idle) /\ UNCHANGED <<day, lateFine, ledger, told, history>>
  BY DEF NoLiveBill
<1>3. Typed'
  BY <1>1, <1>2, WritePlanTyped, IdleIsTask, AdvanceShape DEF Shape, Typed, ledger, history
<1>4. Issued' = Issued
  BY <1>2 DEF Issued, ledger
<1> QED BY <1>2, <1>3, <1>4, IdleIsTask, AdvanceShape, IdleLinks, LinkOne DEF Shape

LEMMA FindLiveBillShape ==
  ASSUME Shape, NEW c \in Clerks, FindLiveBill(c)
  PROVE  Shape'
<1>1. task[c] \in Task /\ LinkedAt(c) /\ bills \in [Students -> Seq(BillRow)]
  BY TaskTyped DEF Shape, Typed
<1>2. PICK k \in LiveOf(task[c].s) :
        Advance(c, [task[c] EXCEPT !.at = "lock", !.v = <<task[c].s, k>>,
          !.tell = IF NetPayable(Rebilled(bills[task[c].s][k], task[c].fee))
                        # NetPayable(bills[task[c].s][k])
                   THEN {<<task[c].s, k>>} ELSE {}])
  BY DEF FindLiveBill
<1> DEFINE v == <<task[c].s, k>>
           tell == IF NetPayable(Rebilled(bills[task[c].s][k], task[c].fee))
                        # NetPayable(bills[task[c].s][k])
                   THEN {v} ELSE {}
           t == [task[c] EXCEPT !.at = "lock", !.v = v, !.tell = tell]
<1>3. Advance(c, t) /\ tell \in {{v}, {}}
  BY <1>2
<1> HIDE DEF tell
<1>4. task[c].at = "find" /\ task[c].fee \in Fees /\ task[c].s \in Students
  BY <1>1 DEF FindLiveBill, LinkedAt
<1>5. k \in DOMAIN bills[task[c].s]
  BY DEF LiveOf
<1>6. v \in Issued
  BY <1>4, <1>5 DEF Issued
<1>7. v \in Vouchers /\ tell \in SUBSET Vouchers
  <2> HIDE DEF v
  <2>1. v \in Vouchers
    BY <1>1, <1>6, IssuedRow
  <2> QED BY <1>3, <2>1
<1>8. t \in Task
  BY <1>1, <1>7, TaskMoves DEF Stages
<1>9. UNCHANGED <<day, lateFine, plans, ledger, told, history>>
  BY DEF FindLiveBill
<1>10. Typed'
  BY <1>3, <1>8, <1>9, AdvanceShape DEF Shape, Typed, plans, ledger, history
<1>11. Issued' = Issued
  BY <1>9 DEF Issued, ledger
<1>12. task'[c] = t
  BY <1>3, <1>8, AdvanceShape
<1>13. t.at = "lock" /\ t.v = v /\ t.fee = task[c].fee /\ t.pay = task[c].pay /\ t.s = task[c].s
  BY <1>1 DEF Task
<1>14. v[1] = task[c].s
  OBVIOUS
<1>15. LinkedAt(c)'
  <2> HIDE DEF t, v
  <2> QED BY <1>1, <1>4, <1>6, <1>11, <1>12, <1>13, <1>14, ConstantFacts DEF LinkedAt
<1> QED BY <1>3, <1>8, <1>10, <1>11, <1>15, LinkOne DEF Shape

LEMMA CommitPlanShape ==
  ASSUME Shape, NEW c \in Clerks, CommitPlan(c)
  PROVE  Shape'
<1> DEFINE t == IF task[c].tell = {} THEN Idle
                ELSE [Idle EXCEPT !.at = "notify", !.tell = task[c].tell]
<1>1. Advance(c, t) /\ WriteBill(c) /\ WritePlan(c) /\ UNCHANGED <<day, lateFine, payment, told>>
  BY DEF CommitPlan
<1>2. task[c] \in Task /\ task[c].fee \in Fees /\ task[c].tell \in SUBSET Vouchers
  BY TaskTyped DEF CommitPlan, Task
<1>3. t \in Task
  BY <1>2, IdleIsTask, NotifyIsTask
<1>4. Typed'
  BY <1>1, <1>2, <1>3, WritePlanTyped, WriteBillShape, AdvanceShape DEF Shape, Typed
<1>5. Issued' = Issued
  BY <1>1, WriteBillShape
<1>6. LinkedAt(c)'
  BY <1>1, <1>3, AdvanceShape, IdleLinks, NotifyLinks
<1> QED BY <1>1, <1>3, <1>4, <1>5, <1>6, LinkOne DEF Shape

LEMMA StartRunShape ==
  ASSUME Shape, NEW c \in Clerks, StartRun(c)
  PROVE  Shape'
<1>1. PICK chosen \in SUBSET {s \in Billable : Issuable(s)}, due \in DueDates :
        Advance(c, [Idle EXCEPT !.at = "issue", !.due = due, !.todo = {BillOf(s) : s \in chosen}])
  BY DEF StartRun
<1> DEFINE todo == {BillOf(s) : s \in chosen}
           t == [Idle EXCEPT !.at = "issue", !.due = due, !.todo = todo]
<1>2. chosen \subseteq Students
  BY DEF Billable, Shape, Typed
<1>3. ASSUME NEW s \in Students
      PROVE  BillOf(s) \in [s : Students, gross : Nat, discount : Nat]
  <2>1. TotalOfLines(feeLines[s]) \in Nat /\ concession[s] \in Nat
    BY TotalIsMoney DEF Shape, Typed
  <2>2. DiscountFor(TotalOfLines(feeLines[s]), concession[s]) \in Nat
    BY <2>1, MoneyFacts
  <2> QED BY <2>1, <2>2 DEF BillOf
<1>4. todo \in SUBSET [s : Students, gross : Nat, discount : Nat]
  BY <1>2, <1>3
<1>5. Advance(c, t) /\ due \in Nat \cup {NoDueDate}
  BY <1>1, ConstantFacts
<1> HIDE DEF todo
<1>6. t \in Task
  BY <1>4, <1>5, IdleIsTask DEF Task, Stages
<1>7. UNCHANGED <<day, lateFine, plans, ledger, told, history>>
  BY DEF StartRun
<1>8. Typed'
  BY <1>5, <1>6, <1>7, AdvanceShape DEF Shape, Typed, plans, ledger, history
<1>9. Issued' = Issued
  BY <1>7 DEF Issued, ledger
<1>10. t.at = "issue" /\ t.pay = None /\ t.fee = None
  BY DEF Idle
<1>11. task'[c] = t
  BY <1>5, <1>6, AdvanceShape
<1>12. LinkedAt(c)'
  <2> HIDE DEF t
  <2> QED BY <1>10, <1>11, ConstantFacts DEF LinkedAt
<1> QED BY <1>5, <1>6, <1>8, <1>9, <1>12, LinkOne DEF Shape

\* What a committed batch leaves: one more UNPAID bill for each of its students.
LEMMA BatchIssued ==
  ASSUME Shape, NEW c \in Clerks, IssueBatch(c)
  PROVE  \E made \in SUBSET Students :
           /\ bills' \in [Students -> Seq(BillRow)]
           /\ \A s \in Students \ made : bills'[s] = bills[s]
           /\ \A s \in made : /\ LiveOf(s) = {}
                              /\ bills'[s][NextNumber(s)] \in BillRow
                              /\ bills'[s] = Append(bills[s], bills'[s][NextNumber(s)])
                              /\ bills'[s][NextNumber(s)].status = "UNPAID"
                              /\ bills'[s][NextNumber(s)].paid = 0
                              /\ bills'[s][NextNumber(s)].cancelled = FALSE
                              /\ \E b \in task[c].todo :
                                   b.s = s /\ bills'[s][NextNumber(s)] = NewBill(b, task[c].due)
           /\ clean' = clean \cup {<<s, NextNumber(s)>> : s \in made}
           /\ \E todo \in SUBSET task[c].todo :
                Advance(c, [task[c] EXCEPT !.todo = todo,
                  !.tell = task[c].tell \cup {<<s, NextNumber(s)>> : s \in made}])
<1>1. task[c] \in Task /\ bills \in [Students -> Seq(BillRow)]
  BY TaskTyped DEF Shape, Typed
<1>2. PICK batch \in Batches(task[c].todo) :
        /\ \A s \in {b.s : b \in batch} :
             IndexAllows(s, NextNumber(s), NewBill(CHOOSE b \in batch : b.s = s, task[c].due))
        /\ bills' = [s \in Students |->
             IF s \in {b.s : b \in batch}
             THEN Append(bills[s], NewBill(CHOOSE b \in batch : b.s = s, task[c].due))
             ELSE bills[s]]
        /\ clean' = clean \cup {<<s, NextNumber(s)>> : s \in {b.s : b \in batch}}
        /\ Advance(c, [task[c] EXCEPT !.todo = task[c].todo \ batch,
                         !.tell = task[c].tell
                           \cup {<<s, NextNumber(s)>> : s \in {b.s : b \in batch}}])
  BY DEF IssueBatch
<1> DEFINE made == {b.s : b \in batch}
           bill(s) == NewBill(CHOOSE b \in batch : b.s = s, task[c].due)
<1>3. batch \subseteq [s : Students, gross : Nat, discount : Nat]
  BY <1>1 DEF Batches, Task
<1>4. made \in SUBSET Students
  BY <1>3
<1>5. ASSUME NEW s \in made PROVE bill(s) \in BillRow
  <2>1. PICK b \in batch : b.s = s
    OBVIOUS
  <2>2. (CHOOSE b2 \in batch : b2.s = s) \in batch
    BY <2>1
  <2>3. task[c].due \in Nat \cup {NoDueDate} /\ 0 \in Nat
    BY <1>1 DEF Task
  <2> QED BY <1>3, <2>2, <2>3 DEF NewBill, BillRow, Statuses
<1>6. ASSUME NEW s \in made
      PROVE  bill(s).status = "UNPAID" /\ bill(s).paid = 0 /\ bill(s).cancelled = FALSE
  BY DEF NewBill
<1>13. ASSUME NEW s \in made PROVE \E b \in task[c].todo : b.s = s /\ bill(s) = NewBill(b, task[c].due)
  <2>1. PICK b \in batch : b.s = s
    OBVIOUS
  <2>2. PICK b2 : b2 = CHOOSE b3 \in batch : b3.s = s
    OBVIOUS
  <2>3. b2 \in batch /\ b2.s = s
    BY <2>1, <2>2
  <2>4. bill(s) = NewBill(b2, task[c].due)
    BY <2>2
  <2> QED BY <2>3, <2>4 DEF Batches
<1>7. /\ \A s \in made : IndexAllows(s, NextNumber(s), bill(s))
      /\ bills' = [s \in Students |-> IF s \in made THEN Append(bills[s], bill(s)) ELSE bills[s]]
  BY <1>2
<1> HIDE DEF bill
<1>8. bills' \in [Students -> Seq(BillRow)]
  <2>1. ASSUME NEW s \in Students
        PROVE  (IF s \in made THEN Append(bills[s], bill(s)) ELSE bills[s]) \in Seq(BillRow)
    <3>1. CASE s \in made
      BY <1>1, <1>5, <3>1
    <3>2. CASE s \notin made
      BY <1>1, <3>2
    <3> QED BY <3>1, <3>2
  <2> QED BY <1>7, <2>1
<1>9. \A s \in Students \ made : bills'[s] = bills[s]
  BY <1>7
<1>10. ASSUME NEW s \in made
       PROVE  /\ LiveOf(s) = {}
              /\ bills'[s] = Append(bills[s], bills'[s][NextNumber(s)])
              /\ bills'[s][NextNumber(s)] = bill(s)
  <2>1. bills[s] \in Seq(BillRow) /\ s \in Students
    BY <1>1, <1>4
  <2>2. bills'[s] = Append(bills[s], bill(s))
    BY <1>7, <2>1
  <2>3. bills'[s][NextNumber(s)] = bill(s)
    BY <2>1, <2>2 DEF NextNumber
  <2>4. LiveOf(s) \subseteq {NextNumber(s)}
    BY <1>6, <1>7 DEF IndexAllows, Live
  <2>5. NextNumber(s) \notin DOMAIN bills[s]
    BY <2>1 DEF NextNumber
  <2> QED BY <2>2, <2>3, <2>4, <2>5 DEF LiveOf
<1>11. clean' = clean \cup {<<s, NextNumber(s)>> : s \in made}
  BY <1>2
<1>12. \E todo \in SUBSET task[c].todo :
         Advance(c, [task[c] EXCEPT !.todo = todo,
           !.tell = task[c].tell \cup {<<s, NextNumber(s)>> : s \in made}])
  <2>1. task[c].todo \ batch \in SUBSET task[c].todo
    OBVIOUS
  <2> QED BY <1>2, <2>1
<1> HIDE DEF made
<1>14. \A s \in made : /\ LiveOf(s) = {}
                       /\ bills'[s] = Append(bills[s], bills'[s][NextNumber(s)])
                       /\ bills'[s][NextNumber(s)] = bill(s)
                       /\ bill(s) \in BillRow
                       /\ bill(s).status = "UNPAID" /\ bill(s).paid = 0 /\ bill(s).cancelled = FALSE
                       /\ \E b \in task[c].todo : b.s = s /\ bill(s) = NewBill(b, task[c].due)
  BY <1>5, <1>6, <1>10, <1>13
<1>15. \A s \in made : /\ LiveOf(s) = {}
                       /\ bills'[s][NextNumber(s)] \in BillRow
                       /\ bills'[s] = Append(bills[s], bills'[s][NextNumber(s)])
                       /\ bills'[s][NextNumber(s)].status = "UNPAID"
                       /\ bills'[s][NextNumber(s)].paid = 0
                       /\ bills'[s][NextNumber(s)].cancelled = FALSE
                       /\ \E b \in task[c].todo :
                            b.s = s /\ bills'[s][NextNumber(s)] = NewBill(b, task[c].due)
  BY <1>14
<1> QED BY <1>4, <1>8, <1>9, <1>11, <1>12, <1>15

LEMMA IssueBatchShape ==
  ASSUME Shape, NEW c \in Clerks, IssueBatch(c)
  PROVE  Shape' /\ Issued \subseteq Issued'
<1>1. PICK made \in SUBSET Students :
        /\ bills' \in [Students -> Seq(BillRow)]
        /\ \A s \in Students \ made : bills'[s] = bills[s]
        /\ \A s \in made : /\ bills'[s][NextNumber(s)] \in BillRow
                           /\ bills'[s] = Append(bills[s], bills'[s][NextNumber(s)])
        /\ clean' = clean \cup {<<s, NextNumber(s)>> : s \in made}
        /\ \E todo \in SUBSET task[c].todo :
             Advance(c, [task[c] EXCEPT !.todo = todo,
               !.tell = task[c].tell \cup {<<s, NextNumber(s)>> : s \in made}])
  BY BatchIssued
<1> DEFINE new == {<<s, NextNumber(s)>> : s \in made}
<1>2. PICK todo \in SUBSET task[c].todo :
        Advance(c, [task[c] EXCEPT !.todo = todo, !.tell = task[c].tell \cup new])
  BY <1>1
<1> DEFINE t == [task[c] EXCEPT !.todo = todo, !.tell = task[c].tell \cup new]
<1>3. task[c] \in Task /\ LinkedAt(c) /\ bills \in [Students -> Seq(BillRow)]
  BY TaskTyped DEF Shape, Typed
<1>4. new \subseteq Vouchers
  BY <1>3 DEF Vouchers, NextNumber
<1>5. clean' = clean \cup new
  BY <1>1
<1> HIDE DEF new
<1>6. t \in Task
  BY <1>3, <1>4 DEF Task
<1>7. task[c].at = "issue" /\ UNCHANGED <<day, lateFine, plans, payment, told, fresh>>
  BY DEF IssueBatch
<1>8. Typed'
  BY <1>1, <1>2, <1>4, <1>5, <1>6, <1>7, AdvanceShape DEF Shape, Typed, plans
<1>9. ASSUME NEW s \in Students PROVE DOMAIN bills[s] \subseteq DOMAIN bills'[s]
  <2>1. bills[s] \in Seq(BillRow) /\ bills'[s] \in Seq(BillRow)
    BY <1>1, <1>3
  <2>2. CASE s \in made
    <3>1. /\ bills'[s] = Append(bills[s], bills'[s][NextNumber(s)])
          /\ bills'[s][NextNumber(s)] \in BillRow
      BY <1>1, <2>2
    <3>2. Len(bills'[s]) = Len(bills[s]) + 1 /\ Len(bills[s]) \in Nat
      BY <2>1, <3>1
    <3>3. DOMAIN bills[s] = 1..Len(bills[s]) /\ DOMAIN bills'[s] = 1..Len(bills'[s])
      BY <2>1, RowsAreNumbered
    <3>4. 1..Len(bills[s]) \subseteq 1..Len(bills'[s])
      BY <3>2
    <3> QED BY <3>3, <3>4
  <2>3. CASE s \notin made
    BY <1>1, <2>3
  <2> QED BY <2>2, <2>3
<1>10. Issued \subseteq Issued'
  BY <1>9 DEF Issued
<1>11. t.at = "issue" /\ t.pay = task[c].pay /\ t.fee = task[c].fee
  BY <1>3, <1>7 DEF Task
<1>12. task'[c] = t /\ \A d \in Clerks \ {c} : task'[d] = task[d]
  <2>1. Advance(c, t)
    BY <1>2
  <2> HIDE DEF t
  <2> QED BY <1>6, <2>1, AdvanceShape
<1>13. LinkedAt(c)'
  <2> HIDE DEF t
  <2> QED BY <1>3, <1>7, <1>11, <1>12, ConstantFacts DEF LinkedAt
<1>14. ASSUME NEW d \in Clerks, d # c PROVE LinkedAt(d)'
  <2>1. task'[d] = task[d]
    BY <1>12, <1>14
  <2> QED BY <1>10, <2>1, TaskTyped DEF LinkedAt
<1> QED BY <1>8, <1>10, <1>13, <1>14 DEF Shape, Linked

LEMMA RunDoneShape ==
  ASSUME Shape, NEW c \in Clerks, RunDone(c)
  PROVE  Shape'
<1> DEFINE t == [task[c] EXCEPT !.at = "notify"]
<1>1. Advance(c, t) /\ task[c].at = "issue"
  BY DEF RunDone
<1>2. task[c] \in Task /\ LinkedAt(c)
  BY TaskTyped
<1>3. t \in Task
  BY <1>2, TaskMoves DEF Stages
<1>4. UNCHANGED <<day, lateFine, plans, ledger, told, history>>
  BY DEF RunDone
<1>5. Typed'
  BY <1>1, <1>3, <1>4, AdvanceShape DEF Shape, Typed, plans, ledger, history
<1>6. Issued' = Issued
  BY <1>4 DEF Issued, ledger
<1>7. task'[c] = t
  BY <1>1, <1>3, AdvanceShape
<1>8. LinkedAt(c)'
  BY <1>1, <1>2, <1>7, ConstantFacts DEF LinkedAt, Task
<1> QED BY <1>1, <1>3, <1>5, <1>6, <1>8, LinkOne DEF Shape

\* Requests that end: the index or a rerun refused, told, or stopped.
LEMMA EndingShape ==
  ASSUME Shape, NEW c \in Clerks,
         RejectedByIndex(c) \/ RunRejected(c) \/ Notify(c) \/ Stopped(c)
  PROVE  Shape'
<1>1. task[c] \in Task /\ fresh \subseteq Clerks /\ told \subseteq Vouchers
  BY TaskTyped DEF Shape, Typed
<1>2. CASE RejectedByIndex(c) \/ Stopped(c)
  BY <1>1, <1>2, EndedShape DEF RejectedByIndex, Stopped, plans, ledger
<1>3. CASE RunRejected(c)
  BY <1>1, <1>3, EndedShape DEF RunRejected, plans, ledger, history
<1>4. CASE Notify(c)
  <2>1. told' \subseteq Vouchers
    BY <1>1, <1>4 DEF Notify, Task
  <2> QED BY <1>1, <1>4, <2>1, EndedShape DEF Notify, plans, ledger, history
<1> QED BY <1>2, <1>3, <1>4

\* Days passing, the late-fine rule, and admissions move no request.
LEMMA OfficeShape ==
  ASSUME Shape, Tick \/ UpdateFeeRules \/ \E s \in Students : Admit(s)
  PROVE  Shape' /\ UNCHANGED <<ledger, told, task, history>>
<1>1. UNCHANGED <<ledger, told, task, history>>
  BY DEF Tick, UpdateFeeRules, Admit
<1>2. Linked'
  BY <1>1 DEF Shape, Linked, LinkedAt, Issued, ledger
<1>3. ASSUME Tick PROVE Typed'
  <2>1. day' \in Nat /\ UNCHANGED <<lateFine, plans>>
    BY <1>3 DEF Tick, Shape, Typed
  <2> QED BY <1>1, <2>1 DEF Shape, Typed, plans, ledger, history
<1>4. ASSUME UpdateFeeRules PROVE Typed'
  BY <1>1, <1>4 DEF UpdateFeeRules, Shape, Typed, plans, ledger, history
<1>5. ASSUME NEW s \in Students, Admit(s) PROVE Typed'
  <2>1. PICK fee \in Fees : /\ feeLines' = [feeLines EXCEPT ![s][Admission] = fee.gross]
                            /\ concession' = [concession EXCEPT ![s] = fee.concession]
    BY <1>5 DEF Admit
  <2>2. fee.gross \in Nat /\ fee.concession \in Nat
    BY ConstantFacts
  <2> QED BY <1>1, <1>5, <2>1, <2>2 DEF Admit, Shape, Typed, ledger, history
<1> QED BY <1>1, <1>2, <1>3, <1>4, <1>5 DEF Shape

---------------------------------------------------------------------------
\* Every step keeps the shape. A void needs one fact more: the payment it
\* names belongs to a voucher that was issued.
PaymentsOnBills == \A p \in Recorded : payment[p].voucher \in Issued

LEMMA NextShape ==
  ASSUME Shape, PaymentsOnBills, [Next]_vars
  PROVE  Shape'
<1>1. CASE Tick \/ UpdateFeeRules \/ \E s \in Students : Admit(s)
  BY <1>1, OfficeShape
<1>2. ASSUME NEW c \in Clerks, Settling(c) PROVE Shape'
  BY <1>2, ReadRowShape, SumPaymentsShape, EndingShape, CommitPaymentShape DEF Settling
<1>3. ASSUME NEW c \in Clerks, Paying(c) PROVE Shape'
  BY <1>3, StartPaymentShape, CheckVoidShape, TakePaymentShape DEF Paying, PaymentsOnBills
<1>4. ASSUME NEW c \in Clerks, Cancelling(c) PROVE Shape'
  BY <1>4, CheckCancelShape, CommitCancelShape DEF Cancelling
<1>5. ASSUME NEW c \in Clerks, Planning(c) PROVE Shape'
  BY <1>5, StartPlanShape, NoLiveBillShape, FindLiveBillShape, ReadRowShape, CommitPlanShape
     DEF Planning
<1>6. ASSUME NEW c \in Clerks, Running(c) PROVE Shape'
  BY <1>6, StartRunShape, IssueBatchShape, EndingShape, RunDoneShape DEF Running
<1>7. ASSUME NEW c \in Clerks, Notify(c) \/ Stopped(c) PROVE Shape'
  BY <1>7, EndingShape
<1>8. CASE UNCHANGED vars
  <2>1. UNCHANGED <<day, lateFine, admitted, feeLines, concession, bills, payment,
                    told, task, fresh, clean>>
    BY <1>8 DEF vars, plans, ledger, history
  <2>2. Typed'
    BY <2>1 DEF Shape, Typed
  <2>3. Linked'
    BY <2>1 DEF Shape, Linked, LinkedAt, Issued
  <2> QED BY <2>2, <2>3 DEF Shape
<1> QED BY <1>1, <1>2, <1>3, <1>4, <1>5, <1>6, <1>7, <1>8 DEF Next

---------------------------------------------------------------------------
\* What a request in flight may count on about the payments: the one it voids
\* is the one it saw, the one it records is not there yet, and of two requests
\* on one payment both void it and one is still waiting for its row.
EntryHolds(c) ==
  task[c].pay \in Payments =>
    /\ task[c].at = "void" => task[c].entry.voided
    /\ task[c].entry.voided => /\ payment[task[c].pay].voucher = task[c].v
                               /\ payment[task[c].pay].amount = task[c].entry.amount
    /\ ~task[c].entry.voided => payment[task[c].pay] = Unrecorded

OneHolder(c, d) ==
  task[c].pay \in Payments /\ task[c].pay = task[d].pay =>
    /\ task[c].entry.voided /\ task[d].entry.voided
    /\ task[c].at = "void" \/ task[d].at = "void"

Ledgered ==
  /\ PaymentsOnBills
  /\ \A c \in Clerks : EntryHolds(c)
  /\ \A c, d \in Clerks : c # d => OneHolder(c, d)

LEMMA InitLedgered == Init => Ledgered
BY ConstantFacts DEF Init, Ledgered, PaymentsOnBills, EntryHolds, OneHolder, Recorded,
   Unrecorded, Idle

\* A clerk whose request changes, and no other's.
LEMMA HoldersKept ==
  ASSUME Ledgered, NEW c \in Clerks,
         \A d \in Clerks \ {c} : task'[d] = task[d],
         \A d \in Clerks \ {c} : OneHolder(c, d)'
  PROVE  (\A d, e \in Clerks : d # e => OneHolder(d, e))'
<1> SUFFICES ASSUME NEW d \in Clerks, NEW e \in Clerks, d # e PROVE OneHolder(d, e)'
  OBVIOUS
<1>1. CASE d = c
  BY <1>1
<1>2. CASE e = c
  BY <1>2 DEF OneHolder
<1>3. CASE d # c /\ e # c
  BY <1>3 DEF Ledgered, OneHolder
<1> QED BY <1>1, <1>2, <1>3

\* A step that leaves the payments alone and gives clerk c no payment, or
\* leaves it the one whose row it holds.
LEMMA LedgeredKept ==
  ASSUME Shape, Ledgered, NEW c \in Clerks, NEW t, Advance(c, t),
         payment' = payment, Issued \subseteq Issued',
         \/ t.pay = None
         \/ /\ t.pay = task[c].pay /\ t.entry = task[c].entry /\ t.v = task[c].v
            /\ task[c].at # "void" /\ t.at # "void"
  PROVE  Ledgered'
<1>1. /\ task'[c] = t
      /\ \A d \in Clerks \ {c} : task'[d] = task[d]
  BY DEF Advance, Shape, Typed
<1>2. PaymentsOnBills'
  BY DEF Ledgered, PaymentsOnBills, Recorded
<1>3. ASSUME NEW d \in Clerks PROVE EntryHolds(d)'
  BY <1>1, ConstantFacts DEF Ledgered, EntryHolds
<1>4. ASSUME NEW d \in Clerks \ {c} PROVE OneHolder(c, d)'
  BY <1>1, ConstantFacts DEF Ledgered, OneHolder
<1> QED BY <1>1, <1>2, <1>3, <1>4, HoldersKept DEF Ledgered

LEMMA StartPaymentLedgered ==
  ASSUME Shape, Ledgered, NEW c \in Clerks, StartPayment(c)
  PROVE  Ledgered'
<1>1. PICK v \in Issued, p \in Payments \ Recorded, amount \in Amounts :
        /\ ~PaymentLocked(p)
        /\ Advance(c, [Idle EXCEPT !.at = "read", !.v = v, !.pay = p,
                      !.entry = [voucher |-> v, amount |-> amount, voided |-> FALSE],
                      !.today = day, !.rule = lateFine])
        /\ UNCHANGED <<day, lateFine, plans, ledger, told, history>>
  BY DEF StartPayment
<1>2. /\ task'[c].pay = p /\ task'[c].entry.voided = FALSE /\ task'[c].at = "read"
      /\ \A d \in Clerks \ {c} : task'[d] = task[d]
  BY <1>1 DEF Advance, Idle, Shape, Typed
<1>3. payment' = payment /\ Issued' = Issued
  BY <1>1 DEF ledger, Issued
<1>4. payment[p] = Unrecorded
  <2>1. payment[p] \in Entry \cup {Unrecorded} /\ payment[p].voucher = None
    BY DEF Recorded, Shape, Typed
  <2> QED BY <2>1, ConstantFacts DEF Entry
<1>5. \A d \in Clerks \ {c} : task[d].pay # p
  <2> SUFFICES ASSUME NEW d \in Clerks \ {c}, task[d].pay = p PROVE FALSE
    OBVIOUS
  <2>1. task[d].at = "void"
    BY <1>1, TaskTyped DEF PaymentLocked, LinkedAt
  <2>2. payment[p].voucher = task[d].v
    BY <2>1 DEF Ledgered, EntryHolds
  <2>3. task[d].v \in Vouchers
    BY <2>1, TaskTyped, IssuedRow DEF LinkedAt, Shape, Typed
  <2> QED BY <1>4, <2>2, <2>3, ConstantFacts DEF Unrecorded
<1>6. PaymentsOnBills'
  BY <1>3 DEF Ledgered, PaymentsOnBills, Recorded
<1>7. ASSUME NEW d \in Clerks PROVE EntryHolds(d)'
  BY <1>2, <1>3, <1>4 DEF Ledgered, EntryHolds
<1>8. ASSUME NEW d \in Clerks \ {c} PROVE OneHolder(c, d)'
  BY <1>2, <1>5 DEF OneHolder
<1> QED BY <1>2, <1>6, <1>7, <1>8, HoldersKept DEF Ledgered

LEMMA CheckVoidLedgered ==
  ASSUME Shape, Ledgered, NEW c \in Clerks, CheckVoid(c)
  PROVE  Ledgered'
<1>1. PICK p \in Recorded :
        /\ Advance(c, [Idle EXCEPT !.at = "void", !.v = payment[p].voucher, !.pay = p,
                      !.entry = [payment[p] EXCEPT !.voided = TRUE],
                      !.today = day, !.rule = lateFine])
        /\ UNCHANGED <<day, lateFine, plans, ledger, told, history>>
  BY DEF CheckVoid
<1>2. payment[p] \in Entry
  BY DEF Recorded, Shape, Typed, Unrecorded
<1>3. /\ task'[c].pay = p /\ task'[c].entry.voided = TRUE /\ task'[c].at = "void"
      /\ task'[c].v = payment[p].voucher /\ task'[c].entry.amount = payment[p].amount
      /\ \A d \in Clerks \ {c} : task'[d] = task[d]
  BY <1>1, <1>2 DEF Advance, Idle, Shape, Typed, Entry
<1>4. payment' = payment /\ Issued' = Issued
  BY <1>1 DEF ledger, Issued
<1>5. PaymentsOnBills'
  BY <1>4 DEF Ledgered, PaymentsOnBills, Recorded
<1>6. ASSUME NEW d \in Clerks PROVE EntryHolds(d)'
  BY <1>3, <1>4 DEF Ledgered, EntryHolds
<1>7. ASSUME NEW d \in Clerks \ {c} PROVE OneHolder(c, d)'
  <2>1. ASSUME task[d].pay = p PROVE task[d].entry.voided
    BY <2>1 DEF Ledgered, EntryHolds, Recorded, Unrecorded
  <2> QED BY <1>3, <2>1 DEF OneHolder
<1> QED BY <1>3, <1>5, <1>6, <1>7, HoldersKept DEF Ledgered

LEMMA TakePaymentLedgered ==
  ASSUME Shape, Ledgered, NEW c \in Clerks, TakePayment(c)
  PROVE  Ledgered'
<1>1. /\ task[c].at = "void" /\ ~PaymentLocked(task[c].pay)
      /\ task'[c] = [task[c] EXCEPT !.at = "read"]
      /\ \A d \in Clerks \ {c} : task'[d] = task[d]
  BY DEF TakePayment, Advance, Shape, Typed
<1>2. payment' = payment /\ Issued' = Issued
  BY DEF TakePayment, ledger, Issued
<1>3. /\ task'[c].at = "read" /\ task'[c].pay = task[c].pay
      /\ task'[c].entry = task[c].entry /\ task'[c].v = task[c].v
  BY <1>1, TaskTyped DEF Task
<1>4. PaymentsOnBills'
  BY <1>2 DEF Ledgered, PaymentsOnBills, Recorded
<1>5. ASSUME NEW d \in Clerks PROVE EntryHolds(d)'
  <2>1. EntryHolds(d)
    BY DEF Ledgered
  <2>2. CASE d = c
    <3>1. payment'[task[c].pay] = payment[task[c].pay] /\ EntryHolds(c)
      BY <1>2, <2>1, <2>2
    <3>2. "read" # "void"
      OBVIOUS
    <3>3. EntryHolds(c)'
      BY <1>3, <3>1, <3>2 DEF EntryHolds
    <3> QED BY <2>2, <3>3
  <2>3. CASE d # c
    BY <1>1, <1>2, <2>1, <2>3 DEF EntryHolds
  <2> QED BY <2>2, <2>3
<1>6. ASSUME NEW d \in Clerks \ {c} PROVE OneHolder(c, d)'
  <2>1. ASSUME task[c].pay \in Payments, task[d].pay = task[c].pay
        PROVE  task[d].at = "void"
    BY <1>1, <2>1, TaskTyped DEF PaymentLocked, LinkedAt
  <2> QED BY <1>1, <1>3, <2>1 DEF Ledgered, OneHolder
<1> QED BY <1>1, <1>4, <1>5, <1>6, HoldersKept DEF Ledgered

LEMMA CommitPaymentLedgered ==
  ASSUME Shape, Ledgered, NEW c \in Clerks, CommitPayment(c)
  PROVE  Ledgered'
<1>1. /\ payment' = OwnPayments(task[c]) /\ task[c].pay # None
      /\ WriteBill(c)
  BY DEF CommitPayment
<1>2. /\ task'[c].pay = None
      /\ \A d \in Clerks \ {c} : task'[d] = task[d]
  BY DEF CommitPayment, Advance, Idle, Shape, Typed
<1>3. /\ task[c].pay \in Payments /\ task[c].entry \in Entry /\ task[c].v \in Issued
      /\ task[c].entry.voucher = task[c].v /\ task[c].at = "write"
  BY <1>1, TaskTyped DEF LinkedAt, Task, WriteBill
<1>4. payment' = [payment EXCEPT ![task[c].pay] = task[c].entry] /\ Issued' = Issued
  BY <1>1, WriteBillShape DEF OwnPayments
<1>5. PaymentsOnBills'
  BY <1>3, <1>4 DEF Ledgered, PaymentsOnBills, Recorded, Shape, Typed
<1>6. ASSUME NEW d \in Clerks PROVE EntryHolds(d)'
  <2>1. CASE d = c
    BY <1>2, <2>1, ConstantFacts DEF EntryHolds
  <2>2. CASE d # c /\ task[d].pay # task[c].pay
    BY <1>2, <1>4, <2>2 DEF Ledgered, EntryHolds
  <2>3. CASE d # c /\ task[d].pay = task[c].pay
    <3>1. task[c].entry.voided /\ task[d].entry.voided
      BY <1>3, <2>3 DEF Ledgered, OneHolder
    <3>2. /\ payment[task[c].pay].voucher = task[d].v
          /\ payment[task[c].pay].amount = task[d].entry.amount
          /\ payment[task[c].pay].voucher = task[c].v
          /\ payment[task[c].pay].amount = task[c].entry.amount
      BY <1>3, <2>3, <3>1 DEF Ledgered, EntryHolds
    <3>3. payment'[task[c].pay] = task[c].entry
      BY <1>3, <1>4 DEF Shape, Typed
    <3> QED BY <1>2, <1>3, <2>3, <3>1, <3>2, <3>3 DEF EntryHolds
  <2> QED BY <2>1, <2>2, <2>3
<1>7. ASSUME NEW d \in Clerks \ {c} PROVE OneHolder(c, d)'
  BY <1>2, ConstantFacts DEF OneHolder
<1> QED BY <1>2, <1>5, <1>6, <1>7, HoldersKept DEF Ledgered

\* A settlement reads the row, then the payments: its ledger entry stays.
LEMMA SettlingLedgered ==
  ASSUME Shape, Ledgered, NEW c \in Clerks,
         ReadRow(c) \/ LockBill(c) \/ SumPayments(c)
  PROVE  Ledgered'
<1>1. payment' = payment /\ Issued' = Issued
  BY DEF ReadRow, LockBill, SumPayments, ledger, Issued
<1>2. task[c] \in Task
  BY TaskTyped
<1>3. CASE ReadRow(c) \/ LockBill(c)
  <2> DEFINE t == [task[c] EXCEPT !.at = "sum", !.seen = OwnRow(task[c])]
  <2>1. Advance(c, t) /\ task[c].at # "void"
    BY <1>3 DEF ReadRow, LockBill
  <2>2. t.pay = task[c].pay /\ t.entry = task[c].entry /\ t.v = task[c].v /\ t.at = "sum"
    BY <1>2 DEF Task
  <2> HIDE DEF t
  <2> QED BY <1>1, <2>1, <2>2, LedgeredKept
<1>4. CASE SumPayments(c)
  <2> DEFINE t == [task[c] EXCEPT !.at = "write",
                     !.paid = SumOf(LivePayments(OwnPayments(task[c]), task[c].v))]
  <2>1. Advance(c, t) /\ task[c].at # "void"
    BY <1>4 DEF SumPayments
  <2>2. t.pay = task[c].pay /\ t.entry = task[c].entry /\ t.v = task[c].v /\ t.at = "write"
    BY <1>2 DEF Task
  <2> HIDE DEF t
  <2> QED BY <1>1, <2>1, <2>2, LedgeredKept
<1> QED BY <1>3, <1>4

\* A request that ends, or becomes one that has no ledger entry to make.
LEMMA EndingLedgered ==
  ASSUME Shape, Ledgered, NEW c \in Clerks,
         \/ RejectedByIndex(c) \/ RunRejected(c) \/ Notify(c) \/ Stopped(c)
         \/ NoLiveBill(c) \/ CommitCancel(c) \/ CommitPlan(c)
  PROVE  Ledgered'
<1>1. payment' = payment
  BY DEF RejectedByIndex, RunRejected, Notify, Stopped, NoLiveBill, CommitCancel,
         CommitPlan, ledger
<1>2. Issued' = Issued
  <2>1. CASE CommitCancel(c)
    BY <2>1, CommitCancelShape
  <2>2. CASE CommitPlan(c)
    BY <2>2, WriteBillShape DEF CommitPlan
  <2> QED BY <2>1, <2>2 DEF RejectedByIndex, RunRejected, Notify, Stopped, NoLiveBill,
             ledger, Issued
<1>3. \E t : Advance(c, t) /\ t.pay = None
  <2>1. CASE CommitPlan(c)
    <3>1. Advance(c, IF task[c].tell = {} THEN Idle
                     ELSE [Idle EXCEPT !.at = "notify", !.tell = task[c].tell])
      BY <2>1 DEF CommitPlan
    <3>2. (IF task[c].tell = {} THEN Idle
           ELSE [Idle EXCEPT !.at = "notify", !.tell = task[c].tell]).pay = None
      BY DEF Idle
    <3> QED BY <3>1, <3>2
  <2>2. CASE ~CommitPlan(c)
    <3>1. Advance(c, Idle)
      BY <2>2 DEF RejectedByIndex, RunRejected, Notify, Stopped, NoLiveBill, CommitCancel
    <3>2. Idle.pay = None
      BY DEF Idle
    <3> QED BY <3>1, <3>2
  <2> QED BY <2>1, <2>2
<1> QED BY <1>1, <1>2, <1>3, LedgeredKept

\* Requests that begin and have no ledger entry to make.
LEMMA BeginningLedgered ==
  ASSUME Shape, Ledgered, NEW c \in Clerks, CheckCancel(c) \/ StartPlan(c) \/ StartRun(c)
  PROVE  Ledgered'
<1>1. payment' = payment /\ Issued' = Issued
  BY DEF CheckCancel, StartPlan, StartRun, ledger, Issued
<1>2. \E t : Advance(c, t) /\ t.pay = None
  <2>1. CASE CheckCancel(c)
    <3>1. PICK v \in Issued : Advance(c, [Idle EXCEPT !.at = "cancel", !.v = v])
      BY <2>1 DEF CheckCancel
    <3>2. [Idle EXCEPT !.at = "cancel", !.v = v].pay = None
      BY DEF Idle
    <3> QED BY <3>1, <3>2
  <2>2. CASE StartPlan(c)
    <3>1. PICK s \in admitted, fee \in Fees :
            Advance(c, [Idle EXCEPT !.at = "find", !.s = s, !.fee = fee,
                          !.replaced = {b \in DOMAIN feeLines[s] : feeLines[s][b] > 0},
                          !.today = day, !.rule = lateFine])
      BY <2>2 DEF StartPlan
    <3>2. [Idle EXCEPT !.at = "find", !.s = s, !.fee = fee,
             !.replaced = {b \in DOMAIN feeLines[s] : feeLines[s][b] > 0},
             !.today = day, !.rule = lateFine].pay = None
      BY DEF Idle
    <3> QED BY <3>1, <3>2
  <2>3. CASE StartRun(c)
    <3>1. PICK chosen \in SUBSET {s \in Billable : Issuable(s)}, due \in DueDates :
            Advance(c, [Idle EXCEPT !.at = "issue", !.due = due,
                                    !.todo = {BillOf(s) : s \in chosen}])
      BY <2>3 DEF StartRun
    <3>2. [Idle EXCEPT !.at = "issue", !.due = due,
                       !.todo = {BillOf(s) : s \in chosen}].pay = None
      BY DEF Idle
    <3> QED BY <3>1, <3>2
  <2> QED BY <2>1, <2>2, <2>3
<1> QED BY <1>1, <1>2, LedgeredKept

\* Steps of requests that have none.
LEMMA NoEntryLedgered ==
  ASSUME Shape, Ledgered, NEW c \in Clerks, FindLiveBill(c) \/ IssueBatch(c) \/ RunDone(c)
  PROVE  Ledgered'
<1>1. payment' = payment
  BY DEF FindLiveBill, IssueBatch, RunDone, ledger
<1>2. Issued \subseteq Issued'
  BY IssueBatchShape DEF FindLiveBill, RunDone, ledger, Issued
<1>3. task[c] \in Task /\ task[c].pay = None
  BY TaskTyped DEF FindLiveBill, IssueBatch, RunDone, LinkedAt, Task
<1>4. \E t : Advance(c, t) /\ t.pay = None
  <2>1. CASE FindLiveBill(c)
    <3>1. PICK v, tell : Advance(c, [task[c] EXCEPT !.at = "lock", !.v = v, !.tell = tell])
      BY <2>1 DEF FindLiveBill
    <3>2. [task[c] EXCEPT !.at = "lock", !.v = v, !.tell = tell].pay = None
      BY <1>3 DEF Task
    <3> QED BY <3>1, <3>2
  <2>2. CASE IssueBatch(c)
    <3>1. PICK todo, tell : Advance(c, [task[c] EXCEPT !.todo = todo, !.tell = tell])
      BY <2>2 DEF IssueBatch
    <3>2. [task[c] EXCEPT !.todo = todo, !.tell = tell].pay = None
      BY <1>3 DEF Task
    <3> QED BY <3>1, <3>2
  <2>3. CASE RunDone(c)
    <3>1. Advance(c, [task[c] EXCEPT !.at = "notify"])
      BY <2>3 DEF RunDone
    <3>2. [task[c] EXCEPT !.at = "notify"].pay = None
      BY <1>3 DEF Task
    <3> QED BY <3>1, <3>2
  <2> QED BY <2>1, <2>2, <2>3
<1> QED BY <1>1, <1>2, <1>4, LedgeredKept

LEMMA NextLedgered ==
  ASSUME Shape, Ledgered, [Next]_vars
  PROVE  Ledgered'
<1>1. ASSUME UNCHANGED <<bills, payment, task>> PROVE Ledgered'
  BY <1>1 DEF Ledgered, PaymentsOnBills, EntryHolds, OneHolder, Recorded, Issued
<1>2. CASE Tick \/ UpdateFeeRules \/ (\E s \in Students : Admit(s)) \/ UNCHANGED vars
  BY <1>1, <1>2, OfficeShape DEF ledger, vars
<1>3. ASSUME NEW c \in Clerks, Settling(c) \/ Paying(c) PROVE Ledgered'
  BY <1>3, SettlingLedgered, EndingLedgered, CommitPaymentLedgered, StartPaymentLedgered,
     CheckVoidLedgered, TakePaymentLedgered DEF Settling, Paying
<1>4. ASSUME NEW c \in Clerks, Cancelling(c) \/ Planning(c) PROVE Ledgered'
  BY <1>4, BeginningLedgered, EndingLedgered, NoEntryLedgered, SettlingLedgered
     DEF Cancelling, Planning
<1>5. ASSUME NEW c \in Clerks, Running(c) \/ Notify(c) \/ Stopped(c) PROVE Ledgered'
  BY <1>5, BeginningLedgered, EndingLedgered, NoEntryLedgered DEF Running
<1> QED BY <1>2, <1>3, <1>4, <1>5 DEF Next

---------------------------------------------------------------------------
\* The state is well formed in every behaviour: what each row and each request
\* in flight holds, with sums of amounts where the columns hold sums.
THEOREM TypesHold == Spec => [](Shape /\ Ledgered)
<1>1. Init => Shape /\ Ledgered
  BY InitShape, InitLedgered
<1>2. Shape /\ Ledgered /\ [Next]_vars => Shape' /\ Ledgered'
  BY NextShape, NextLedgered DEF Ledgered
<1> QED BY <1>1, <1>2, PTL DEF Spec

---------------------------------------------------------------------------
\* Only these transactions write a bill; only a payment's writes a payment.
LEMMA WhoWrites ==
  ASSUME [Next]_vars
  PROVE  \/ UNCHANGED <<bills, payment, clean>>
         \/ \E c \in Clerks : CommitPayment(c) \/ CommitPlan(c) \/ CommitCancel(c) \/ IssueBatch(c)
<1>1. CASE Tick \/ UpdateFeeRules \/ (\E s \in Students : Admit(s)) \/ UNCHANGED vars
  BY <1>1 DEF Tick, UpdateFeeRules, Admit, vars, ledger, history
<1>2. ASSUME NEW c \in Clerks, Settling(c), ~CommitPayment(c)
      PROVE  UNCHANGED <<bills, payment, clean>>
  BY <1>2 DEF Settling, ReadRow, SumPayments, RejectedByIndex, ledger, history
<1>3. ASSUME NEW c \in Clerks, Paying(c) PROVE UNCHANGED <<bills, payment, clean>>
  BY <1>3 DEF Paying, StartPayment, CheckVoid, TakePayment, ledger, history
<1>4. ASSUME NEW c \in Clerks, Cancelling(c), ~CommitCancel(c)
      PROVE  UNCHANGED <<bills, payment, clean>>
  BY <1>4 DEF Cancelling, CheckCancel, ledger, history
<1>5. ASSUME NEW c \in Clerks, Planning(c), ~CommitPlan(c)
      PROVE  UNCHANGED <<bills, payment, clean>>
  BY <1>5 DEF Planning, StartPlan, NoLiveBill, FindLiveBill, LockBill, ledger, history
<1>6. ASSUME NEW c \in Clerks, Running(c), ~IssueBatch(c)
      PROVE  UNCHANGED <<bills, payment, clean>>
  BY <1>6 DEF Running, StartRun, RunRejected, RunDone, ledger, history
<1>7. ASSUME NEW c \in Clerks, Notify(c) \/ Stopped(c)
      PROVE  UNCHANGED <<bills, payment, clean>>
  BY <1>7 DEF Notify, Stopped, ledger, history
<1> QED BY <1>1, <1>2, <1>3, <1>4, <1>5, <1>6, <1>7 DEF Next

\* Row v after a step that writes bill b there and nowhere else.
LEMMA RowAfter ==
  ASSUME bills \in [Students -> Seq(BillRow)], NEW v \in Issued, NEW b \in BillRow,
         bills' = [bills EXCEPT ![v[1]][v[2]] = b]
  PROVE  /\ Row(v)' = b
         /\ \A w \in Issued : w # v => Row(w)' = Row(w)
         /\ \A s \in Students : DOMAIN bills'[s] = DOMAIN bills[s]
         /\ \A s \in Students : \A k \in DOMAIN bills[s] :
              bills'[s][k] = IF s = v[1] /\ k = v[2] THEN b ELSE bills[s][k]
<1>1. /\ v[1] \in Students /\ v[2] \in DOMAIN bills[v[1]]
      /\ \A w \in Issued : w[1] \in Students /\ w[2] \in DOMAIN bills[w[1]] /\ w = <<w[1], w[2]>>
  BY IssuedRow
<1>2. \A s \in Students : DOMAIN bills'[s] = DOMAIN bills[s]
  BY <1>1
<1>3. \A s \in Students : \A k \in DOMAIN bills[s] :
        bills'[s][k] = IF s = v[1] /\ k = v[2] THEN b ELSE bills[s][k]
  BY <1>1
<1>4. Row(v)' = b
  BY <1>1, <1>3 DEF Row
<1>5. ASSUME NEW w \in Issued, w # v PROVE Row(w)' = Row(w)
  <2>1. ~(w[1] = v[1] /\ w[2] = v[2])
    BY <1>1, <1>5
  <2> QED BY <1>1, <1>3, <2>1 DEF Row
<1> QED BY <1>2, <1>3, <1>4, <1>5

\* A written row leaves one live bill: it is cancelled, or the index allows it.
LEMMA OneLiveWritten ==
  ASSUME bills \in [Students -> Seq(BillRow)], OneLiveVoucher,
         NEW v \in Issued, NEW b \in BillRow,
         bills' = [bills EXCEPT ![v[1]][v[2]] = b], IndexAllows(v[1], v[2], b)
  PROVE  OneLiveVoucher'
<1> SUFFICES ASSUME NEW s \in Students, NEW j \in LiveOf(s)', NEW k \in LiveOf(s)'
             PROVE  j = k
  BY DEF OneLiveVoucher
<1>1. /\ j \in DOMAIN bills[s] /\ k \in DOMAIN bills[s]
      /\ Live(bills'[s][j]) /\ Live(bills'[s][k])
  BY RowAfter DEF LiveOf, Live
<1>2. /\ bills'[s][j] = IF s = v[1] /\ j = v[2] THEN b ELSE bills[s][j]
      /\ bills'[s][k] = IF s = v[1] /\ k = v[2] THEN b ELSE bills[s][k]
  BY <1>1, RowAfter
<1>3. CASE s = v[1] /\ Live(b)
  <2>1. LiveOf(s) \subseteq {v[2]}
    BY <1>3 DEF IndexAllows
  <2>2. \A i \in {j, k} : i = v[2] \/ i \in LiveOf(s)
    BY <1>1, <1>2 DEF LiveOf
  <2> QED BY <2>1, <2>2
<1>4. CASE ~(s = v[1] /\ Live(b))
  <2>1. j \in LiveOf(s) /\ k \in LiveOf(s)
    BY <1>1, <1>2, <1>4 DEF LiveOf
  <2> QED BY <2>1 DEF OneLiveVoucher
<1> QED BY <1>3, <1>4

LEMMA Appended ==
  ASSUME NEW q \in Seq(BillRow), NEW x
  PROVE  \A i \in DOMAIN Append(q, x) :
           i = Len(q) + 1 \/ (i \in DOMAIN q /\ Append(q, x)[i] = q[i])
OBVIOUS

LEMMA OneLiveNext ==
  ASSUME Shape, OneLiveVoucher, [Next]_vars
  PROVE  OneLiveVoucher'
<1>1. bills \in [Students -> Seq(BillRow)]
  BY DEF Shape, Typed
<1>2. CASE UNCHANGED <<bills, payment, clean>>
  BY <1>2 DEF OneLiveVoucher, LiveOf
<1>3. ASSUME NEW c \in Clerks, WriteBill(c) PROVE OneLiveVoucher'
  <2>1. /\ IndexAllows(task[c].v[1], task[c].v[2], Settled(task[c]))
        /\ bills' = [bills EXCEPT ![task[c].v[1]][task[c].v[2]] = Settled(task[c])]
    BY <1>3 DEF WriteBill
  <2> QED BY <1>1, <1>3, <2>1, WriteBillShape, OneLiveWritten
<1>4. ASSUME NEW c \in Clerks, CommitCancel(c) PROVE OneLiveVoucher'
  <2> DEFINE b == [Row(task[c].v) EXCEPT !.status = "CANCELLED", !.cancelled = TRUE]
  <2>1. task[c].v \in Issued /\ bills' = [bills EXCEPT ![task[c].v[1]][task[c].v[2]] = b]
    BY <1>4, CommitCancelShape
  <2>2. b \in BillRow /\ b.status = "CANCELLED"
    BY <1>1, <2>1, IssuedRow DEF BillRow, Statuses
  <2>3. IndexAllows(task[c].v[1], task[c].v[2], b)
    BY <2>2 DEF IndexAllows, Live
  <2> HIDE DEF b
  <2> QED BY <1>1, <2>1, <2>2, <2>3, OneLiveWritten
<1>5. ASSUME NEW c \in Clerks, IssueBatch(c) PROVE OneLiveVoucher'
  <2>1. PICK made \in SUBSET Students :
          /\ \A s \in Students \ made : bills'[s] = bills[s]
          /\ \A s \in made : /\ LiveOf(s) = {}
                             /\ bills'[s] = Append(bills[s], bills'[s][NextNumber(s)])
    BY <1>5, BatchIssued
  <2> SUFFICES ASSUME NEW s \in Students, NEW j \in LiveOf(s)', NEW k \in LiveOf(s)'
               PROVE  j = k
    BY DEF OneLiveVoucher
  <2>2. CASE s \notin made
    BY <2>1, <2>2 DEF OneLiveVoucher, LiveOf
  <2>3. CASE s \in made
    <3>1. bills[s] \in Seq(BillRow) /\ bills'[s] = Append(bills[s], bills'[s][NextNumber(s)])
      BY <1>1, <2>1, <2>3
    <3>2. \A i \in DOMAIN bills'[s] :
            i = NextNumber(s) \/ (i \in DOMAIN bills[s] /\ bills'[s][i] = bills[s][i])
      BY <3>1, Appended DEF NextNumber
    <3>3. LiveOf(s) = {}
      BY <2>1, <2>3
    <3>4. j = NextNumber(s) /\ k = NextNumber(s)
      BY <3>2, <3>3 DEF LiveOf
    <3> QED BY <3>4
  <2> QED BY <2>2, <2>3
<1> QED BY <1>2, <1>3, <1>4, <1>5, WhoWrites DEF CommitPayment, CommitPlan

\* No student ever has two live vouchers, however many runs, settlements and
\* cancellations overlap: the partial unique index is what holds it.
THEOREM OneLiveVoucherHolds == Spec => []OneLiveVoucher
<1>1. Init => OneLiveVoucher
  BY DEF Init, OneLiveVoucher, LiveOf
<1>2. Shape /\ OneLiveVoucher /\ [Next]_vars => OneLiveVoucher'
  BY OneLiveNext
<1>3. Spec => []Shape
  BY TypesHold, PTL
<1> QED BY <1>1, <1>2, <1>3, PTL DEF Spec

---------------------------------------------------------------------------
\* A payment, once in the ledger, keeps its voucher and amount and stays void:
\* the only transactions that write it are its own insert and its own void.
LEMMA LedgerStep ==
  ASSUME Shape, Ledgered, [Next]_vars, NEW p \in Recorded
  PROVE  /\ payment'[p].voucher = payment[p].voucher
         /\ payment'[p].amount = payment[p].amount
         /\ payment[p].voided => payment'[p].voided
<1>1. CASE payment' = payment
  BY <1>1
<1>2. ASSUME NEW c \in Clerks, CommitPayment(c), task[c].pay # p
      PROVE  payment'[p] = payment[p]
  BY <1>2 DEF CommitPayment, OwnPayments, Shape, Typed
<1>3. ASSUME NEW c \in Clerks, CommitPayment(c), task[c].pay = p
      PROVE  /\ payment'[p].voucher = payment[p].voucher
             /\ payment'[p].amount = payment[p].amount
             /\ payment'[p].voided
  <2>1. p \in Payments /\ payment[p].voucher # None
    BY DEF Recorded
  <2>2. task[c].entry.voided
    BY <1>3, <2>1 DEF Ledgered, EntryHolds, Unrecorded
  <2>3. payment'[p] = task[c].entry
    BY <1>3, <2>1, ConstantFacts DEF CommitPayment, OwnPayments, Shape, Typed
  <2>4. task[c].entry.voucher = task[c].v
    BY <1>3, <2>1, TaskTyped DEF LinkedAt
  <2> QED BY <1>3, <2>1, <2>2, <2>3, <2>4 DEF Ledgered, EntryHolds
<1>4. ASSUME NEW c \in Clerks, CommitPlan(c) \/ CommitCancel(c) \/ IssueBatch(c)
      PROVE  payment' = payment
  BY <1>4 DEF CommitPlan, CommitCancel, IssueBatch
<1> QED BY <1>1, <1>2, <1>3, <1>4, WhoWrites

\* A recorded payment keeps its voucher and amount, and a void is never taken
\* back, however requests overlap (recordPayment, voidPayment).
THEOREM LedgerIsAppendOnly == Spec => LedgerAppendOnly
<1>1. Shape /\ Ledgered /\ [Next]_vars =>
        [\A p \in Recorded : /\ payment'[p].voucher = payment[p].voucher
                             /\ payment'[p].amount = payment[p].amount
                             /\ payment[p].voided => payment'[p].voided]_vars
  BY LedgerStep
<1> QED BY <1>1, TypesHold, PTL DEF Spec, LedgerAppendOnly

---------------------------------------------------------------------------
\* A settlement that nobody overtook: the row it read is the row as it stands,
\* and the sum it holds is that of the payments as they stand.
OwnLive(c) == LivePayments(OwnPayments(task[c]), task[c].v)

FreshIsTrue(c) ==
  c \in fresh =>
    /\ task[c].at \in {"sum", "write"}
    /\ task[c].seen = OwnRow(task[c])
    /\ task[c].at = "write" => task[c].paid = SumOf(OwnLive(c))

AllFresh == \A c \in Clerks : FreshIsTrue(c)

LEMMA SameLive ==
  ASSUME NEW v, NEW ps, NEW qs,
         \A p \in Payments : /\ ps[p].voucher = v <=> qs[p].voucher = v
                             /\ ps[p].voucher = v => ps[p] = qs[p]
  PROVE  LivePayments(ps, v) = LivePayments(qs, v)
<1>1. \A p \in Payments : (ps[p].voucher = v /\ ~ps[p].voided) <=> (qs[p].voucher = v /\ ~qs[p].voided)
  OBVIOUS
<1>2. {q \in Payments : ps[q].voucher = v /\ ~ps[q].voided}
        = {q \in Payments : qs[q].voucher = v /\ ~qs[q].voided}
  BY <1>1
<1> QED BY <1>2 DEF LivePayments

\* A payment's commit changes what has come in on its own voucher only.
LEMMA OthersPayments ==
  ASSUME Shape, Ledgered, NEW c \in Clerks, CommitPayment(c)
  PROVE  /\ \A w \in Vouchers : w # task[c].v =>
              LivePayments(payment', w) = LivePayments(payment, w)
         /\ \A d \in Clerks \ {c} : task[d].v \in Vouchers /\ task[d].v # task[c].v =>
              OwnLive(d)' = OwnLive(d)
<1>1. /\ task[c].pay \in Payments /\ task[c].entry.voucher = task[c].v
      /\ \A d \in Clerks \ {c} : task'[d] = task[d]
  BY TaskTyped DEF CommitPayment, LinkedAt, Task, Shape, Typed, Advance
<1>2. \A p \in Payments : payment'[p] = IF p = task[c].pay THEN task[c].entry ELSE payment[p]
  BY <1>1, ConstantFacts DEF CommitPayment, OwnPayments, Shape, Typed
<1>3. payment[task[c].pay].voucher = task[c].v \/ payment[task[c].pay].voucher = None
  BY <1>1 DEF Ledgered, EntryHolds, Unrecorded
<1>4. ASSUME NEW w \in Vouchers, w # task[c].v, NEW p \in Payments
      PROVE  /\ payment'[p].voucher = w <=> payment[p].voucher = w
             /\ payment[p].voucher = w => payment'[p] = payment[p]
  BY <1>1, <1>2, <1>3, <1>4, ConstantFacts
<1>5. \A w \in Vouchers : w # task[c].v => LivePayments(payment', w) = LivePayments(payment, w)
  BY <1>4, SameLive
<1>6. ASSUME NEW d \in Clerks \ {c}, task[d].v \in Vouchers, task[d].v # task[c].v
      PROVE  OwnLive(d)' = OwnLive(d)
  <2>1. task'[d] = task[d]
    BY <1>1
  <2>2. CASE task[d].pay = None
    BY <1>5, <1>6, <2>1, <2>2 DEF OwnLive, OwnPayments
  <2>3. CASE task[d].pay \in Payments
    <3> DEFINE now == [payment EXCEPT ![task[d].pay] = task[d].entry]
               next == [payment' EXCEPT ![task[d].pay] = task[d].entry]
    <3>1. task[d].pay # task[c].pay
      BY <1>1, <1>6, <2>3 DEF Ledgered, OneHolder, EntryHolds
    <3>2. DOMAIN payment = Payments /\ DOMAIN payment' = Payments
      BY <1>1 DEF CommitPayment, OwnPayments, Shape, Typed
    <3>3. \A p \in Payments :
            /\ now[p] = IF p = task[d].pay THEN task[d].entry ELSE payment[p]
            /\ next[p] = IF p = task[d].pay THEN task[d].entry ELSE payment'[p]
      BY <3>2
    <3>4. LivePayments(next, task[d].v) = LivePayments(now, task[d].v)
      <4> HIDE DEF now, next
      <4>1. \A p \in Payments :
              /\ next[p].voucher = task[d].v <=> now[p].voucher = task[d].v
              /\ next[p].voucher = task[d].v => next[p] = now[p]
        BY <1>4, <1>6, <3>3
      <4> QED BY <4>1, SameLive
    <3>5. OwnPayments(task[d]) = now /\ OwnPayments(task[d])' = next
      BY <2>1, <2>3, ConstantFacts DEF OwnPayments
    <3> HIDE DEF now, next
    <3>6. OwnLive(d) = LivePayments(now, task[d].v) /\ OwnLive(d)' = LivePayments(next, task[d].v)
      BY <2>1, <3>5 DEF OwnLive
    <3> QED BY <3>4, <3>6
  <2>4. task[d].pay \in Payments \cup {None}
    BY TaskTyped DEF Task
  <2> QED BY <2>2, <2>3, <2>4
<1> QED BY <1>5, <1>6

\* A batch leaves the rows issued before it as they were.
LEMMA BatchKeepsRows ==
  ASSUME Shape, NEW c \in Clerks, IssueBatch(c), NEW w \in Issued
  PROVE  Row(w)' = Row(w)
<1>1. PICK made \in SUBSET Students :
        /\ \A s \in Students \ made : bills'[s] = bills[s]
        /\ \A s \in made : bills'[s] = Append(bills[s], bills'[s][NextNumber(s)])
  BY BatchIssued
<1>2. w[1] \in Students /\ w[2] \in DOMAIN bills[w[1]] /\ bills[w[1]] \in Seq(BillRow)
  BY IssuedRow DEF Shape, Typed
<1>3. bills'[w[1]] = bills[w[1]] \/ \E x : bills'[w[1]] = Append(bills[w[1]], x)
  BY <1>1, <1>2
<1>4. bills'[w[1]][w[2]] = bills[w[1]][w[2]]
  BY <1>2, <1>3
<1> QED BY <1>4 DEF Row

\* Another clerk's step that leaves d's row, and what has come in on it, alone.
LEMMA FreshOther ==
  ASSUME Shape, NEW d \in Clerks, FreshIsTrue(d), d \in fresh' => d \in fresh,
         task'[d] = task[d],
         d \in fresh' => Row(task[d].v)' = Row(task[d].v) /\ OwnLive(d)' = OwnLive(d)
  PROVE  FreshIsTrue(d)'
<1> SUFFICES ASSUME d \in fresh'
             PROVE  /\ task'[d].at \in {"sum", "write"}
                    /\ task'[d].seen = OwnRow(task[d])'
                    /\ task'[d].at = "write" => task'[d].paid = SumOf(OwnLive(d)')
  BY DEF FreshIsTrue
<1>1. OwnRow(task[d])' = OwnRow(task[d])
  BY DEF OwnRow, Row
<1> QED BY <1>1 DEF FreshIsTrue

\* A step of c that writes neither a bill nor a payment.
LEMMA FreshQuiet ==
  ASSUME Shape, AllFresh, NEW c \in Clerks,
         UNCHANGED <<bills, payment>>, \A d \in Clerks \ {c} : task'[d] = task[d],
         fresh' \subseteq fresh \cup {c}, FreshIsTrue(c)'
  PROVE  AllFresh'
<1> SUFFICES ASSUME NEW d \in Clerks \ {c} PROVE FreshIsTrue(d)'
  BY DEF AllFresh
<1>1. Row(task[d].v)' = Row(task[d].v) /\ OwnLive(d)' = OwnLive(d)
  BY DEF Row, OwnLive, OwnPayments
<1> QED BY <1>1, FreshOther DEF AllFresh

\* The two statements of a settlement that read.
LEMMA SettlingFresh ==
  ASSUME Shape, AllFresh, NEW c \in Clerks, ReadRow(c) \/ LockBill(c) \/ SumPayments(c)
  PROVE  AllFresh'
<1>1. UNCHANGED <<bills, payment>> /\ fresh' \subseteq fresh \cup {c}
  BY DEF ReadRow, LockBill, SumPayments, ledger, history
<1>2. \A d \in Clerks \ {c} : task'[d] = task[d]
  BY DEF ReadRow, LockBill, SumPayments, Advance, Shape, Typed
<1>3. task[c] \in Task
  BY TaskTyped
<1>4. CASE ReadRow(c) \/ LockBill(c)
  <2>1. task'[c] = [task[c] EXCEPT !.at = "sum", !.seen = OwnRow(task[c])]
    BY <1>4 DEF ReadRow, LockBill, Advance, Shape, Typed
  <2>2. /\ task'[c].at = "sum" /\ task'[c].seen = OwnRow(task[c])
        /\ task'[c].v = task[c].v /\ task'[c].fee = task[c].fee
    BY <1>3, <2>1 DEF Task
  <2>3. OwnRow(task[c])' = OwnRow(task[c])
    BY <1>1, <2>2 DEF OwnRow, Row
  <2> QED BY <1>1, <1>2, <2>2, <2>3, FreshQuiet DEF FreshIsTrue
<1>5. CASE SumPayments(c)
  <2>1. task'[c] = [task[c] EXCEPT !.at = "write", !.paid = SumOf(OwnLive(c))] /\ fresh' = fresh
    BY <1>5 DEF SumPayments, Advance, Shape, Typed, OwnLive, history
  <2>2. /\ task'[c].at = "write" /\ task'[c].paid = SumOf(OwnLive(c))
        /\ task'[c].seen = task[c].seen /\ task'[c].v = task[c].v
        /\ task'[c].fee = task[c].fee /\ task'[c].pay = task[c].pay
        /\ task'[c].entry = task[c].entry
    BY <1>3, <2>1 DEF Task
  <2>3. OwnRow(task[c])' = OwnRow(task[c]) /\ OwnLive(c)' = OwnLive(c)
    BY <1>1, <2>2 DEF OwnRow, Row, OwnLive, OwnPayments
  <2>4. FreshIsTrue(c)'
    BY <2>1, <2>2, <2>3 DEF AllFresh, FreshIsTrue
  <2> QED BY <1>1, <1>2, <2>4, FreshQuiet
<1> QED BY <1>4, <1>5

\* The steps of requests that are not settling, or that cease to.
LEMMA OthersFresh ==
  ASSUME Shape, AllFresh, NEW c \in Clerks,
         \/ RejectedByIndex(c) \/ Paying(c) \/ CheckCancel(c) \/ StartPlan(c) \/ NoLiveBill(c)
         \/ FindLiveBill(c) \/ StartRun(c) \/ RunRejected(c) \/ RunDone(c)
         \/ Notify(c) \/ Stopped(c)
  PROVE  AllFresh'
<1>1. UNCHANGED <<bills, payment>>
  BY DEF RejectedByIndex, Paying, StartPayment, CheckVoid, TakePayment, CheckCancel, StartPlan,
         NoLiveBill, FindLiveBill, StartRun, RunRejected, RunDone, Notify, Stopped, ledger
<1>2. \E t : Advance(c, t)
  BY DEF RejectedByIndex, Paying, StartPayment, CheckVoid, TakePayment, CheckCancel, StartPlan,
         NoLiveBill, FindLiveBill, StartRun, RunRejected, RunDone, Notify, Stopped
<1>3. \A d \in Clerks \ {c} : task'[d] = task[d]
  BY <1>2 DEF Advance, Shape, Typed
<1>4. \/ task[c].at \notin {"sum", "write"} /\ fresh' = fresh
      \/ fresh' = fresh \ {c}
  <2>1. CASE StartPayment(c) \/ CheckVoid(c) \/ CheckCancel(c) \/ StartPlan(c) \/ StartRun(c)
    <3>1. task[c] = Idle /\ fresh' = fresh
      BY <2>1 DEF StartPayment, CheckVoid, CheckCancel, StartPlan, StartRun, history
    <3> QED BY <3>1 DEF Idle
  <2>2. CASE \/ TakePayment(c) \/ NoLiveBill(c) \/ FindLiveBill(c) \/ RunRejected(c)
             \/ RunDone(c) \/ Notify(c)
    BY <2>2 DEF TakePayment, NoLiveBill, FindLiveBill, RunRejected, RunDone, Notify, history
  <2>3. CASE RejectedByIndex(c) \/ Stopped(c)
    BY <2>3 DEF RejectedByIndex, Stopped
  <2> QED BY <2>1, <2>2, <2>3 DEF Paying
<1>5. c \notin fresh' /\ fresh' \subseteq fresh
  BY <1>4 DEF AllFresh, FreshIsTrue
<1> QED BY <1>1, <1>3, <1>5, FreshQuiet DEF FreshIsTrue

\* The transactions that write a bill overtake whoever is settling it.
LEMMA WritersFresh ==
  ASSUME Shape, Ledgered, AllFresh, NEW c \in Clerks,
         CommitPayment(c) \/ CommitPlan(c) \/ CommitCancel(c) \/ IssueBatch(c)
  PROVE  AllFresh'
<1>1. \E t : Advance(c, t)
  BY DEF CommitPayment, CommitPlan, CommitCancel, IssueBatch
<1>2. \A d \in Clerks \ {c} : task'[d] = task[d]
  BY <1>1 DEF Advance, Shape, Typed
<1>3. c \notin fresh' /\ fresh' \subseteq fresh
  BY DEF CommitPayment, CommitPlan, WriteBill, CommitCancel, Overtake, IssueBatch,
         AllFresh, FreshIsTrue
<1>4. ~IssueBatch(c) => \A d \in fresh' : task[d].v # task[c].v
  BY DEF CommitPayment, CommitPlan, WriteBill, CommitCancel, Overtake
<1>5. \A d \in fresh : d \in Clerks /\ task[d].v \in Issued /\ task[d].v \in Vouchers
  BY TaskTyped, IssuedRow DEF AllFresh, FreshIsTrue, LinkedAt, Shape, Typed
<1>6. ASSUME NEW d \in fresh', d \in Clerks PROVE Row(task[d].v)' = Row(task[d].v)
  <2>1. CASE CommitPayment(c) \/ CommitPlan(c)
    <3>1. WriteBill(c)
      BY <2>1 DEF CommitPayment, CommitPlan
    <3>2. bills' = [bills EXCEPT ![task[c].v[1]][task[c].v[2]] = Settled(task[c])]
      BY <3>1 DEF WriteBill
    <3>3. \A w \in Issued : w # task[c].v => bills'[w[1]][w[2]] = bills[w[1]][w[2]]
      <4>1. /\ task[c].v \in Issued /\ Settled(task[c]) \in BillRow
            /\ bills \in [Students -> Seq(BillRow)]
        BY <3>1, WriteBillShape DEF Shape, Typed
      <4>2. \A w \in Issued : w # task[c].v => Row(w)' = Row(w)
        BY <3>2, <4>1, RowAfter
      <4> QED BY <4>2 DEF Row
    <3>4. ~IssueBatch(c)
      BY <3>1 DEF IssueBatch, WriteBill
    <3> QED BY <1>2, <1>3, <1>4, <1>5, <3>3, <3>4 DEF Row
  <2>2. CASE CommitCancel(c)
    <3> DEFINE b == [Row(task[c].v) EXCEPT !.status = "CANCELLED", !.cancelled = TRUE]
    <3>1. task[c].v \in Issued /\ bills' = [bills EXCEPT ![task[c].v[1]][task[c].v[2]] = b]
      BY <2>2, CommitCancelShape
    <3>2. b \in BillRow
      <4>1. PICK row \in BillRow : row = Row(task[c].v)
        BY <3>1, IssuedRow DEF Shape, Typed
      <4>2. [row EXCEPT !.status = "CANCELLED", !.cancelled = TRUE] \in BillRow
        BY DEF BillRow, Statuses
      <4> QED BY <4>1, <4>2
    <3> HIDE DEF b
    <3>3. \A w \in Issued : w # task[c].v => bills'[w[1]][w[2]] = bills[w[1]][w[2]]
      BY <3>1, <3>2, RowAfter DEF Shape, Typed, Row
    <3>4. ~IssueBatch(c)
      BY <2>2 DEF IssueBatch, CommitCancel
    <3> QED BY <1>2, <1>3, <1>4, <1>5, <3>3, <3>4 DEF Row
  <2>3. CASE IssueBatch(c)
    <3>1. \A w \in Issued : bills'[w[1]][w[2]] = bills[w[1]][w[2]]
      BY <2>3, BatchKeepsRows DEF Row
    <3> QED BY <1>2, <1>3, <1>5, <3>1 DEF Row
  <2> QED BY <2>1, <2>2, <2>3
<1>7. ASSUME NEW d \in fresh', d \in Clerks PROVE OwnLive(d)' = OwnLive(d)
  <2>1. CASE CommitPayment(c)
    <3>1. ~IssueBatch(c)
      BY <2>1 DEF IssueBatch, CommitPayment, WriteBill
    <3> QED BY <1>3, <1>4, <1>5, <1>7, <2>1, <3>1, OthersPayments
  <2>2. CASE CommitPlan(c) \/ CommitCancel(c) \/ IssueBatch(c)
    <3>1. payment' = payment
      BY <2>2 DEF CommitPlan, CommitCancel, IssueBatch
    <3>2. task'[d] = task[d]
      BY <1>2, <1>3, <1>7
    <3> QED BY <3>1, <3>2 DEF OwnLive, OwnPayments
  <2> QED BY <2>1, <2>2
<1>8. ASSUME NEW d \in Clerks \ {c} PROVE FreshIsTrue(d)'
  <2>1. FreshIsTrue(d) /\ task'[d] = task[d] /\ (d \in fresh' => d \in fresh)
    BY <1>2, <1>3 DEF AllFresh
  <2> QED BY <2>1, <1>6, <1>7, FreshOther
<1> QED BY <1>3, <1>8 DEF AllFresh, FreshIsTrue

LEMMA NextFresh ==
  ASSUME Shape, Ledgered, AllFresh, [Next]_vars
  PROVE  AllFresh'
<1>1. ASSUME UNCHANGED <<bills, payment, task, fresh>> PROVE AllFresh'
  BY <1>1 DEF AllFresh, FreshIsTrue, OwnLive, OwnPayments, OwnRow, Row
<1>2. CASE Tick \/ UpdateFeeRules \/ (\E s \in Students : Admit(s)) \/ UNCHANGED vars
  BY <1>1, <1>2, OfficeShape DEF ledger, history, vars
<1>3. ASSUME NEW c \in Clerks, Settling(c) \/ Paying(c) PROVE AllFresh'
  BY <1>3, SettlingFresh, OthersFresh, WritersFresh DEF Settling
<1>4. ASSUME NEW c \in Clerks, Cancelling(c) \/ Planning(c) PROVE AllFresh'
  BY <1>4, SettlingFresh, OthersFresh, WritersFresh DEF Cancelling, Planning
<1>5. ASSUME NEW c \in Clerks, Running(c) \/ Notify(c) \/ Stopped(c) PROVE AllFresh'
  BY <1>5, OthersFresh, WritersFresh DEF Running
<1> QED BY <1>2, <1>3, <1>4, <1>5 DEF Next

\* A settlement that read the row as it stands writes the status that follows
\* from what it writes.
LEMMA SettledFollows ==
  ASSUME NEW t \in Task, t.seen \in BillRow, t.seen = OwnRow(t)
  PROVE  /\ Settled(t).paid = t.paid
         /\ Settled(t).status = StatusFor(Settled(t), Settled(t).cancelled)
<1> DEFINE row == t.seen
           asRead == [row EXCEPT !.paid = t.paid, !.fine = FineFor(t)]
           written == [row EXCEPT !.paid = t.paid, !.fine = FineFor(t),
                                  !.status = StatusFor(asRead, row.cancelled)]
<1>1. Settled(t) = written
  BY DEF Settled
<1>2. /\ written.paid = t.paid /\ written.cancelled = row.cancelled
      /\ written.status = StatusFor(asRead, row.cancelled)
      /\ written.gross = asRead.gross /\ written.discount = asRead.discount
      /\ written.fine = asRead.fine /\ written.paid = asRead.paid
  BY DEF BillRow
<1> HIDE DEF row, asRead, written
<1>3. StatusFor(written, row.cancelled) = StatusFor(asRead, row.cancelled)
  BY <1>2 DEF StatusFor, NetPayable
<1> QED BY <1>1, <1>2, <1>3

\* A bill just issued has nothing paid on it, and says so.
LEMMA NothingPaidIsUnpaid ==
  ASSUME NEW b, b.paid = 0, b.cancelled = FALSE
  PROVE  StatusFor(b, b.cancelled) = "UNPAID"
BY DEF StatusFor

LEMMA WrittenIsSettled ==
  ASSUME Shape, Ledgered, AllFresh, CleanIsSettled, NEW c \in Clerks,
         CommitPayment(c) \/ CommitPlan(c)
  PROVE  CleanIsSettled'
<1>1. WriteBill(c)
  BY DEF CommitPayment, CommitPlan
<1>2. PICK v \in Issued : v = task[c].v
  BY <1>1, WriteBillShape
<1>3. PICK b \in BillRow : b = Settled(task[c])
  BY <1>1, WriteBillShape
<1>4. /\ Issued' = Issued
      /\ bills \in [Students -> Seq(BillRow)]
      /\ bills' = [bills EXCEPT ![v[1]][v[2]] = b]
      /\ clean' = IF c \in fresh THEN clean \cup {v} ELSE clean \ {v}
  BY <1>1, <1>2, <1>3, WriteBillShape DEF WriteBill, Shape, Typed
<1>5. payment' = OwnPayments(task[c])
  <2>1. CASE CommitPayment(c)
    BY <2>1 DEF CommitPayment
  <2>2. CASE CommitPlan(c)
    <3>1. task[c].fee \in Fees /\ payment' = payment
      BY <2>2, TaskTyped DEF CommitPlan, Task
    <3>2. task[c].pay = None
      BY <3>1, TaskTyped DEF LinkedAt
    <3> QED BY <3>1, <3>2 DEF OwnPayments
  <2> QED BY <2>1, <2>2
<1>6. Row(v)' = b /\ \A w \in Issued : w # v => Row(w)' = Row(w)
  BY <1>4, RowAfter
<1>7. \A w \in Vouchers : w # v => LivePayments(payment', w) = LivePayments(payment, w)
  BY <1>2, OthersPayments DEF CommitPlan
<1> SUFFICES ASSUME NEW w \in Issued, w \in clean' PROVE IsSettled(w)'
  BY <1>4 DEF CleanIsSettled
<1>8. CASE w = v
  <2>1. c \in fresh /\ task[c] \in Task /\ task[c].at = "write"
    BY <1>1, <1>4, <1>8, TaskTyped DEF WriteBill
  <2>2. task[c].seen = OwnRow(task[c]) /\ task[c].paid = SumOf(OwnLive(c)) /\ task[c].seen \in BillRow
    BY <2>1, TaskTyped DEF AllFresh, FreshIsTrue, LinkedAt
  <2>3. PaidOn(v)' = task[c].paid
    BY <1>2, <1>5, <2>2 DEF PaidOn, OwnLive
  <2>4. b.paid = task[c].paid /\ b.status = StatusFor(b, b.cancelled)
    BY <1>3, <2>1, <2>2, SettledFollows
  <2> QED BY <1>6, <1>8, <2>3, <2>4 DEF IsSettled
<1>9. CASE w # v
  <2>1. w \in clean /\ w \in Vouchers
    BY <1>4, <1>9, IssuedRow
  <2>2. Row(w)' = Row(w) /\ PaidOn(w)' = PaidOn(w)
    BY <1>6, <1>7, <1>9, <2>1 DEF PaidOn
  <2>3. IsSettled(w)
    BY <2>1 DEF CleanIsSettled
  <2> QED BY <2>2, <2>3 DEF IsSettled
<1> QED BY <1>8, <1>9

\* Cancelling writes CANCELLED over whatever status the row had.
LEMMA CancelledIsSettled ==
  ASSUME Shape, CleanIsSettled, NEW c \in Clerks, CommitCancel(c)
  PROVE  CleanIsSettled'
<1>1. PICK v \in Issued : v = task[c].v
  BY CommitCancelShape
<1>2. PICK b : b = [Row(v) EXCEPT !.status = "CANCELLED", !.cancelled = TRUE]
  OBVIOUS
<1>3. /\ Issued' = Issued /\ bills \in [Students -> Seq(BillRow)]
      /\ bills' = [bills EXCEPT ![v[1]][v[2]] = b]
      /\ payment' = payment /\ clean' = clean
  BY <1>1, <1>2, CommitCancelShape DEF CommitCancel, Shape, Typed
<1>4. /\ b \in BillRow /\ b.paid = Row(v).paid
      /\ b.status = "CANCELLED" /\ b.cancelled = TRUE
  <2>1. Row(v) \in BillRow
    BY <1>3, IssuedRow
  <2> QED BY <1>2, <2>1 DEF BillRow, Statuses
<1>5. Row(v)' = b /\ \A w \in Issued : w # v => Row(w)' = Row(w)
  BY <1>3, <1>4, RowAfter
<1> SUFFICES ASSUME NEW w \in Issued, w \in clean PROVE IsSettled(w)'
  BY <1>3 DEF CleanIsSettled
<1>6. IsSettled(w) /\ PaidOn(w)' = PaidOn(w)
  BY <1>3 DEF CleanIsSettled, PaidOn
<1>7. CASE w = v
  BY <1>4, <1>5, <1>6, <1>7 DEF IsSettled, StatusFor
<1>8. CASE w # v
  BY <1>5, <1>6, <1>8 DEF IsSettled
<1> QED BY <1>7, <1>8

\* A bill just issued is UNPAID, and no payment names it.
LEMMA IssuedIsSettled ==
  ASSUME Shape, Ledgered, CleanIsSettled, NEW c \in Clerks, IssueBatch(c)
  PROVE  CleanIsSettled'
<1>1. PICK made \in SUBSET Students :
        /\ bills' \in [Students -> Seq(BillRow)]
        /\ \A s \in Students \ made : bills'[s] = bills[s]
        /\ \A s \in made : /\ bills'[s] = Append(bills[s], bills'[s][NextNumber(s)])
                           /\ bills'[s][NextNumber(s)].status = "UNPAID"
                           /\ bills'[s][NextNumber(s)].paid = 0
                           /\ bills'[s][NextNumber(s)].cancelled = FALSE
        /\ clean' = clean \cup {<<s, NextNumber(s)>> : s \in made}
  BY BatchIssued
<1>2. payment' = payment
  BY DEF IssueBatch
<1> SUFFICES ASSUME NEW w, w \in Issued', w \in clean' PROVE IsSettled(w)'
  BY DEF CleanIsSettled
<1>3. PaidOn(w)' = PaidOn(w)
  BY <1>2 DEF PaidOn
<1>4. CASE w \in Issued /\ w \in clean
  BY <1>3, <1>4, BatchKeepsRows DEF CleanIsSettled, IsSettled
<1>5. ASSUME NEW s \in made, w = <<s, NextNumber(s)>> PROVE IsSettled(w)'
  <2>1. bills[s] \in Seq(BillRow) /\ s \in Students
    BY DEF Shape, Typed
  <2>2. w \notin Issued
    <3>1. NextNumber(s) \notin DOMAIN bills[s]
      BY <2>1 DEF NextNumber
    <3> QED BY <1>5, <3>1 DEF Issued
  <2>3. w # None
    BY <1>5, <2>1, ConstantFacts DEF Vouchers, NextNumber
  <2>4. LivePayments(payment, w) = {}
    BY <2>2, <2>3 DEF LivePayments, Ledgered, PaymentsOnBills, Recorded
  <2>5. PaidOn(w) = 0
    BY <2>4, FS_EmptySet, SumIsNat DEF PaidOn
  <2>6. Row(w)'.paid = 0 /\ Row(w)'.cancelled = FALSE /\ Row(w)'.status = "UNPAID"
    BY <1>1, <1>5 DEF Row
  <2> QED BY <1>3, <2>5, <2>6, NothingPaidIsUnpaid DEF IsSettled
<1>6. w \in clean => w \in Issued \/ \E s \in made : w = <<s, NextNumber(s)>>
  <2> SUFFICES ASSUME w \in clean, w \notin Issued PROVE \E s \in made : w = <<s, NextNumber(s)>>
    OBVIOUS
  <2>1. PICK s \in Students : w \in {<<s, k>> : k \in DOMAIN bills'[s]}
    BY DEF Issued
  <2>2. PICK k \in DOMAIN bills'[s] : w = <<s, k>>
    BY <2>1
  <2>3. k \notin DOMAIN bills[s]
    BY <2>2 DEF Issued
  <2>4. s \in made
    BY <1>1, <2>2, <2>3
  <2>5. bills[s] \in Seq(BillRow) /\ bills'[s] = Append(bills[s], bills'[s][NextNumber(s)])
    BY <1>1, <2>4 DEF Shape, Typed
  <2>6. k = NextNumber(s)
    BY <2>2, <2>3, <2>5, Appended DEF NextNumber
  <2> QED BY <2>2, <2>4, <2>6
<1>7. w \in clean \/ \E s \in made : w = <<s, NextNumber(s)>>
  BY <1>1
<1> QED BY <1>4, <1>5, <1>6, <1>7

LEMMA CleanNext ==
  ASSUME Shape, Ledgered, AllFresh, CleanIsSettled, [Next]_vars
  PROVE  CleanIsSettled'
<1>1. CASE UNCHANGED <<bills, payment, clean>>
  BY <1>1 DEF CleanIsSettled, IsSettled, PaidOn, Row, Issued
<1> QED BY <1>1, WhoWrites, WrittenIsSettled, CancelledIsSettled, IssuedIsSettled

\* What a settlement that nobody overtook has read is so, and what it wrote.
LEMMA FreshHolds == Spec => [](AllFresh /\ CleanIsSettled)
<1>1. Init => AllFresh /\ CleanIsSettled
  BY DEF Init, AllFresh, FreshIsTrue, CleanIsSettled
<1>2. Shape /\ Ledgered /\ AllFresh /\ CleanIsSettled /\ [Next]_vars
        => AllFresh' /\ CleanIsSettled'
  BY NextFresh, CleanNext
<1> QED BY <1>1, <1>2, TypesHold, PTL DEF Spec

\* recomputeVoucher is right whenever nobody overtook it: the row then says
\* what its payments come to, whatever overlapped before and on other bills.
THEOREM CleanIsSettledHolds == Spec => []CleanIsSettled
BY FreshHolds, PTL

---------------------------------------------------------------------------
\* Requests one at a time.

\* At most one request is between its check and its end.
OneAtWork == \A c, d \in Clerks : task[c] # Idle /\ task[d] # Idle => c = d

\* What a request t with nobody beside it may count on until it ends.
CountsOn(t) ==
  /\ t.at \in {"void", "read", "lock", "sum", "write", "cancel"} => ~Row(t.v).cancelled
  /\ t.at = "cancel" => LivePayments(payment, t.v) = {}
  /\ t.pay \in Payments =>
       /\ t.entry.amount # 0 /\ ~payment[t.pay].voided
       /\ ~t.entry.voided => Row(t.v).status # "PAID"
  /\ t.fee \in Fees =>
       /\ t.s \in admitted
       /\ t.replaced = {b \in DOMAIN feeLines[t.s] : feeLines[t.s][b] > 0}
  /\ t.at = "issue" => \A b \in t.todo : b.s \in admitted /\ b = BillOf(b.s)

\* The request of clerk c: nobody has changed what it found, or will overtake it.
Undisturbed(c) == CountsOn(task[c]) /\ (task[c].at \in {"sum", "write"} => c \in fresh)

\* Nothing is written about a student who does not exist.
NobodyUnknown ==
  \A s \in Students \ admitted : bills[s] = <<>> /\ \A b \in DOMAIN feeLines[s] : feeLines[s][b] = 0

\* No payment of nothing, and no concession above the fee.
Sensible ==
  /\ \A p \in Recorded : payment[p].amount # 0
  /\ \A v \in Issued : Row(v).discount <= Row(v).gross

\* Every bill was last written by a settlement that saw all there was, and
\* the book is as the office means it.
OrderlyBook ==
  /\ Issued \subseteq clean
  /\ WithdrawnHoldsNoMoney /\ NobodyUnknown /\ Sensible /\ PlanIsOneForm /\ LiveBillFollowsPlan

Orderly == OrderlyBook /\ \A c \in Clerks : Undisturbed(c)

\* What holds however many requests overlap, and is proved above.
Sound == Shape /\ Ledgered /\ AllFresh /\ CleanIsSettled /\ OneLiveVoucher

\* Whoever steps is alone before and after.
LEMMA OthersIdle ==
  ASSUME Shape, OneAtWork, OneAtWork', NEW c \in Clerks, NEW t \in Task, Advance(c, t),
         task[c] # Idle \/ t # Idle
  PROVE  task'[c] = t /\ \A d \in Clerks \ {c} : task[d] = Idle /\ task'[d] = Idle
<1>1. task'[c] = t /\ \A d \in Clerks \ {c} : task'[d] = task[d]
  BY AdvanceShape
<1>2. \A d \in Clerks \ {c} : task[d] = Idle \/ task'[d] = Idle
  BY <1>1 DEF OneAtWork
<1> QED BY <1>1, <1>2

LEMMA IdleCounts == CountsOn(Idle) /\ Idle.at = "idle"
BY ConstantFacts DEF CountsOn, Idle

\* It is enough to look at the request that steps.
LEMMA OneUndisturbed ==
  ASSUME Shape, OneAtWork, OneAtWork', NEW c \in Clerks, NEW t \in Task, Advance(c, t),
         task[c] # Idle \/ t # Idle,
         CountsOn(t)', t.at \in {"sum", "write"} => c \in fresh'
  PROVE  \A d \in Clerks : Undisturbed(d)'
<1>1. task'[c] = t /\ \A d \in Clerks \ {c} : task'[d] = Idle
  BY OthersIdle
<1>2. CountsOn(Idle)' /\ Idle.at = "idle"
  BY ConstantFacts DEF CountsOn, Idle
<1>3. Undisturbed(c)'
  BY <1>1 DEF Undisturbed, CountsOn
<1>4. ASSUME NEW d \in Clerks \ {c} PROVE Undisturbed(d)'
  BY <1>1, <1>2 DEF Undisturbed, CountsOn
<1> QED BY <1>3, <1>4

\* A step that leaves the book alone.
LEMMA BookKept ==
  ASSUME OrderlyBook, UNCHANGED <<plans, ledger, clean>>
  PROVE  OrderlyBook'
<1>1. UNCHANGED <<admitted, feeLines, concession, bills, payment, clean>>
  BY DEF plans, ledger
<1>2. UNCHANGED <<Issued, Recorded>> /\ \A v : Row(v)' = Row(v)
  BY <1>1 DEF Issued, Recorded, Row
<1>3. \A s : LiveOf(s)' = LiveOf(s)
  BY <1>1 DEF LiveOf
<1>4. WithdrawnHoldsNoMoney'
  BY <1>1, <1>2 DEF OrderlyBook, WithdrawnHoldsNoMoney
<1>5. NobodyUnknown' /\ Sensible'
  BY <1>1, <1>2 DEF OrderlyBook, NobodyUnknown, Sensible
<1>6. PlanIsOneForm' /\ LiveBillFollowsPlan'
  BY <1>1, <1>3 DEF OrderlyBook, PlanIsOneForm, LiveBillFollowsPlan
<1> QED BY <1>1, <1>2, <1>4, <1>5, <1>6 DEF OrderlyBook

\* A step that leaves the book alone leaves what a request counts on.
LEMMA CountsKept ==
  ASSUME UNCHANGED <<plans, ledger>>, NEW t, CountsOn(t)
  PROVE  CountsOn(t)'
<1>1. UNCHANGED <<admitted, feeLines, concession, bills, payment>>
  BY DEF plans, ledger
<1>2. \A v : Row(v)' = Row(v)
  BY <1>1 DEF Row
<1>3. \A s : BillOf(s)' = BillOf(s)
  BY <1>1 DEF BillOf
<1> QED BY <1>1, <1>2, <1>3 DEF CountsOn

\* Both together, for a request that goes from its task to t.
LEMMA QuietStep ==
  ASSUME Shape, Orderly, OneAtWork, OneAtWork', NEW c \in Clerks, NEW t \in Task, Advance(c, t),
         task[c] # Idle \/ t # Idle, UNCHANGED <<plans, ledger, clean>>, CountsOn(t),
         t.at \in {"sum", "write"} => c \in fresh'
  PROVE  Orderly'
<1>1. UNCHANGED <<plans, ledger>>
  OBVIOUS
<1>2. CountsOn(t)'
  BY <1>1, CountsKept
<1>3. OrderlyBook'
  BY BookKept DEF Orderly
<1> QED BY <1>2, <1>3, OneUndisturbed DEF Orderly

\* A request that was at work goes on as it is.
LEMMA GoesOn ==
  ASSUME Shape, NEW c \in Clerks, CountsOn(task[c]), NEW t,
         task[c].at \in {"void", "read", "lock", "sum"}, t.at \in {"read", "sum", "write"},
         t.v = task[c].v, t.pay = task[c].pay, t.entry = task[c].entry, t.fee = task[c].fee,
              t.s = task[c].s,
         t.replaced = task[c].replaced
  PROVE  CountsOn(t)
BY DEF CountsOn

\* A bill that was never disturbed says of itself whether it was withdrawn.
LEMMA StandingBill ==
  ASSUME Sound, OrderlyBook, NEW v \in Issued
  PROVE  /\ IsSettled(v) /\ Row(v) \in BillRow
         /\ Live(Row(v)) <=> ~Row(v).cancelled
<1>1. IsSettled(v) /\ Row(v) \in BillRow
  BY IssuedRow DEF Sound, OrderlyBook, CleanIsSettled, Shape, Typed
<1> QED BY <1>1 DEF IsSettled, StatusFor, Live

\* Nothing paid on it, no payment stands on it.
LEMMA NoMoneyNoPayment ==
  ASSUME Sound, OrderlyBook, NEW v \in Vouchers, PaidOn(v) <= 0
  PROVE  LivePayments(payment, v) = {}
<1>1. payment \in [Payments -> Entry \cup {Unrecorded}]
  BY DEF Sound, Shape, Typed
<1>2. PICK L : L = LivePayments(payment, v)
  OBVIOUS
<1>3. IsFiniteSet(L) /\ \A x \in L : x[2] \in Nat
  BY <1>1, <1>2, LiveIsFinite
<1>4. SumOf(L) \in Nat /\ (SumOf(L) = 0 <=> \A x \in L : x[2] = 0)
  BY <1>3, SumIsNat
<1>5. \A x \in L : x[2] = 0
  BY <1>2, <1>4 DEF PaidOn
<1>6. ASSUME NEW x \in L PROVE FALSE
  <2>1. PICK p \in Payments : x = <<p, payment[p].amount>> /\ payment[p].voucher = v
    BY <1>2, <1>6 DEF LivePayments
  <2>2. p \in Recorded
    BY <2>1, ConstantFacts DEF Recorded
  <2> QED BY <1>5, <1>6, <2>1, <2>2 DEF OrderlyBook, Sensible
<1> QED BY <1>2, <1>6

---------------------------------------------------------------------------
\* Each request's statements keep the book in order: first those that write nothing.
LEMMA StartPaymentOrderly ==
  ASSUME Sound, Orderly, OneAtWork, OneAtWork', NEW c \in Clerks, StartPayment(c)
  PROVE  Orderly'
<1>0. Shape /\ OrderlyBook
  BY DEF Sound, Orderly
<1>1. PICK v \in Issued, p \in Payments \ Recorded, amount \in Amounts :
        /\ CanRecordPayment(Row(v))
        /\ Advance(c, [Idle EXCEPT !.at = "read", !.v = v, !.pay = p,
                      !.entry = [voucher |-> v, amount |-> amount, voided |-> FALSE],
                      !.today = day, !.rule = lateFine])
  BY DEF StartPayment
<1>2. v \in Vouchers /\ [voucher |-> v, amount |-> amount, voided |-> FALSE] \in Entry
  BY <1>0, IssuedRow, ConstantFacts DEF Shape, Typed, Entry
<1>3. day \in Nat /\ lateFine \in Nat
  BY <1>0, ConstantFacts DEF Shape, Typed
<1>4. PICK t : t = [Idle EXCEPT !.at = "read", !.v = v, !.pay = p,
                      !.entry = [voucher |-> v, amount |-> amount, voided |-> FALSE],
                      !.today = day, !.rule = lateFine]
  OBVIOUS
<1>5. t \in Task
  BY <1>2, <1>3, <1>4, IdleIsTask DEF Task, Stages, Idle
<1>6. /\ t.at = "read" /\ t.v = v /\ t.pay = p /\ t.fee = None
      /\ t.entry = [voucher |-> v, amount |-> amount, voided |-> FALSE]
  BY <1>4 DEF Idle
<1>7. ~Row(v).cancelled /\ Row(v).status # "PAID"
  BY <1>0, <1>1, StandingBill DEF CanRecordPayment, Live
<1>8. ~payment[p].voided
  BY <1>0, ConstantFacts DEF Shape, Typed, Recorded, Entry, Unrecorded
<1>9. CountsOn(t)
  BY <1>6, <1>7, <1>8, ConstantFacts, AmountsAssumption DEF CountsOn
<1>10. UNCHANGED <<plans, ledger, clean>> /\ Advance(c, t) /\ t # Idle
  BY <1>1, <1>4, <1>6 DEF StartPayment, history, Idle
<1> QED BY <1>0, <1>5, <1>6, <1>9, <1>10, QuietStep

LEMMA CheckVoidOrderly ==
  ASSUME Sound, Orderly, OneAtWork, OneAtWork', NEW c \in Clerks, CheckVoid(c)
  PROVE  Orderly'
<1>0. Shape /\ OrderlyBook /\ Ledgered
  BY DEF Sound, Orderly
<1>1. PICK p \in Recorded :
        /\ CanVoidPayment(payment[p])
        /\ Advance(c, [Idle EXCEPT !.at = "void", !.v = payment[p].voucher, !.pay = p,
                      !.entry = [payment[p] EXCEPT !.voided = TRUE],
                      !.today = day, !.rule = lateFine])
  BY DEF CheckVoid
<1>2. p \in Payments /\ payment[p] \in Entry /\ payment[p].voucher \in Issued
  BY <1>0 DEF Recorded, Shape, Typed, Unrecorded, Ledgered, PaymentsOnBills
<1>3. PICK e : e = [payment[p] EXCEPT !.voided = TRUE]
  OBVIOUS
<1>4. e \in Entry /\ e.voided /\ e.amount = payment[p].amount
  BY <1>2, <1>3 DEF Entry
<1>5. PICK v \in Issued : v = payment[p].voucher
  BY <1>2
<1>6. PICK t : t = [Idle EXCEPT !.at = "void", !.v = v, !.pay = p, !.entry = e, !.today = day,
     !.rule = lateFine]
  OBVIOUS
<1>7. day \in Nat /\ lateFine \in Nat /\ v \in Vouchers
  BY <1>0, ConstantFacts, IssuedRow DEF Shape, Typed
<1>8. t \in Task
  BY <1>2, <1>4, <1>6, <1>7, IdleIsTask DEF Task, Stages, Idle
<1>9. t.at = "void" /\ t.v = v /\ t.pay = p /\ t.fee = None /\ t.entry = e
  BY <1>6 DEF Idle
<1>10. <<p, payment[p].amount>> \in LivePayments(payment, v)
  BY <1>1, <1>2, <1>5 DEF LivePayments, CanVoidPayment
<1>11. ~Row(v).cancelled
  BY <1>0, <1>10 DEF OrderlyBook, WithdrawnHoldsNoMoney
<1>12. CountsOn(t)
  BY <1>0, <1>1, <1>4, <1>9, <1>11, ConstantFacts DEF CountsOn, OrderlyBook, Sensible, CanVoidPayment
<1>13. UNCHANGED <<plans, ledger, clean>> /\ Advance(c, t) /\ t # Idle
  BY <1>1, <1>3, <1>5, <1>6, <1>9 DEF CheckVoid, history, Idle
<1> QED BY <1>0, <1>8, <1>9, <1>12, <1>13, QuietStep

\* The statements of a request between its check and its write.
LEMMA GoingOnOrderly ==
  ASSUME Sound, Orderly, OneAtWork, OneAtWork', NEW c \in Clerks,
         TakePayment(c) \/ ReadRow(c) \/ LockBill(c) \/ SumPayments(c)
  PROVE  Orderly'
<1>0. Shape /\ OrderlyBook /\ task[c] \in Task /\ LinkedAt(c) /\ CountsOn(task[c])
  BY TaskTyped DEF Sound, Orderly, Undisturbed
<1>1. task[c] # Idle /\ UNCHANGED <<plans, ledger, clean>>
  BY DEF TakePayment, ReadRow, LockBill, SumPayments, history, Idle
<1>2. CASE TakePayment(c)
  <2>1. PICK t : t = [task[c] EXCEPT !.at = "read"]
    OBVIOUS
  <2>2. t \in Task
    BY <1>0, <2>1, TaskMoves DEF Stages
  <2>3. /\ t.at = "read" /\ t.v = task[c].v /\ t.pay = task[c].pay /\ t.entry = task[c].entry
        /\ t.fee = task[c].fee /\ t.s = task[c].s /\ t.replaced = task[c].replaced
    BY <1>0, <2>1 DEF Task
  <2>4. task[c].at = "void" /\ Advance(c, t)
    BY <1>2, <2>1 DEF TakePayment
  <2>5. CountsOn(t)
    BY <1>0, <2>3, <2>4, GoesOn
  <2> QED BY <1>0, <1>1, <2>2, <2>3, <2>4, <2>5, QuietStep
<1>3. CASE ReadRow(c) \/ LockBill(c)
  <2>1. PICK t : t = [task[c] EXCEPT !.at = "sum", !.seen = OwnRow(task[c])]
    OBVIOUS
  <2>2. OwnRow(task[c]) \in BillRow
    BY <1>0, <1>3, OwnRowIsBill DEF ReadRow, LockBill, LinkedAt, Shape, Typed
  <2>3. t \in Task
    BY <1>0, <2>1, <2>2, TaskMoves DEF Stages
  <2>4. /\ t.at = "sum" /\ t.v = task[c].v /\ t.pay = task[c].pay /\ t.entry = task[c].entry
        /\ t.fee = task[c].fee /\ t.s = task[c].s /\ t.replaced = task[c].replaced
    BY <1>0, <2>1 DEF Task
  <2>5. task[c].at \in {"read", "lock"} /\ Advance(c, t) /\ c \in fresh'
    BY <1>3, <2>1 DEF ReadRow, LockBill
  <2>6. CountsOn(t)
    BY <1>0, <2>4, <2>5, GoesOn
  <2> QED BY <1>0, <1>1, <2>3, <2>4, <2>5, <2>6, QuietStep
<1>4. CASE SumPayments(c)
  <2>1. PICK paid : paid = SumOf(LivePayments(OwnPayments(task[c]), task[c].v))
    OBVIOUS
  <2>2. paid \in Nat
    BY <1>0, <2>1, OwnPaymentsTyped, SumIsMoney DEF Shape, Typed
  <2>3. PICK t : t = [task[c] EXCEPT !.at = "write", !.paid = paid]
    OBVIOUS
  <2>4. t \in Task
    BY <1>0, <2>2, <2>3, TaskMoves DEF Stages
  <2>5. /\ t.at = "write" /\ t.v = task[c].v /\ t.pay = task[c].pay /\ t.entry = task[c].entry
        /\ t.fee = task[c].fee /\ t.s = task[c].s /\ t.replaced = task[c].replaced
    BY <1>0, <2>3 DEF Task
  <2>6. task[c].at = "sum" /\ Advance(c, t) /\ fresh' = fresh
    BY <1>4, <2>1, <2>3 DEF SumPayments, history
  <2>7. CountsOn(t) /\ c \in fresh'
    BY <1>0, <2>5, <2>6, GoesOn DEF Orderly, Undisturbed
  <2> QED BY <1>0, <1>1, <2>4, <2>5, <2>6, <2>7, QuietStep
<1> QED BY <1>2, <1>3, <1>4

LEMMA CheckCancelOrderly ==
  ASSUME Sound, Orderly, OneAtWork, OneAtWork', NEW c \in Clerks, CheckCancel(c)
  PROVE  Orderly'
<1>0. Shape /\ OrderlyBook
  BY DEF Sound, Orderly
<1>1. PICK v \in Issued : CanCancelVoucher(Row(v)) /\ Advance(c, [Idle EXCEPT !.at = "cancel", !.v = v])
  BY DEF CheckCancel
<1>2. v \in Vouchers
  BY <1>0, IssuedRow DEF Shape, Typed
<1>3. PICK t : t = [Idle EXCEPT !.at = "cancel", !.v = v]
  OBVIOUS
<1>4. t \in Task
  BY <1>2, <1>3, IdleIsTask DEF Task, Stages
<1>5. t.at = "cancel" /\ t.v = v /\ t.pay = None /\ t.fee = None
  BY <1>3 DEF Idle
<1>6. ~Row(v).cancelled /\ PaidOn(v) <= 0
  BY <1>0, <1>1, StandingBill DEF CanCancelVoucher, Live, IsSettled
<1>7. LivePayments(payment, v) = {}
  BY <1>0, <1>2, <1>6, NoMoneyNoPayment
<1>8. CountsOn(t)
  BY <1>5, <1>6, <1>7, ConstantFacts DEF CountsOn
<1>9. UNCHANGED <<plans, ledger, clean>> /\ Advance(c, t) /\ t # Idle
  BY <1>1, <1>3, <1>5 DEF CheckCancel, history, Idle
<1> QED BY <1>0, <1>4, <1>5, <1>8, <1>9, QuietStep

LEMMA StartPlanOrderly ==
  ASSUME Sound, Orderly, OneAtWork, OneAtWork', NEW c \in Clerks, StartPlan(c)
  PROVE  Orderly'
<1>0. Shape /\ OrderlyBook
  BY DEF Sound, Orderly
<1>1. PICK s \in admitted, fee \in Fees :
        Advance(c, [Idle EXCEPT !.at = "find", !.s = s, !.fee = fee,
                      !.replaced = {b \in DOMAIN feeLines[s] : feeLines[s][b] > 0},
                      !.today = day, !.rule = lateFine])
  BY DEF StartPlan
<1>2. PICK saw : saw = {b \in DOMAIN feeLines[s] : feeLines[s][b] > 0}
  OBVIOUS
<1>3. s \in Students /\ saw \in SUBSET (Clerks \cup {Admission}) /\ day \in Nat /\ lateFine \in Nat
  BY <1>0, <1>2, ConstantFacts DEF Shape, Typed
<1>4. PICK t : t = [Idle EXCEPT !.at = "find", !.s = s, !.fee = fee, !.replaced = saw,
                             !.today = day, !.rule = lateFine]
  OBVIOUS
<1>5. t \in Task
  BY <1>3, <1>4, IdleIsTask DEF Task, Stages
<1>6. t.at = "find" /\ t.fee = fee /\ t.s = s /\ t.pay = None /\ t.replaced = saw
  BY <1>4 DEF Idle
<1>7. CountsOn(t)
  BY <1>2, <1>6, ConstantFacts DEF CountsOn
<1>8. UNCHANGED <<plans, ledger, clean>> /\ Advance(c, t) /\ t # Idle
  BY <1>1, <1>2, <1>4, <1>6 DEF StartPlan, history, Idle
<1> QED BY <1>0, <1>5, <1>6, <1>7, <1>8, QuietStep

LEMMA FindLiveBillOrderly ==
  ASSUME Sound, Orderly, OneAtWork, OneAtWork', NEW c \in Clerks, FindLiveBill(c)
  PROVE  Orderly'
<1>0. Shape /\ OrderlyBook /\ task[c] \in Task /\ LinkedAt(c) /\ CountsOn(task[c])
  BY TaskTyped DEF Sound, Orderly, Undisturbed
<1>0a. PICK k \in LiveOf(task[c].s) :
        Advance(c, [task[c] EXCEPT !.at = "lock", !.v = <<task[c].s, k>>,
          !.tell = IF NetPayable(Rebilled(bills[task[c].s][k], task[c].fee))
                        # NetPayable(bills[task[c].s][k])
                   THEN {<<task[c].s, k>>} ELSE {}])
  BY DEF FindLiveBill
<1>2. PICK v : v = <<task[c].s, k>>
  OBVIOUS
<1>1. PICK tell \in {{v}, {}} : Advance(c, [task[c] EXCEPT !.at = "lock", !.v = v, !.tell = tell])
  BY <1>0a, <1>2
<1>3. task[c].at = "find" /\ task[c].fee \in Fees /\ task[c].s \in Students
  BY <1>0 DEF FindLiveBill, LinkedAt
<1>4. v \in Issued /\ Live(Row(v))
  BY <1>2, <1>3 DEF Issued, LiveOf, Row
<1>5. v \in Vouchers /\ tell \in SUBSET Vouchers
  BY <1>0, <1>1, <1>2, <1>4, IssuedRow DEF Shape, Typed
<1>6. PICK t : t = [task[c] EXCEPT !.at = "lock", !.v = v, !.tell = tell]
  OBVIOUS
<1>7. t \in Task
  BY <1>0, <1>5, <1>6, TaskMoves DEF Stages
<1>8. /\ t.at = "lock" /\ t.v = v /\ t.fee = task[c].fee /\ t.pay = task[c].pay /\ t.s = task[c].s
      /\ t.replaced = task[c].replaced
  BY <1>0, <1>6 DEF Task
<1>9. ~Row(v).cancelled /\ task[c].pay = None
  BY <1>0, <1>3, <1>4, StandingBill DEF LinkedAt
<1>10. CountsOn(t)
  BY <1>0, <1>3, <1>8, <1>9, ConstantFacts DEF CountsOn
<1>11. UNCHANGED <<plans, ledger, clean>> /\ Advance(c, t) /\ t # Idle
  <2>1. UNCHANGED <<plans, ledger, clean>>
    BY DEF FindLiveBill, history
  <2>2. t # Idle
    BY <1>8 DEF Idle
  <2> QED BY <1>1, <1>6, <2>1, <2>2
<1> QED BY <1>0, <1>7, <1>8, <1>10, <1>11, QuietStep

LEMMA StartRunOrderly ==
  ASSUME Sound, Orderly, OneAtWork, OneAtWork', NEW c \in Clerks, StartRun(c)
  PROVE  Orderly'
<1>0. Shape /\ OrderlyBook
  BY DEF Sound, Orderly
<1>1. PICK chosen \in SUBSET {s \in Billable : Issuable(s)}, due \in DueDates :
        Advance(c, [Idle EXCEPT !.at = "issue", !.due = due, !.todo = {BillOf(s) : s \in chosen}])
  BY DEF StartRun
<1>2. chosen \subseteq admitted /\ admitted \subseteq Students
  BY <1>0 DEF Billable, Shape, Typed
<1>3. ASSUME NEW s \in Students
      PROVE  BillOf(s) \in [s : Students, gross : Nat, discount : Nat] /\ BillOf(s).s = s
  <2>1. TotalOfLines(feeLines[s]) \in Nat /\ concession[s] \in Nat
    BY <1>0, TotalIsMoney DEF Shape, Typed
  <2>2. DiscountFor(TotalOfLines(feeLines[s]), concession[s]) \in Nat
    BY <2>1, MoneyFacts
  <2> QED BY <2>1, <2>2 DEF BillOf
<1>4. PICK todo : todo = {BillOf(s) : s \in chosen}
  OBVIOUS
<1>5. /\ todo \in SUBSET [s : Students, gross : Nat, discount : Nat]
      /\ \A b \in todo : b.s \in admitted /\ b = BillOf(b.s)
  BY <1>2, <1>3, <1>4
<1>6. PICK t : t = [Idle EXCEPT !.at = "issue", !.due = due, !.todo = todo]
  OBVIOUS
<1>7. due \in Nat \cup {NoDueDate}
  BY ConstantFacts
<1>8. t \in Task
  BY <1>5, <1>6, <1>7, IdleIsTask DEF Task, Stages
<1>9. t.at = "issue" /\ t.pay = None /\ t.fee = None /\ t.todo = todo
  BY <1>6 DEF Idle
<1>10. CountsOn(t)
  BY <1>5, <1>9, ConstantFacts DEF CountsOn
<1>11. UNCHANGED <<plans, ledger, clean>> /\ Advance(c, t) /\ t # Idle
  BY <1>1, <1>4, <1>6, <1>9 DEF StartRun, history, Idle
<1> QED BY <1>0, <1>8, <1>9, <1>10, <1>11, QuietStep

\* A request that ends without a write, or tells families what it has done.
LEMMA EndingOrderly ==
  ASSUME Sound, Orderly, OneAtWork, OneAtWork', NEW c \in Clerks,
         RejectedByIndex(c) \/ RunRejected(c) \/ Notify(c) \/ Stopped(c) \/ RunDone(c)
  PROVE  Orderly'
<1>0. Shape /\ task[c] \in Task /\ LinkedAt(c)
  BY TaskTyped DEF Sound, Orderly
<1>1. task[c] # Idle /\ UNCHANGED <<plans, ledger, clean>>
  BY DEF RejectedByIndex, RunRejected, Notify, Stopped, RunDone, history, Idle
<1>2. CASE Advance(c, Idle)
  BY <1>0, <1>1, <1>2, IdleIsTask, IdleCounts, QuietStep
<1>3. CASE RunDone(c)
  <2>1. PICK t : t = [task[c] EXCEPT !.at = "notify"]
    OBVIOUS
  <2>2. t \in Task
    BY <1>0, <2>1, TaskMoves DEF Stages
  <2>3. t.at = "notify" /\ t.pay = task[c].pay /\ t.fee = task[c].fee /\ Advance(c, t)
       /\ task[c].at = "issue"
    BY <1>0, <1>3, <2>1 DEF Task, RunDone
  <2>4. CountsOn(t)
    BY <1>0, <2>3, ConstantFacts DEF CountsOn, LinkedAt
  <2> QED BY <1>0, <1>1, <2>2, <2>3, <2>4, QuietStep
<1> QED BY <1>2, <1>3 DEF RejectedByIndex, RunRejected, Notify, Stopped

---------------------------------------------------------------------------
\* Then those that write.

\* A plan of one form comes to what that form says.
LEMMA TotalOfOneForm ==
  ASSUME NEW c \in Clerks, NEW n \in Nat, NEW lines,
         lines = [b \in Clerks \cup {Admission} |-> IF b = c THEN n ELSE 0]
  PROVE  TotalOfLines(lines) = n
<1>1. PICK P : P = {<<b, lines[b]>> : b \in DOMAIN lines}
  OBVIOUS
<1>2. PICK y : y = <<c, n>>
  OBVIOUS
<1>3. y \in P /\ y[2] \in Nat /\ \A x \in P : x # y => x[2] = 0
  BY <1>1, <1>2
<1>4. SumOf(P) = y[2]
  BY <1>3, SumOfOne
<1> QED BY <1>1, <1>2, <1>4 DEF TotalOfLines

\* A form that nobody disturbed replaces the whole plan.
LEMMA PlanWritten ==
  ASSUME Sound, Orderly, NEW c \in Clerks, task[c].fee \in Fees, WritePlan(c)
  PROVE  /\ task[c].s \in admitted /\ task[c].s \in Students /\ admitted' = admitted
         /\ TotalOfLines(feeLines'[task[c].s]) = task[c].fee.gross
         /\ concession'[task[c].s] = task[c].fee.concession
         /\ \A x \in Students \ {task[c].s} : feeLines'[x] = feeLines[x]
              /\ concession'[x] = concession[x]
         /\ PlanIsOneForm'
<1>1. PICK s : s = task[c].s
  OBVIOUS
<1>0. PICK fee \in Fees : fee = task[c].fee
  OBVIOUS
<1>2. /\ feeLines \in [Students -> [Clerks \cup {Admission} -> Nat]] /\ concession \in [Students -> Nat]
      /\ s \in Students /\ fee.gross \in Nat
  BY <1>0, <1>1, TaskTyped, ConstantFacts DEF Sound, Shape, Typed, LinkedAt
<1>3. s \in admitted /\ task[c].replaced = {b \in DOMAIN feeLines[s] : feeLines[s][b] > 0}
  BY <1>1 DEF Orderly, Undisturbed, CountsOn
<1>4. PICK R : R = {b \in Clerks \cup {Admission} : feeLines[s][b] > 0}
  OBVIOUS
<1>5. task[c].replaced = R
  BY <1>2, <1>3, <1>4
<1>6. feeLines' = [feeLines EXCEPT ![s] =
                     [b \in Clerks \cup {Admission} |-> IF b = c THEN fee.gross
                                                        ELSE IF b \in R THEN 0 ELSE feeLines[s][b]]]
  BY <1>0, <1>1, <1>2, <1>5 DEF WritePlan
<1>7. \A b \in Clerks \cup {Admission} : (IF b \in R THEN 0 ELSE feeLines[s][b]) = 0
  BY <1>2, <1>4
<1>8. feeLines'[s] = [b \in Clerks \cup {Admission} |-> IF b = c THEN fee.gross ELSE 0]
  BY <1>2, <1>6, <1>7
<1>9. TotalOfLines(feeLines'[s]) = fee.gross
  BY <1>2, <1>8, TotalOfOneForm
<1>10. concession'[s] = fee.concession /\ admitted' = admitted
  BY <1>0, <1>1, <1>2 DEF WritePlan
<1>11. ASSUME NEW x \in Students, x # s PROVE feeLines'[x] = feeLines[x]
     /\ concession'[x] = concession[x]
  BY <1>1, <1>2, <1>6, <1>11 DEF WritePlan
<1>12. PlanIsOneForm'
  <2> SUFFICES ASSUME NEW x \in Students, NEW a \in DOMAIN feeLines'[x], NEW b \in DOMAIN feeLines'[x],
                      feeLines'[x][a] > 0, feeLines'[x][b] > 0
               PROVE  a = b
    BY DEF PlanIsOneForm
  <2>1. CASE x = s
    BY <1>8, <2>1
  <2>2. CASE x # s
    BY <1>11, <2>2 DEF Orderly, OrderlyBook, PlanIsOneForm
  <2> QED BY <2>1, <2>2
<1> QED BY <1>0, <1>1, <1>2, <1>3, <1>9, <1>10, <1>11, <1>12

\* What a settlement that nobody disturbed writes.
LEMMA SettledFields ==
  ASSUME NEW t \in Task, t.seen \in BillRow, t.seen = OwnRow(t)
  PROVE  /\ Settled(t).gross = t.seen.gross /\ Settled(t).discount = t.seen.discount
         /\ Settled(t).due = t.seen.due /\ Settled(t).cancelled = t.seen.cancelled
         /\ Settled(t).fine = FineFor(t)
<1>1. PICK row \in BillRow : row = t.seen
  OBVIOUS
<1>2. PICK paid, fine, st : paid = t.paid /\ fine = FineFor(t)
                        /\ st = StatusFor([t.seen EXCEPT !.paid = t.paid, !.fine = FineFor(t)],
                             t.seen.cancelled)
  OBVIOUS
<1>3. Settled(t) = [row EXCEPT !.paid = paid, !.fine = fine, !.status = st]
  BY <1>1, <1>2 DEF Settled
<1> QED BY <1>1, <1>2, <1>3 DEF BillRow

\* What the write of an undisturbed request does.
LEMMA UndisturbedWrite ==
  ASSUME Sound, Orderly, NEW c \in Clerks, WriteBill(c), NEW v, v = task[c].v, NEW b,
         b = Settled(task[c])
  PROVE  /\ v \in Issued /\ b \in BillRow /\ task[c].seen \in BillRow /\ Row(v) \in BillRow
         /\ bills' = [bills EXCEPT ![v[1]][v[2]] = b] /\ Issued' = Issued /\ clean' = clean \cup {v}
         /\ task[c].seen = OwnRow(task[c]) /\ task[c].paid = SumOf(OwnLive(c))
         /\ ~Row(v).cancelled /\ Live(Row(v))
         /\ b.gross = task[c].seen.gross /\ b.discount = task[c].seen.discount
              /\ b.due = task[c].seen.due
         /\ ~b.cancelled /\ b.fine = FineFor(task[c]) /\ b.paid = task[c].paid
         /\ b.status = StatusFor(b, b.cancelled) /\ Live(b)
<1>1. Shape /\ OrderlyBook /\ task[c] \in Task /\ LinkedAt(c) /\ Undisturbed(c) /\ FreshIsTrue(c)
  BY TaskTyped DEF Sound, Orderly, AllFresh
<1>2. v \in Issued /\ b \in BillRow /\ Issued' = Issued
  BY <1>1, WriteBillShape
<1>3. task[c].at = "write" /\ c \in fresh /\ task[c].seen \in BillRow
  BY <1>1 DEF WriteBill, Undisturbed, LinkedAt
<1>4. bills' = [bills EXCEPT ![v[1]][v[2]] = b] /\ clean' = clean \cup {v}
  BY <1>3 DEF WriteBill
<1>5. task[c].seen = OwnRow(task[c]) /\ task[c].paid = SumOf(OwnLive(c))
  BY <1>1, <1>3 DEF FreshIsTrue
<1>6. ~Row(v).cancelled /\ Row(v) \in BillRow /\ Live(Row(v))
  BY <1>1, <1>2, <1>3, StandingBill DEF Undisturbed, CountsOn
<1>7. ~task[c].seen.cancelled
  <2>1. OwnRow(task[c]) \in {Row(v), Rebilled(Row(v), task[c].fee)}
    BY DEF OwnRow
  <2>2. Rebilled(Row(v), task[c].fee).cancelled = Row(v).cancelled
    BY <1>6 DEF Rebilled, BillRow
  <2> QED BY <1>5, <1>6, <2>1, <2>2
<1>8. /\ b.gross = task[c].seen.gross /\ b.discount = task[c].seen.discount /\ b.due = task[c].seen.due
      /\ ~b.cancelled /\ b.fine = FineFor(task[c])
  BY <1>1, <1>3, <1>5, <1>7, SettledFields
<1>9. b.paid = task[c].paid /\ b.status = StatusFor(b, b.cancelled)
  BY <1>1, <1>3, <1>5, SettledFollows
<1>10. Live(b)
  BY <1>8, <1>9 DEF Live, StatusFor
<1> QED BY <1>2, <1>3, <1>4, <1>5, <1>6, <1>8, <1>9, <1>10

\* Only students who exist have bills.
LEMMA BilledIsAdmitted ==
  ASSUME Sound, OrderlyBook, NEW v \in Issued
  PROVE  v[1] \in admitted
<1>1. v[1] \in Students /\ v[2] \in DOMAIN bills[v[1]]
  BY IssuedRow DEF Sound, Shape, Typed
<1> QED BY <1>1 DEF OrderlyBook, NobodyUnknown

\* A request that is done, or has families left to tell.
LEMMA EndsUndisturbed ==
  ASSUME Shape, OneAtWork, OneAtWork', NEW c \in Clerks, task[c] # Idle, NEW tell \in SUBSET Vouchers,
         \/ Advance(c, Idle)
         \/ Advance(c, [Idle EXCEPT !.at = "notify", !.tell = tell])
  PROVE  \A d \in Clerks : Undisturbed(d)'
<1>1. PICK t \in {Idle, [Idle EXCEPT !.at = "notify", !.tell = tell]} : Advance(c, t)
  OBVIOUS
<1>2. t \in Task /\ t.at \in {"idle", "notify"} /\ t.pay = None /\ t.fee = None
  <2>1. t \in Task
    BY IdleIsTask, NotifyIsTask
  <2>2. CASE t = Idle
    BY <2>1, <2>2 DEF Idle
  <2>3. PICK u : u = [Idle EXCEPT !.at = "notify", !.tell = tell]
    OBVIOUS
  <2>4. u.at = "notify" /\ u.pay = None /\ u.fee = None
    BY <2>3 DEF Idle
  <2> QED BY <1>1, <2>1, <2>2, <2>3, <2>4
<1>3. CountsOn(t)'
  BY <1>2, ConstantFacts DEF CountsOn
<1>4. task[c] # Idle \/ t # Idle
  OBVIOUS
<1>5. ~(t.at \in {"sum", "write"})
  BY <1>2
<1> QED BY <1>1, <1>2, <1>3, <1>4, <1>5, OneUndisturbed

\* One row written, to a bill that is within its fee.
LEMMA RowsStayWithinFees ==
  ASSUME Sound, OrderlyBook, NEW v \in Issued, NEW b \in BillRow,
         bills' = [bills EXCEPT ![v[1]][v[2]] = b], Issued' = Issued, b.discount <= b.gross
  PROVE  /\ \A w \in Issued' : Row(w)'.discount <= Row(w)'.gross
         /\ \A s \in Students \ admitted : bills'[s] = <<>>
<1>1. bills \in [Students -> Seq(BillRow)]
  BY DEF Sound, Shape, Typed
<1>2. Row(v)' = b /\ \A w \in Issued : w # v => Row(w)' = Row(w)
  BY <1>1, RowAfter
<1>3. v[1] \in admitted
  BY BilledIsAdmitted
<1>4. \A s \in Students : s # v[1] => bills'[s] = bills[s]
  BY <1>1
<1> QED BY <1>2, <1>3, <1>4 DEF OrderlyBook, Sensible, NobodyUnknown

LEMMA CommitPaymentOrderly ==
  ASSUME Sound, Orderly, OneAtWork, OneAtWork', NEW c \in Clerks, CommitPayment(c)
  PROVE  Orderly'
<1>1. PICK v, b : v = task[c].v /\ b = Settled(task[c])
  OBVIOUS
<1>2. Shape /\ Ledgered /\ OrderlyBook /\ task[c] \in Task /\ LinkedAt(c) /\ Undisturbed(c)
     /\ WriteBill(c)
  BY TaskTyped DEF Sound, Orderly, CommitPayment
<1>3. /\ v \in Issued /\ b \in BillRow /\ Row(v) \in BillRow
      /\ bills' = [bills EXCEPT ![v[1]][v[2]] = b] /\ Issued' = Issued /\ clean' = clean \cup {v}
      /\ task[c].seen = OwnRow(task[c]) /\ Live(Row(v)) /\ ~b.cancelled
      /\ b.gross = task[c].seen.gross /\ b.discount = task[c].seen.discount
  BY <1>1, <1>2, UndisturbedWrite
<1>4. task[c].pay \in Payments /\ task[c].fee = None /\ UNCHANGED plans
  BY <1>2, ConstantFacts DEF CommitPayment, Task, LinkedAt
<1>5. b.gross = Row(v).gross /\ b.discount = Row(v).discount
  BY <1>1, <1>3, <1>4 DEF OwnRow
<1>6. bills \in [Students -> Seq(BillRow)] /\ UNCHANGED <<admitted, feeLines, concession>>
  BY <1>2, <1>4 DEF Shape, Typed, plans
<1>7. /\ Row(v)' = b /\ \A w \in Issued : w # v => Row(w)' = Row(w)
      /\ \A s \in Students : DOMAIN bills'[s] = DOMAIN bills[s]
      /\ \A s \in Students : \A k \in DOMAIN bills[s] :
           bills'[s][k] = IF s = v[1] /\ k = v[2] THEN b ELSE bills[s][k]
  BY <1>3, <1>6, RowAfter
<1>8. Issued' \subseteq clean'
  BY <1>2, <1>3 DEF OrderlyBook
<1>9. WithdrawnHoldsNoMoney'
  <2> SUFFICES ASSUME NEW w \in Issued, Row(w)'.cancelled PROVE LivePayments(payment', w) = {}
    BY <1>3 DEF WithdrawnHoldsNoMoney
  <2>1. w # v /\ Row(w).cancelled
    BY <1>3, <1>7
  <2>2. LivePayments(payment', w) = LivePayments(payment, w)
    BY <1>1, <1>2, <1>6, <2>1, IssuedRow, OthersPayments
  <2> QED BY <1>2, <2>1, <2>2 DEF OrderlyBook, WithdrawnHoldsNoMoney
<1>10. NobodyUnknown' /\ \A w \in Issued' : Row(w)'.discount <= Row(w)'.gross
  <2>1. b.discount <= b.gross
    BY <1>2, <1>3, <1>5 DEF OrderlyBook, Sensible
  <2> QED BY <1>2, <1>3, <1>6, <2>1, RowsStayWithinFees DEF OrderlyBook, NobodyUnknown
<1>11. Sensible'
  <2>1. payment' = [payment EXCEPT ![task[c].pay] = task[c].entry]
    BY <1>4, ConstantFacts DEF CommitPayment, OwnPayments
  <2>2. task[c].entry.amount # 0
    BY <1>2, <1>4 DEF Undisturbed, CountsOn
  <2>3. \A p \in Recorded' : payment'[p].amount # 0
    BY <1>2, <1>4, <2>1, <2>2 DEF Recorded, OrderlyBook, Sensible, Shape, Typed
  <2> QED BY <1>10, <2>3 DEF Sensible
<1>12. PlanIsOneForm'
  BY <1>2, <1>6 DEF OrderlyBook, PlanIsOneForm
<1>13. LiveBillFollowsPlan'
  <2> SUFFICES ASSUME NEW s \in Students, NEW k \in LiveOf(s)'
               PROVE  /\ bills'[s][k].gross = TotalOfLines(feeLines[s])
                      /\ bills'[s][k].discount = DiscountFor(TotalOfLines(feeLines[s]), concession[s])
    BY <1>6 DEF LiveBillFollowsPlan
  <2>1. k \in DOMAIN bills[s] /\ Live(bills'[s][k])
    BY <1>7 DEF LiveOf, Live
  <2>2. k \in LiveOf(s) /\ bills'[s][k].gross = bills[s][k].gross
       /\ bills'[s][k].discount = bills[s][k].discount
    <3>1. CASE s = v[1] /\ k = v[2]
      BY <1>3, <1>5, <1>7, <2>1, <3>1 DEF LiveOf, Row
    <3>2. CASE ~(s = v[1] /\ k = v[2])
      BY <1>7, <2>1, <3>2 DEF LiveOf
    <3> QED BY <3>1, <3>2
  <2> QED BY <1>2, <2>2 DEF OrderlyBook, LiveBillFollowsPlan
<1>14. \A d \in Clerks : Undisturbed(d)'
  <2>1. v \in Vouchers /\ task[c] # Idle
    BY <1>2, <1>3, <1>6, IssuedRow DEF WriteBill, Idle
  <2>2. Advance(c, Idle) \/ Advance(c, [Idle EXCEPT !.at = "notify", !.tell = {v}])
    BY <1>1 DEF CommitPayment
  <2> QED BY <1>2, <2>1, <2>2, EndsUndisturbed
<1> QED BY <1>8, <1>9, <1>10, <1>11, <1>12, <1>13, <1>14 DEF Orderly, OrderlyBook

LEMMA CommitPlanOrderly ==
  ASSUME Sound, Sound', Orderly, OneAtWork, OneAtWork', NEW c \in Clerks, CommitPlan(c)
  PROVE  Orderly'
<1>1. PICK v, b, s, fee : v = task[c].v /\ b = Settled(task[c]) /\ s = task[c].s /\ fee = task[c].fee
  OBVIOUS
<1>2. /\ Shape /\ Ledgered /\ OrderlyBook /\ task[c] \in Task /\ LinkedAt(c) /\ Undisturbed(c)
      /\ WriteBill(c) /\ WritePlan(c) /\ UNCHANGED payment
  BY TaskTyped DEF Sound, Orderly, CommitPlan
<1>3. /\ v \in Issued /\ b \in BillRow /\ Row(v) \in BillRow
      /\ bills' = [bills EXCEPT ![v[1]][v[2]] = b] /\ Issued' = Issued /\ clean' = clean \cup {v}
      /\ task[c].seen = OwnRow(task[c]) /\ ~b.cancelled /\ Live(b)
      /\ b.gross = task[c].seen.gross /\ b.discount = task[c].seen.discount
  BY <1>1, <1>2, UndisturbedWrite
<1>4. fee \in Fees /\ v[1] = s /\ fee # None
  BY <1>1, <1>2, ConstantFacts DEF CommitPlan, WriteBill, Task, LinkedAt
<1>5. b.gross = fee.gross /\ b.discount = DiscountFor(fee.gross, fee.concession)
  BY <1>1, <1>3, <1>4 DEF OwnRow, Rebilled, BillRow
<1>6. /\ s \in admitted /\ s \in Students /\ admitted' = admitted
      /\ TotalOfLines(feeLines'[s]) = fee.gross /\ concession'[s] = fee.concession
      /\ \A x \in Students \ {s} : feeLines'[x] = feeLines[x] /\ concession'[x] = concession[x]
      /\ PlanIsOneForm'
  BY <1>1, <1>2, <1>4, PlanWritten
<1>7. bills \in [Students -> Seq(BillRow)]
  BY <1>2 DEF Shape, Typed
<1>8. /\ Row(v)' = b /\ \A w \in Issued : w # v => Row(w)' = Row(w)
      /\ \A x \in Students : DOMAIN bills'[x] = DOMAIN bills[x]
      /\ \A x \in Students : \A k \in DOMAIN bills[x] :
           bills'[x][k] = IF x = v[1] /\ k = v[2] THEN b ELSE bills[x][k]
  BY <1>3, <1>7, RowAfter
<1>9. Issued' \subseteq clean'
  BY <1>2, <1>3 DEF OrderlyBook
<1>10. WithdrawnHoldsNoMoney'
  <2> SUFFICES ASSUME NEW w \in Issued, Row(w)'.cancelled PROVE LivePayments(payment, w) = {}
    BY <1>2, <1>3 DEF WithdrawnHoldsNoMoney
  <2>1. w # v /\ Row(w).cancelled
    BY <1>3, <1>8
  <2> QED BY <1>2, <2>1 DEF OrderlyBook, WithdrawnHoldsNoMoney
<1>11. NobodyUnknown' /\ Sensible'
  <2>1. b.discount <= b.gross
    <3>1. fee.gross \in Nat /\ fee.concession \in Nat
      BY <1>4, ConstantFacts
    <3> QED BY <1>5, <3>1 DEF DiscountFor, AtLeastZero
  <2>2. /\ \A w \in Issued' : Row(w)'.discount <= Row(w)'.gross
        /\ \A x \in Students \ admitted : bills'[x] = <<>>
    BY <1>2, <1>3, <2>1, RowsStayWithinFees
  <2>3. NobodyUnknown'
    BY <1>2, <1>6, <2>2 DEF OrderlyBook, NobodyUnknown
  <2> QED BY <1>2, <2>2, <2>3 DEF OrderlyBook, Sensible, Recorded
<1>12. LiveBillFollowsPlan'
  <2> SUFFICES ASSUME NEW x \in Students, NEW k \in LiveOf(x)'
               PROVE  /\ bills'[x][k].gross = TotalOfLines(feeLines'[x])
                      /\ bills'[x][k].discount = DiscountFor(TotalOfLines(feeLines'[x]), concession'[x])
    BY DEF LiveBillFollowsPlan
  <2>1. CASE x = s
    <3>1. v[2] \in DOMAIN bills[s] /\ bills'[s][v[2]] = b
      BY <1>3, <1>4, <1>7, <1>8, IssuedRow
    <3>2. v[2] \in LiveOf(s)'
      BY <1>3, <1>6, <1>8, <3>1 DEF LiveOf, Live
    <3>3. k = v[2]
      BY <1>6, <2>1, <3>2 DEF Sound, OneLiveVoucher
    <3> QED BY <1>5, <1>6, <2>1, <3>1, <3>3
  <2>2. CASE x # s
    <3>1. k \in DOMAIN bills[x] /\ bills'[x][k] = bills[x][k] /\ Live(bills'[x][k])
      BY <1>4, <1>8, <2>2 DEF LiveOf, Live
    <3>2. k \in LiveOf(x)
      BY <3>1 DEF LiveOf
    <3> QED BY <1>2, <1>6, <2>2, <3>1, <3>2 DEF OrderlyBook, LiveBillFollowsPlan
  <2> QED BY <2>1, <2>2
<1>13. \A d \in Clerks : Undisturbed(d)'
  <2>1. task[c].tell \in SUBSET Vouchers /\ task[c] # Idle
    BY <1>2 DEF WriteBill, Idle, Task
  <2>2. Advance(c, Idle) \/ Advance(c, [Idle EXCEPT !.at = "notify", !.tell = task[c].tell])
    BY DEF CommitPlan
  <2> QED BY <1>2, <2>1, <2>2, EndsUndisturbed
<1> QED BY <1>6, <1>9, <1>10, <1>11, <1>12, <1>13 DEF Orderly, OrderlyBook

LEMMA CommitCancelOrderly ==
  ASSUME Sound, Orderly, OneAtWork, OneAtWork', NEW c \in Clerks, CommitCancel(c)
  PROVE  Orderly'
<1>1. PICK v, b : v = task[c].v /\ b = [Row(v) EXCEPT !.status = "CANCELLED", !.cancelled = TRUE]
  OBVIOUS
<1>2. Shape /\ OrderlyBook /\ Undisturbed(c)
  BY DEF Sound, Orderly
<1>3. v \in Issued /\ Issued' = Issued /\ bills' = [bills EXCEPT ![v[1]][v[2]] = b]
  BY <1>1, <1>2, CommitCancelShape
<1>4. /\ UNCHANGED <<admitted, feeLines, concession, payment, clean>> /\ task[c].at = "cancel"
     /\ task[c] # Idle
      /\ Advance(c, Idle) /\ bills \in [Students -> Seq(BillRow)]
  <2>1. bills \in [Students -> Seq(BillRow)]
    BY <1>2 DEF Shape, Typed
  <2>2. /\ UNCHANGED <<admitted, feeLines, concession, payment, clean>> /\ task[c].at = "cancel"
        /\ Advance(c, Idle)
    BY DEF CommitCancel, plans
  <2>3. task[c] # Idle
    BY <2>2 DEF Idle
  <2> QED BY <2>1, <2>2, <2>3
<1>5. /\ b \in BillRow /\ b.status = "CANCELLED" /\ b.cancelled
      /\ b.gross = Row(v).gross /\ b.discount = Row(v).discount
  <2>1. Row(v) \in BillRow
    BY <1>3, <1>4, IssuedRow
  <2> QED BY <1>1, <2>1 DEF BillRow, Statuses
<1>6. /\ Row(v)' = b /\ \A w \in Issued : w # v => Row(w)' = Row(w)
      /\ \A x \in Students : DOMAIN bills'[x] = DOMAIN bills[x]
      /\ \A x \in Students : \A k \in DOMAIN bills[x] :
           bills'[x][k] = IF x = v[1] /\ k = v[2] THEN b ELSE bills[x][k]
  BY <1>3, <1>4, <1>5, RowAfter
<1>7. Issued' \subseteq clean' /\ PlanIsOneForm'
  BY <1>2, <1>3, <1>4 DEF OrderlyBook, PlanIsOneForm
<1>8. WithdrawnHoldsNoMoney'
  <2> SUFFICES ASSUME NEW w \in Issued, Row(w)'.cancelled PROVE LivePayments(payment, w) = {}
    BY <1>3, <1>4 DEF WithdrawnHoldsNoMoney
  <2>1. CASE w = v
    BY <1>1, <1>2, <1>4, <2>1 DEF Undisturbed, CountsOn
  <2>2. CASE w # v
    BY <1>2, <1>6, <2>2 DEF OrderlyBook, WithdrawnHoldsNoMoney
  <2> QED BY <2>1, <2>2
<1>9. NobodyUnknown' /\ Sensible'
  <2>1. b.discount <= b.gross
    BY <1>2, <1>3, <1>5 DEF OrderlyBook, Sensible
  <2>2. /\ \A w \in Issued' : Row(w)'.discount <= Row(w)'.gross
        /\ \A x \in Students \ admitted : bills'[x] = <<>>
    BY <1>2, <1>3, <1>5, <2>1, RowsStayWithinFees
  <2> QED BY <1>2, <1>4, <2>2 DEF OrderlyBook, Sensible, Recorded, NobodyUnknown
<1>10. LiveBillFollowsPlan'
  <2> SUFFICES ASSUME NEW x \in Students, NEW k \in LiveOf(x)'
               PROVE  /\ bills'[x][k].gross = TotalOfLines(feeLines[x])
                      /\ bills'[x][k].discount = DiscountFor(TotalOfLines(feeLines[x]), concession[x])
    BY <1>4 DEF LiveBillFollowsPlan
  <2>1. k \in DOMAIN bills[x] /\ Live(bills'[x][k])
    BY <1>6 DEF LiveOf, Live
  <2>2. k \in LiveOf(x) /\ bills'[x][k] = bills[x][k]
    BY <1>5, <1>6, <2>1 DEF LiveOf, Live
  <2> QED BY <1>2, <2>2 DEF OrderlyBook, LiveBillFollowsPlan
<1>11. \A d \in Clerks : Undisturbed(d)'
  BY <1>2, <1>4, EndsUndisturbed
<1> QED BY <1>7, <1>8, <1>9, <1>10, <1>11 DEF Orderly, OrderlyBook

LEMMA NoLiveBillOrderly ==
  ASSUME Sound, Orderly, OneAtWork, OneAtWork', NEW c \in Clerks, NoLiveBill(c)
  PROVE  Orderly'
<1>1. PICK s : s = task[c].s
  OBVIOUS
<1>2. /\ Shape /\ OrderlyBook /\ task[c].at = "find" /\ task[c].fee \in Fees /\ task[c] # Idle
      /\ WritePlan(c) /\ Advance(c, Idle) /\ LiveOf(s) = {} /\ UNCHANGED <<bills, payment, clean>>
  BY <1>1, TaskTyped DEF Sound, Orderly, NoLiveBill, LinkedAt, Idle, ledger, history
<1>3. /\ s \in admitted /\ admitted' = admitted
      /\ \A x \in Students \ {s} : feeLines'[x] = feeLines[x] /\ concession'[x] = concession[x]
      /\ PlanIsOneForm'
  BY <1>1, <1>2, PlanWritten
<1>4. UNCHANGED <<Issued, Recorded>> /\ \A v : Row(v)' = Row(v)
  BY <1>2 DEF Issued, Recorded, Row
<1>5. Issued' \subseteq clean' /\ WithdrawnHoldsNoMoney' /\ Sensible'
  BY <1>2, <1>4 DEF OrderlyBook, WithdrawnHoldsNoMoney, Sensible
<1>6. NobodyUnknown'
  BY <1>2, <1>3 DEF OrderlyBook, NobodyUnknown
<1>7. LiveBillFollowsPlan'
  <2> SUFFICES ASSUME NEW x \in Students, NEW k \in LiveOf(x)
               PROVE  /\ bills[x][k].gross = TotalOfLines(feeLines'[x])
                      /\ bills[x][k].discount = DiscountFor(TotalOfLines(feeLines'[x]), concession'[x])
    BY <1>2 DEF LiveBillFollowsPlan, LiveOf
  <2>1. x # s
    BY <1>2
  <2> QED BY <1>2, <1>3, <2>1 DEF OrderlyBook, LiveBillFollowsPlan
<1>8. \A d \in Clerks : Undisturbed(d)'
  BY <1>2, EndsUndisturbed
<1> QED BY <1>3, <1>5, <1>6, <1>7, <1>8 DEF Orderly, OrderlyBook

\* A run issues what it read, and the plans are still as it read them.
LEMMA IssueBatchOrderly ==
  ASSUME Sound, Sound', Orderly, OneAtWork, OneAtWork', NEW c \in Clerks, IssueBatch(c)
  PROVE  Orderly'
<1>1. /\ Shape /\ Ledgered /\ OrderlyBook /\ task[c] \in Task /\ LinkedAt(c) /\ CountsOn(task[c])
      /\ task[c].at = "issue" /\ task[c] # Idle
      /\ UNCHANGED <<admitted, feeLines, concession, payment>> /\ bills \in [Students -> Seq(BillRow)]
  <2>1. Shape /\ Ledgered /\ OrderlyBook /\ Undisturbed(c)
    BY DEF Sound, Orderly
  <2>2. task[c] \in Task /\ LinkedAt(c) /\ bills \in [Students -> Seq(BillRow)]
    BY <2>1, TaskTyped DEF Shape, Typed
  <2>3. task[c].at = "issue" /\ UNCHANGED <<plans, payment>>
    BY DEF IssueBatch
  <2>4. task[c] # Idle
    BY <2>3 DEF Idle
  <2> QED BY <2>1, <2>2, <2>3, <2>4 DEF Undisturbed, plans
<1>2. PICK made \in SUBSET Students :
        /\ bills' \in [Students -> Seq(BillRow)]
        /\ \A s \in Students \ made : bills'[s] = bills[s]
        /\ \A s \in made : /\ LiveOf(s) = {}
                           /\ bills'[s][NextNumber(s)] \in BillRow
                           /\ bills'[s] = Append(bills[s], bills'[s][NextNumber(s)])
                           /\ bills'[s][NextNumber(s)].status = "UNPAID"
                           /\ bills'[s][NextNumber(s)].paid = 0
                           /\ bills'[s][NextNumber(s)].cancelled = FALSE
                           /\ \E b \in task[c].todo :
                                b.s = s /\ bills'[s][NextNumber(s)] = NewBill(b, task[c].due)
        /\ clean' = clean \cup {<<s, NextNumber(s)>> : s \in made}
        /\ \E todo \in SUBSET task[c].todo :
             Advance(c, [task[c] EXCEPT !.todo = todo,
               !.tell = task[c].tell \cup {<<s, NextNumber(s)>> : s \in made}])
  BY <1>1, BatchIssued
<1>3. ASSUME NEW s \in made
      PROVE  /\ s \in admitted /\ bills'[s][NextNumber(s)].gross = TotalOfLines(feeLines[s])
             /\ bills'[s][NextNumber(s)].discount = DiscountFor(TotalOfLines(feeLines[s]),
                  concession[s])
             /\ ~bills'[s][NextNumber(s)].cancelled
             /\ bills'[s][NextNumber(s)].discount <= bills'[s][NextNumber(s)].gross
  <2>1. PICK b \in task[c].todo : b.s = s /\ bills'[s][NextNumber(s)] = NewBill(b, task[c].due)
    BY <1>2
  <2>2. s \in admitted /\ b = BillOf(s)
    BY <1>1, <2>1 DEF CountsOn
  <2>3. /\ b.gross = TotalOfLines(feeLines[s])
        /\ b.discount = DiscountFor(TotalOfLines(feeLines[s]), concession[s])
    BY <2>2 DEF BillOf
  <2>4. TotalOfLines(feeLines[s]) \in Nat /\ concession[s] \in Nat
    BY <1>1, TotalIsMoney DEF Shape, Typed
  <2>5. DiscountFor(TotalOfLines(feeLines[s]), concession[s]) <= TotalOfLines(feeLines[s])
    BY <2>4 DEF DiscountFor, AtLeastZero
  <2> QED BY <2>1, <2>2, <2>3, <2>5 DEF NewBill
<1>4. ASSUME NEW s \in Students, NEW k \in DOMAIN bills'[s]
      PROVE  \/ k \in DOMAIN bills[s] /\ bills'[s][k] = bills[s][k]
             \/ s \in made /\ k = NextNumber(s)
  <2>1. CASE s \in made
    <3>1. bills[s] \in Seq(BillRow) /\ bills'[s] = Append(bills[s], bills'[s][NextNumber(s)])
      BY <1>1, <1>2, <2>1
    <3> QED BY <2>1, <3>1, Appended DEF NextNumber
  <2>2. CASE s \notin made
    BY <1>2, <2>2
  <2> QED BY <2>1, <2>2
<1>5. ASSUME NEW w \in Issued'
      PROVE  \/ w \in Issued /\ Row(w)' = Row(w)
             \/ \E s \in made : w = <<s, NextNumber(s)>> /\ Row(w)' = bills'[s][NextNumber(s)]
  <2>1. PICK s \in Students : w \in {<<s, k>> : k \in DOMAIN bills'[s]}
    BY DEF Issued
  <2>2. PICK k \in DOMAIN bills'[s] : w = <<s, k>>
    BY <2>1
  <2>3. Row(w)' = bills'[s][k] /\ Row(w) = bills[s][k]
    BY <2>2 DEF Row
  <2>4. k \in DOMAIN bills[s] => w \in Issued
    BY <2>2 DEF Issued
  <2> QED BY <1>4, <2>2, <2>3, <2>4
<1>6. Issued' \subseteq clean'
  BY <1>1, <1>2, <1>5 DEF OrderlyBook
<1>7. WithdrawnHoldsNoMoney'
  <2> SUFFICES ASSUME NEW w \in Issued', Row(w)'.cancelled PROVE LivePayments(payment, w) = {}
    BY <1>1 DEF WithdrawnHoldsNoMoney
  <2>1. w \in Issued /\ Row(w).cancelled
    BY <1>3, <1>5
  <2> QED BY <1>1, <2>1 DEF OrderlyBook, WithdrawnHoldsNoMoney
<1>8. NobodyUnknown'
  BY <1>1, <1>2, <1>3 DEF OrderlyBook, NobodyUnknown, Shape, Typed
<1>9. Sensible'
  BY <1>1, <1>3, <1>5 DEF OrderlyBook, Sensible, Recorded
<1>10. PlanIsOneForm'
  BY <1>1 DEF OrderlyBook, PlanIsOneForm
<1>11. LiveBillFollowsPlan'
  <2> SUFFICES ASSUME NEW s \in Students, NEW k \in LiveOf(s)'
               PROVE  /\ bills'[s][k].gross = TotalOfLines(feeLines[s])
                      /\ bills'[s][k].discount = DiscountFor(TotalOfLines(feeLines[s]), concession[s])
    BY <1>1 DEF LiveBillFollowsPlan
  <2>1. k \in DOMAIN bills'[s] /\ Live(bills'[s][k])
    BY DEF LiveOf, Live
  <2>2. CASE k \in DOMAIN bills[s] /\ bills'[s][k] = bills[s][k]
    <3>1. k \in LiveOf(s)
      BY <2>1, <2>2 DEF LiveOf
    <3> QED BY <1>1, <2>2, <3>1 DEF OrderlyBook, LiveBillFollowsPlan
  <2> QED BY <1>3, <1>4, <2>1, <2>2
<1>12. \A d \in Clerks : Undisturbed(d)'
  <2>1. PICK tell : tell = task[c].tell \cup {<<s, NextNumber(s)>> : s \in made}
    OBVIOUS
  <2>2. PICK todo \in SUBSET task[c].todo : Advance(c, [task[c] EXCEPT !.todo = todo, !.tell = tell])
    BY <1>2, <2>1
  <2>3. PICK t : t = [task[c] EXCEPT !.todo = todo, !.tell = tell]
    OBVIOUS
  <2>4. tell \in SUBSET Vouchers
    <3>1. \A s \in made : NextNumber(s) \in Nat \ {0}
      BY <1>1 DEF NextNumber
    <3> QED BY <1>1, <2>1, <3>1 DEF Vouchers, Task
  <2>5. t \in Task
    BY <1>1, <2>3, <2>4 DEF Task
  <2>6. t.at = "issue" /\ t.pay = task[c].pay /\ t.fee = task[c].fee /\ t.todo = todo
    BY <1>1, <2>3 DEF Task
  <2>7. \A b \in todo : b.s \in admitted' /\ b = BillOf(b.s)'
    BY <1>1 DEF CountsOn, BillOf
  <2>8. CountsOn(t)'
    BY <1>1, <2>6, <2>7, ConstantFacts DEF CountsOn, LinkedAt
  <2>9. Advance(c, t) /\ ~(t.at \in {"sum", "write"})
    BY <2>2, <2>3, <2>6
  <2> QED BY <1>1, <2>5, <2>8, <2>9, OneUndisturbed
<1> QED BY <1>6, <1>7, <1>8, <1>9, <1>10, <1>11, <1>12 DEF Orderly, OrderlyBook

\* An admission is about a student of whom nothing was written.
LEMMA AdmitOrderly ==
  ASSUME Sound, Orderly, NEW s \in Students, Admit(s)
  PROVE  Orderly'
<1>1. Shape /\ OrderlyBook /\ feeLines \in [Students -> [Clerks \cup {Admission} -> Nat]]
      /\ concession \in [Students -> Nat]
  BY DEF Sound, Orderly, Shape, Typed
<1>2. PICK fee \in Fees : /\ feeLines' = [feeLines EXCEPT ![s][Admission] = fee.gross]
                          /\ concession' = [concession EXCEPT ![s] = fee.concession]
  BY DEF Admit
<1>3. s \notin admitted /\ admitted' = admitted \cup {s} /\ UNCHANGED <<bills, payment, task,
     fresh, clean>>
  BY DEF Admit, ledger, history
<1>4. bills[s] = <<>> /\ \A b \in Clerks \cup {Admission} : feeLines[s][b] = 0
  BY <1>1, <1>3 DEF OrderlyBook, NobodyUnknown
<1>5. \A x \in Students \ {s} : feeLines'[x] = feeLines[x] /\ concession'[x] = concession[x]
  BY <1>1, <1>2
<1>6. UNCHANGED <<Issued, Recorded>> /\ \A v : Row(v)' = Row(v)
  BY <1>3 DEF Issued, Recorded, Row
<1>7. Issued' \subseteq clean' /\ WithdrawnHoldsNoMoney' /\ Sensible'
  BY <1>1, <1>3, <1>6 DEF OrderlyBook, WithdrawnHoldsNoMoney, Sensible
<1>8. NobodyUnknown'
  BY <1>1, <1>3, <1>5 DEF OrderlyBook, NobodyUnknown
<1>9. PlanIsOneForm'
  <2> SUFFICES ASSUME NEW x \in Students, NEW a \in DOMAIN feeLines'[x], NEW b \in DOMAIN feeLines'[x],
                      feeLines'[x][a] > 0, feeLines'[x][b] > 0
               PROVE  a = b
    BY DEF PlanIsOneForm
  <2>1. CASE x = s
    <3>1. /\ DOMAIN feeLines'[s] = Clerks \cup {Admission}
          /\ \A d \in (Clerks \cup {Admission}) \ {Admission} : feeLines'[s][d] = feeLines[s][d]
      BY <1>1, <1>2
    <3> QED BY <1>4, <2>1, <3>1
  <2>2. CASE x # s
    BY <1>1, <1>5, <2>2 DEF OrderlyBook, PlanIsOneForm
  <2> QED BY <2>1, <2>2
<1>10. LiveBillFollowsPlan'
  <2> SUFFICES ASSUME NEW x \in Students, NEW k \in LiveOf(x)
               PROVE  /\ bills[x][k].gross = TotalOfLines(feeLines'[x])
                      /\ bills[x][k].discount = DiscountFor(TotalOfLines(feeLines'[x]), concession'[x])
    BY <1>3 DEF LiveBillFollowsPlan, LiveOf
  <2>1. x # s
    BY <1>4 DEF LiveOf
  <2> QED BY <1>1, <1>5, <2>1 DEF OrderlyBook, LiveBillFollowsPlan
<1>11. ASSUME NEW d \in Clerks PROVE Undisturbed(d)'
  <2>1. CountsOn(task[d]) /\ task[d] \in Task
    BY TaskTyped DEF Sound, Orderly, Undisturbed
  <2>2. \A b \in task[d].todo : b.s \in Students \ {s} => BillOf(b.s)' = BillOf(b.s)
    BY <1>5 DEF BillOf
  <2>3. \A x \in admitted : x \in Students \ {s}
    BY <1>3 DEF Sound, Shape, Typed
  <2>4. CountsOn(task[d])'
    BY <1>3, <1>5, <1>6, <2>1, <2>2, <2>3 DEF CountsOn
  <2> QED BY <1>3, <2>4 DEF Orderly, Undisturbed
<1> QED BY <1>7, <1>8, <1>9, <1>10, <1>11 DEF Orderly, OrderlyBook

---------------------------------------------------------------------------
\* Every step.
LEMMA OrderlyNext ==
  ASSUME Sound, Sound', Orderly, OneAtWork, OneAtWork', [Next]_vars
  PROVE  Orderly'
<1>1. CASE Tick \/ UpdateFeeRules \/ UNCHANGED vars
  <2>1. UNCHANGED <<plans, ledger, clean>> /\ UNCHANGED <<plans, ledger>> /\ UNCHANGED <<task, fresh>>
    BY <1>1 DEF Tick, UpdateFeeRules, vars, history
  <2>2. OrderlyBook'
    BY <2>1, BookKept DEF Orderly
  <2>3. ASSUME NEW d \in Clerks PROVE Undisturbed(d)'
    <3>1. CountsOn(task[d])'
      <4>1. PICK t : t = task[d]
        OBVIOUS
      <4>2. CountsOn(t)'
        BY <2>1, <4>1, CountsKept DEF Orderly, Undisturbed
      <4> QED BY <2>1, <4>1, <4>2 DEF CountsOn
    <3> QED BY <2>1, <3>1 DEF Orderly, Undisturbed
  <2> QED BY <2>2, <2>3 DEF Orderly
<1>2. ASSUME NEW s \in Students, Admit(s) PROVE Orderly'
  BY <1>2, AdmitOrderly
<1>3. ASSUME NEW c \in Clerks, Settling(c) \/ Paying(c) PROVE Orderly'
  BY <1>3, GoingOnOrderly, EndingOrderly, CommitPaymentOrderly, StartPaymentOrderly, CheckVoidOrderly
     DEF Settling, Paying
<1>4. ASSUME NEW c \in Clerks, Cancelling(c) \/ Planning(c) PROVE Orderly'
  BY <1>4, CheckCancelOrderly, CommitCancelOrderly, StartPlanOrderly, NoLiveBillOrderly,
     FindLiveBillOrderly,
     GoingOnOrderly, CommitPlanOrderly DEF Cancelling, Planning
<1>5. ASSUME NEW c \in Clerks, Running(c) \/ Notify(c) \/ Stopped(c) PROVE Orderly'
  BY <1>5, StartRunOrderly, IssueBatchOrderly, EndingOrderly DEF Running
<1> QED BY <1>1, <1>2, <1>3, <1>4, <1>5 DEF Next

LEMMA OrderlyAtFirst == Init => Orderly
<1> SUFFICES ASSUME Init PROVE Orderly
  OBVIOUS
<1>1. Issued = {} /\ Recorded = {} /\ \A s \in Students : LiveOf(s) = {}
  BY DEF Init, Issued, Recorded, Unrecorded, LiveOf
<1>2. \A c \in Clerks : task[c] = Idle
  BY DEF Init
<1>3. NobodyUnknown /\ PlanIsOneForm
  BY DEF Init, NobodyUnknown, PlanIsOneForm
<1>4. OrderlyBook
  BY <1>1, <1>3 DEF OrderlyBook, WithdrawnHoldsNoMoney, Sensible, LiveBillFollowsPlan
<1> QED BY <1>2, <1>4, IdleCounts DEF Orderly, Undisturbed

\* The invariants of overlapping requests, in one.
LEMMA SoundHolds == Spec => []Sound
BY TypesHold, CleanIsSettledHolds, OneLiveVoucherHolds, FreshHolds, PTL DEF Sound

\* One request at a time: the book is in order, and so is the request.
LEMMA OrderlyHolds == Spec /\ []OneAtWork => []Orderly
<1>1. Sound /\ Sound' /\ Orderly /\ OneAtWork /\ OneAtWork' /\ [Next]_vars => Orderly'
  BY OrderlyNext
<1> QED BY <1>1, OrderlyAtFirst, SoundHolds, PTL DEF Spec

---------------------------------------------------------------------------
\* While requests come one at a time every bill says what its payments come to
\* and the status that follows from it (recomputeVoucher, fees.service.ts: "the
\* sum of payments that have not been voided").
THEOREM EveryBillSettledHolds == Spec /\ []OneAtWork => []EveryBillSettled
<1>1. Sound /\ Orderly => EveryBillSettled
  BY DEF Sound, Orderly, OrderlyBook, CleanIsSettled, EveryBillSettled
<1> QED BY <1>1, SoundHolds, OrderlyHolds, PTL

\* While requests come one at a time a withdrawn bill has no payment standing
\* against it (cancelVoucher refuses a bill on which money has come in).
THEOREM WithdrawnHoldsNoMoneyHolds == Spec /\ []OneAtWork => []WithdrawnHoldsNoMoney
<1>1. Orderly => WithdrawnHoldsNoMoney
  BY DEF Orderly, OrderlyBook
<1> QED BY <1>1, OrderlyHolds, PTL

\* The days are counted no further than the bound.
Counted == day \in 0 .. LastDay

\* While requests come one at a time what a family is charged is one fee form
\* and nothing else (createFeeLinesForAdmission, setStudentFeePlan, runVouchers).
THEOREM BillsFollowPlanHolds == Spec /\ []OneAtWork => []BillsFollowPlan
<1>1. Init => Counted
  BY BoundsAssumption DEF Init, Counted
<1>2. Counted /\ [Next]_vars => Counted'
  <2> SUFFICES ASSUME Counted, [Next]_vars PROVE Counted'
    OBVIOUS
  <2>1. CASE Tick
    BY <2>1, BoundsAssumption DEF Tick, Counted
  <2>2. CASE UpdateFeeRules \/ (\E s \in Students : Admit(s)) \/ UNCHANGED vars
    BY <2>2 DEF UpdateFeeRules, Admit, vars, Counted
  <2>3. ASSUME NEW c \in Clerks, Settling(c) \/ Paying(c) PROVE day' = day
    BY <2>3 DEF Settling, Paying, ReadRow, SumPayments, RejectedByIndex, CommitPayment,
       StartPayment, CheckVoid,
                TakePayment
  <2>4. ASSUME NEW c \in Clerks, Cancelling(c) \/ Planning(c) PROVE day' = day
    BY <2>4 DEF Cancelling, Planning, CheckCancel, CommitCancel, StartPlan, NoLiveBill,
       FindLiveBill, LockBill,
                CommitPlan
  <2>5. ASSUME NEW c \in Clerks, Running(c) \/ Notify(c) \/ Stopped(c) PROVE day' = day
    BY <2>5 DEF Running, StartRun, IssueBatch, RunRejected, RunDone, Notify, Stopped
  <2> QED BY <2>1, <2>2, <2>3, <2>4, <2>5 DEF Next, Counted
<1>3. Sound /\ Orderly /\ Counted => BillsFollowPlan
  <2> SUFFICES ASSUME Sound, Orderly, Counted PROVE BillsFollowPlan
    OBVIOUS
  <2>1. Typed /\ OrderlyBook
    BY DEF Sound, Orderly, Shape
  <2>2. ASSUME NEW s \in Students PROVE bills[s] \in Seq(Bill)
    <3>1. bills[s] \in Seq(BillRow)
      BY <2>1 DEF Typed
    <3>2. ASSUME NEW k \in 1 .. Len(bills[s]) PROVE bills[s][k] \in Bill
      <4>1. bills[s][k] \in BillRow
        BY <3>1
      <4>2. <<s, k>> \in Issued /\ Row(<<s, k>>) = bills[s][k]
        BY <3>1 DEF Issued, Row
      <4>3. bills[s][k].discount <= bills[s][k].gross
        BY <2>1, <4>2 DEF OrderlyBook, Sensible
      <4> QED BY <4>1, <4>3 DEF Bill, BillRow
    <3> QED BY <3>1, <3>2
  <2>3. bills \in [Students -> Seq(Bill)]
    BY <2>1, <2>2 DEF Typed
  <2>4. TypeOK
    BY <2>1, <2>3 DEF TypeOK, Typed, Counted
  <2> QED BY <2>1, <2>4 DEF OrderlyBook, BillsFollowPlan
<1> QED BY <1>1, <1>2, <1>3, SoundHolds, OrderlyHolds, PTL DEF Spec

\* Who writes the row of a bill that was there.
LEMMA RowChanges ==
  ASSUME Sound, Orderly, [Next]_vars, NEW w \in Issued, Row(w)' # Row(w)
  PROVE  \E c \in Clerks :
           /\ task[c].v = w
           /\ \/ WriteBill(c) /\ Row(w)' = Settled(task[c])
              \/ /\ task[c].at = "cancel"
                 /\ Row(w)' = [Row(w) EXCEPT !.status = "CANCELLED", !.cancelled = TRUE]
<1>1. Shape /\ bills \in [Students -> Seq(BillRow)]
  BY DEF Sound, Shape, Typed
<1>2. bills' # bills
  BY DEF Row
<1>3. PICK c \in Clerks : CommitPayment(c) \/ CommitPlan(c) \/ CommitCancel(c) \/ IssueBatch(c)
  BY <1>2, WhoWrites
<1>4. CASE CommitPayment(c) \/ CommitPlan(c)
  <2>1. WriteBill(c)
    BY <1>4 DEF CommitPayment, CommitPlan
  <2>2. PICK v, b : v = task[c].v /\ b = Settled(task[c])
    OBVIOUS
  <2>3. v \in Issued /\ b \in BillRow /\ bills' = [bills EXCEPT ![v[1]][v[2]] = b]
    BY <1>1, <2>1, <2>2, UndisturbedWrite
  <2>4. Row(v)' = b /\ v = w
    BY <1>1, <2>3, RowAfter
  <2> QED BY <2>1, <2>2, <2>4
<1>5. CASE CommitCancel(c)
  <2>1. PICK v, b : v = task[c].v /\ b = [Row(v) EXCEPT !.status = "CANCELLED", !.cancelled = TRUE]
    OBVIOUS
  <2>2. v \in Issued /\ bills' = [bills EXCEPT ![v[1]][v[2]] = b]
    BY <1>1, <1>5, <2>1, CommitCancelShape
  <2>3. b \in BillRow
    <3>1. Row(v) \in BillRow
      BY <1>1, <2>2, IssuedRow
    <3> QED BY <2>1, <3>1 DEF BillRow, Statuses
  <2>4. Row(v)' = b /\ v = w
    BY <1>1, <2>2, <2>3, RowAfter
  <2>5. task[c].at = "cancel"
    BY <1>5 DEF CommitCancel
  <2> QED BY <2>1, <2>4, <2>5
<1> QED BY <1>1, <1>3, <1>4, <1>5, BatchKeepsRows

LEMMA StaysAsWrittenNext ==
  ASSUME Sound, Orderly, [Next]_vars, NEW w \in Issued
  PROVE  /\ Row(w).cancelled => Row(w)' = Row(w)
         /\ Row(w).fine > 0 /\ Row(w)'.paid > 0 => Row(w)'.fine = Row(w).fine
<1> SUFFICES ASSUME Row(w)' # Row(w)
             PROVE  /\ ~Row(w).cancelled
                    /\ Row(w).fine > 0 /\ Row(w)'.paid > 0 => Row(w)'.fine = Row(w).fine
  OBVIOUS
<1>1. PICK c \in Clerks :
        /\ task[c].v = w
        /\ \/ WriteBill(c) /\ Row(w)' = Settled(task[c])
           \/ /\ task[c].at = "cancel"
              /\ Row(w)' = [Row(w) EXCEPT !.status = "CANCELLED", !.cancelled = TRUE]
  BY RowChanges
<1>2. Row(w) \in BillRow
  BY IssuedRow DEF Sound, Shape, Typed
<1>3. CASE WriteBill(c) /\ Row(w)' = Settled(task[c])
  <2>1. PICK b : b = Settled(task[c])
    OBVIOUS
  <2>2. /\ task[c].seen = OwnRow(task[c]) /\ ~Row(w).cancelled
        /\ b.fine = FineFor(task[c]) /\ b.paid = task[c].paid
    BY <1>1, <1>3, <2>1, UndisturbedWrite
  <2>3. OwnRow(task[c]).fine = Row(w).fine
    BY <1>1, <1>2 DEF OwnRow, Rebilled, BillRow
  <2>4. b.paid > 0 /\ Row(w).fine > 0 => b.fine = Row(w).fine
    BY <2>2, <2>3 DEF FineFor
  <2> QED BY <1>3, <2>1, <2>2, <2>4
<1>4. CASE /\ task[c].at = "cancel"
           /\ Row(w)' = [Row(w) EXCEPT !.status = "CANCELLED", !.cancelled = TRUE]
  <2>1. ~Row(w).cancelled
    BY <1>1, <1>4 DEF Orderly, Undisturbed, CountsOn
  <2>2. PICK row : row = Row(w)
    OBVIOUS
  <2>3. Row(w)'.fine = row.fine
    BY <1>2, <1>4, <2>2 DEF BillRow
  <2> QED BY <2>1, <2>2, <2>3
<1> QED BY <1>1, <1>3, <1>4

\* While requests come one at a time a cancelled bill is left alone, and the
\* fine of a bill with money on it stays (recomputeVoucher reads the row, keeps
\* a fine that is set, and keeps CANCELLED whatever arrives against it).
THEOREM StaysAsWrittenHolds == Spec /\ []OneAtWork => StaysAsWritten
<1>1. Sound /\ Orderly /\ [Next]_vars =>
        [\A v \in Issued : Row(v).cancelled => Row(v)' = Row(v)]_vars
  BY StaysAsWrittenNext
<1>2. Sound /\ Orderly /\ [Next]_vars =>
        [\A v \in Issued : Row(v).fine > 0 /\ Row(v)'.paid > 0 => Row(v)'.fine = Row(v).fine]_vars
  BY StaysAsWrittenNext
<1> QED BY <1>1, <1>2, SoundHolds, OrderlyHolds, PTL DEF Spec, StaysAsWritten, CancelledIsFinal,
     FineIsFrozen

---------------------------------------------------------------------------
\* A payment that ends in a notice was committed.
LEMMA NoticeMeansCommit ==
  ASSUME Shape, [Next]_vars, NEW c \in Clerks,
         task[c].at = "write", task[c].pay # None, task'[c].at = "notify"
  PROVE  CommitPayment(c) /\ ~task[c].entry.voided
<1>1. task[c] \in Task /\ LinkedAt(c) /\ task \in [Clerks -> Task]
  BY TaskTyped DEF Shape, Typed
<1>2. task[c].fee = None
  BY <1>1 DEF Task, LinkedAt
<1>3. task'[c] # task[c] /\ task'[c] # Idle
  BY DEF Idle
<1>4. ASSUME NEW d \in Clerks, d # c, NEW t, Advance(d, t) PROVE FALSE
  BY <1>1, <1>3, <1>4 DEF Advance
<1>5. ASSUME Advance(c, Idle) PROVE FALSE
  BY <1>1, <1>3, <1>5 DEF Advance
<1>6. CASE UNCHANGED task
  BY <1>3, <1>6
<1>7. PICK d \in Clerks : \/ Settling(d) \/ Paying(d) \/ Cancelling(d) \/ Planning(d) \/ Running(d)
                          \/ Notify(d) \/ Stopped(d)
  BY <1>6 DEF Next, vars, Tick, UpdateFeeRules, Admit
<1>8. \E t : Advance(d, t)
  BY <1>7 DEF Settling, ReadRow, SumPayments, RejectedByIndex, CommitPayment, Paying, StartPayment,
     CheckVoid,
     TakePayment, Cancelling, CheckCancel, CommitCancel, Planning, StartPlan, NoLiveBill, FindLiveBill,
     LockBill, CommitPlan, Running, StartRun, IssueBatch, RunRejected, RunDone, Notify, Stopped
<1>9. d = c
  BY <1>4, <1>8
<1>10. CommitPayment(c)
  <2>1. task[c] # Idle /\ task[c].at = "write" /\ task[c].fee = None
    BY <1>2 DEF Idle
  <2>2. ~Paying(c) /\ ~Cancelling(c) /\ ~Running(c) /\ ~Notify(c)
    BY <2>1 DEF Paying, StartPayment, CheckVoid, TakePayment, Cancelling, CheckCancel, CommitCancel,
                Running, StartRun, IssueBatch, RunRejected, RunDone, Notify
  <2>3. ~Planning(c)
    BY <2>1 DEF Planning, StartPlan, NoLiveBill, FindLiveBill, LockBill, CommitPlan
  <2>4. ~Stopped(c) /\ ~RejectedByIndex(c)
    BY <1>5 DEF Stopped, RejectedByIndex
  <2> QED BY <1>7, <1>9, <2>1, <2>2, <2>3, <2>4 DEF Settling, ReadRow, SumPayments
<1> QED BY <1>5, <1>10 DEF CommitPayment

\* What a bill is shown to owe, once paid, leaves nothing owed.
LEMMA ShownSettles ==
  ASSUME NEW row \in BillRow, NEW seen \in BillRow, NEW new \in BillRow, NEW t,
         seen = row, t.seen = seen, t.today \in Nat, t.rule \in Nat,
         t.paid = row.paid + t.entry.amount, t.entry.amount \in Nat, t.entry.amount # 0,
         ~row.cancelled, row.status = StatusFor(row, row.cancelled), row.status # "PAID",
         row.discount <= row.gross,
         new.gross = row.gross, new.discount = row.discount, new.paid = t.paid, new.fine = FineFor(t),
         t.entry.amount = ShownOutstanding(row, t.today, t.rule)
  PROVE  StatusFor(new, FALSE) = "PAID"
<1>1. PICK g \in Nat, d \in Nat, f \in Nat, m \in Nat, a \in Nat :
        g = row.gross /\ d = row.discount /\ f = row.fine /\ m = row.paid /\ a = t.entry.amount
  BY DEF BillRow
<1>2. t.paid = m + a /\ m + a > 0 /\ a # 0 /\ d <= g
  BY <1>1
<1>3. PICK shown \in Nat : shown = ShownFine(row, t.today, t.rule)
  BY <1>1 DEF ShownFine, LateFineDue
<1>4. a = AtLeastZero(AtLeastZero(g - d + shown) - m)
  <2>1. PICK asShown : asShown = [row EXCEPT !.fine = ShownFine(row, t.today, t.rule)]
    OBVIOUS
  <2>2. asShown.gross = g /\ asShown.discount = d /\ asShown.fine = shown /\ asShown.paid = m
    BY <1>1, <1>3, <2>1 DEF BillRow
  <2>3. row.status # "CANCELLED"
    BY DEF StatusFor
  <2>4. a = Outstanding(asShown)
    BY <1>1, <2>1, <2>3 DEF ShownOutstanding
  <2> QED BY <2>2, <2>4 DEF Outstanding, NetPayable
<1>5. m + a >= g - d + shown
  BY <1>2, <1>4 DEF AtLeastZero
<1>6. m <= 0 \/ m < g - d + f
  <2>1. m <= 0 \/ ~(m >= AtLeastZero(g - d + f))
    BY <1>1 DEF StatusFor, NetPayable
  <2> QED BY <1>2, <2>1 DEF AtLeastZero
<1>7. FineFor(t) <= shown
  <2>1. CASE f > 0
    BY <1>1, <1>2, <1>3, <2>1 DEF FineFor, ShownFine
  <2>2. CASE f = 0
    <3>1. FineFor(t) = LateFineDue(row, 0, t.today, t.rule) /\ shown = LateFineDue(row, m, t.today,
         t.rule)
      BY <1>1, <1>2, <1>3, <2>2 DEF FineFor, ShownFine
    <3>2. AtLeastZero(g - d) - 0 > 0 => AtLeastZero(g - d) - m > 0
      BY <1>2, <1>6, <2>2 DEF AtLeastZero
    <3>3. LateFineDue(row, 0, t.today, t.rule) <= LateFineDue(row, m, t.today, t.rule)
      BY <1>1, <3>2 DEF LateFineDue, BillRow
    <3> QED BY <3>1, <3>3
  <2> QED BY <2>1, <2>2
<1>8. PICK fine \in Nat : fine = FineFor(t)
  BY DEF BillRow
<1>9. m + a >= AtLeastZero(g - d + fine)
  BY <1>2, <1>5, <1>7, <1>8 DEF AtLeastZero
<1> QED BY <1>1, <1>2, <1>8, <1>9 DEF StatusFor, NetPayable

LEMMA PayingSettlesNext ==
  ASSUME Sound, Orderly, [Next]_vars, NEW c \in Clerks, NEW v \in Issued,
         task[c].at = "write", task[c].pay # None, task[c].v = v, task'[c].at = "notify",
         task[c].entry.amount = ShownOutstanding(Row(v), task[c].today, task[c].rule)
  PROVE  Row(v)'.status = "PAID"
<1>1. Shape /\ OrderlyBook /\ Ledgered
  BY DEF Sound, Orderly
<1>2. CommitPayment(c) /\ ~task[c].entry.voided
  BY <1>1, NoticeMeansCommit
<1>3. PICK t : t = task[c]
  OBVIOUS
<1>4. t \in Task /\ LinkedAt(c) /\ CountsOn(t) /\ EntryHolds(c)
  BY <1>1, <1>3, TaskTyped DEF Orderly, Undisturbed, Ledgered
<1>5. t.pay \in Payments /\ t.fee = None /\ WriteBill(c)
  BY <1>2, <1>3, <1>4 DEF CommitPayment, Task, LinkedAt
<1>6. PICK b : b = Settled(t)
  OBVIOUS
<1>7. /\ b \in BillRow /\ t.seen \in BillRow /\ Row(v) \in BillRow
      /\ bills' = [bills EXCEPT ![v[1]][v[2]] = b]
      /\ t.seen = OwnRow(t) /\ t.paid = SumOf(OwnLive(c)) /\ ~Row(v).cancelled
      /\ b.gross = t.seen.gross /\ b.discount = t.seen.discount
      /\ ~b.cancelled /\ b.fine = FineFor(t) /\ b.paid = t.paid /\ b.status = StatusFor(b, b.cancelled)
  BY <1>3, <1>5, <1>6, UndisturbedWrite
<1>8. OwnRow(t) = Row(v)
  BY <1>3, <1>5 DEF OwnRow
<1>9. /\ IsSettled(v) /\ Row(v).discount <= Row(v).gross /\ Row(v).status # "PAID"
      /\ t.entry \in Entry /\ t.entry.voucher = v /\ t.entry.amount # 0 /\ payment[t.pay] = Unrecorded
  <2>1. t.entry \in Entry /\ t.entry.voucher = v
    BY <1>3, <1>4, <1>5 DEF LinkedAt
  <2>2. t.entry.amount # 0 /\ Row(v).status # "PAID"
    BY <1>2, <1>3, <1>4, <1>5 DEF CountsOn
  <2>3. payment[t.pay] = Unrecorded
    BY <1>2, <1>3, <1>4, <1>5 DEF EntryHolds
  <2>4. Row(v).discount <= Row(v).gross
    BY <1>1 DEF OrderlyBook, Sensible
  <2> QED BY <1>1, <2>1, <2>2, <2>3, <2>4, StandingBill
<1>10. t.paid = Row(v).paid + t.entry.amount
  <2>1. PICK amount \in Nat, p \in Payments, e \in Entry : amount = t.entry.amount /\ p = t.pay
       /\ e = t.entry
    BY <1>5, <1>9 DEF Entry
  <2>2. PICK L : L = LivePayments(payment, v)
    OBVIOUS
  <2>3. payment \in [Payments -> Entry \cup {Unrecorded}]
    BY <1>1 DEF Shape, Typed
  <2>4. IsFiniteSet(L) /\ \A x \in L : x[2] \in Nat
    BY <2>2, <2>3, LiveIsFinite
  <2>5. v \in Vouchers /\ v # None
    BY <1>1, IssuedRow, ConstantFacts DEF Shape, Typed
  <2>6. p \notin {q \in Payments : payment[q].voucher = v /\ ~payment[q].voided}
    BY <1>9, <2>1, <2>5 DEF Unrecorded
  <2>7. <<p, amount>> \notin L
    BY <2>2, <2>6 DEF LivePayments
  <2>8. PICK own : own = [payment EXCEPT ![p] = e]
    OBVIOUS
  <2>9. OwnLive(c) = LivePayments(own, v)
    BY <1>3, <1>5, <2>1, <2>8, ConstantFacts DEF OwnLive, OwnPayments
  <2>10. /\ own[p] = e /\ e.voucher = v /\ ~e.voided /\ e.amount = amount
         /\ \A q \in Payments : q # p => own[q] = payment[q]
    BY <1>2, <1>3, <1>9, <2>1, <2>3, <2>8
  <2>11. LivePayments(own, v) = L \cup {<<p, amount>>}
    BY <2>2, <2>6, <2>10 DEF LivePayments
  <2>12. PICK y : y = <<p, amount>>
    OBVIOUS
  <2>13. y \notin L /\ y[2] \in Nat /\ y[2] = amount
    BY <2>7, <2>12
  <2>14. SumOf(L \cup {y}) = SumOf(L) + y[2]
    BY <2>4, <2>13, SumOfOneMore
  <2>15. Row(v).paid = SumOf(L)
    BY <1>9, <2>2 DEF IsSettled, PaidOn
  <2> QED BY <1>7, <2>1, <2>9, <2>11, <2>12, <2>13, <2>14, <2>15
<1>11. PICK row \in BillRow : row = Row(v)
  BY <1>7
<1>12. /\ t.entry.amount \in Nat /\ t.today \in Nat /\ t.rule \in Nat
       /\ t.entry.amount = ShownOutstanding(row, t.today, t.rule)
       /\ row.status = StatusFor(row, row.cancelled)
  BY <1>3, <1>4, <1>9, <1>11 DEF Entry, Task, IsSettled
<1>13. StatusFor(b, FALSE) = "PAID"
  BY <1>7, <1>8, <1>9, <1>10, <1>11, <1>12, ShownSettles
<1>14. Row(v)' = b
  BY <1>1, <1>7, RowAfter DEF Shape, Typed
<1> QED BY <1>7, <1>13, <1>14 DEF BillRow

\* While requests come one at a time a family that pays exactly what the screen
\* says it owes, late fine and all, is settled in full (recordPayment and toRow
\* work the fine out from the same row, day and rule).
THEOREM PayingSettlesHolds == Spec /\ []OneAtWork => PayingWhatIsShownSettles
<1>1. Sound /\ Orderly /\ [Next]_vars =>
        [\A c \in Clerks, v \in Issued :
           /\ task[c].at = "write" /\ task[c].pay # None /\ task[c].v = v
           /\ task'[c].at = "notify"
           /\ task[c].entry.amount = ShownOutstanding(Row(v), task[c].today, task[c].rule)
           => Row(v)'.status = "PAID"]_vars
  BY PayingSettlesNext
<1> QED BY <1>1, SoundHolds, OrderlyHolds, PTL DEF Spec, PayingWhatIsShownSettles

---------------------------------------------------------------------------
\* What a request has read of the office's settings, and of what it was sent.
Promised(t) ==
  /\ t.pay \in Payments \/ t.fee \in Fees => t.today \in 0 .. day /\ t.rule \in FineRules
  /\ t.pay \in Payments /\ ~t.entry.voided => t.entry.amount \in Amounts
  /\ t.at = "issue" => t.due \in DueDates /\ \A b \in t.todo : b.gross > 0

AllPromised == \A c \in Clerks : Promised(task[c])

\* One clerk's step that leaves a promise kept leaves all of them kept.
LEMMA PromisedStep ==
  ASSUME Shape, AllPromised, NEW c \in Clerks, NEW t, Advance(c, t), day' = day, Promised(t)
  PROVE  AllPromised'
<1>1. task \in [Clerks -> Task]
  BY DEF Shape, Typed
<1>2. task'[c] = t /\ \A d \in Clerks \ {c} : task'[d] = task[d]
  BY <1>1 DEF Advance
<1> QED BY <1>2 DEF AllPromised, Promised

LEMMA EndedPromised ==
  ASSUME Shape, AllPromised, NEW c \in Clerks, day' = day,
         Advance(c, Idle) \/ \E tell : Advance(c, [Idle EXCEPT !.at = "notify", !.tell = tell])
  PROVE  AllPromised'
<1>1. CASE Advance(c, Idle)
  <2>1. Promised(Idle)
    BY ConstantFacts DEF Promised, Idle
  <2> QED BY <1>1, <2>1, PromisedStep
<1>2. ASSUME NEW tell, Advance(c, [Idle EXCEPT !.at = "notify", !.tell = tell]) PROVE AllPromised'
  <2>1. PICK t : t = [Idle EXCEPT !.at = "notify", !.tell = tell]
    OBVIOUS
  <2>2. Promised(t)
    BY <2>1, ConstantFacts DEF Promised, Idle
  <2> QED BY <1>2, <2>1, <2>2, PromisedStep
<1> QED BY <1>1, <1>2

\* A request that goes on with what it had.
LEMMA GoingOnPromised ==
  ASSUME Shape, AllPromised, NEW c \in Clerks, NEW t, Advance(c, t), day' = day,
         t.at # "issue" \/ task[c].at = "issue", t.todo \subseteq task[c].todo, t.due = task[c].due,
         t.pay = task[c].pay, t.fee = task[c].fee, t.entry = task[c].entry,
         t.today = task[c].today, t.rule = task[c].rule
  PROVE  AllPromised'
<1>1. Promised(t)
  BY DEF AllPromised, Promised
<1> QED BY <1>1, PromisedStep

LEMMA StartedPromised ==
  ASSUME Shape, Ledgered, AllPromised, NEW c \in Clerks,
         StartPayment(c) \/ CheckVoid(c) \/ CheckCancel(c) \/ StartPlan(c) \/ StartRun(c)
  PROVE  AllPromised'
<1>1. day' = day /\ day \in Nat /\ lateFine \in FineRules
  BY DEF StartPayment, CheckVoid, CheckCancel, StartPlan, StartRun, Shape, Typed
<1>2. CASE StartPayment(c)
  <2>1. PICK v \in Issued, p \in Payments \ Recorded, amount \in Amounts :
          Advance(c, [Idle EXCEPT !.at = "read", !.v = v, !.pay = p,
                        !.entry = [voucher |-> v, amount |-> amount, voided |-> FALSE],
                        !.today = day, !.rule = lateFine])
    BY <1>2 DEF StartPayment
  <2>2. PICK t : t = [Idle EXCEPT !.at = "read", !.v = v, !.pay = p,
                        !.entry = [voucher |-> v, amount |-> amount, voided |-> FALSE],
                        !.today = day, !.rule = lateFine]
    OBVIOUS
  <2>3. t.at = "read" /\ t.today = day /\ t.rule = lateFine /\ t.entry.amount = amount
    BY <2>2 DEF Idle
  <2>4. Promised(t)
    BY <1>1, <2>3 DEF Promised
  <2> QED BY <1>1, <2>1, <2>2, <2>4, PromisedStep
<1>3. CASE CheckVoid(c)
  <2>1. PICK p \in Recorded :
          Advance(c, [Idle EXCEPT !.at = "void", !.v = payment[p].voucher, !.pay = p,
                        !.entry = [payment[p] EXCEPT !.voided = TRUE],
                        !.today = day, !.rule = lateFine])
    BY <1>3 DEF CheckVoid
  <2>2. payment[p] \in Entry
    BY DEF Recorded, Shape, Typed, Unrecorded
  <2>3. PICK e : e = [payment[p] EXCEPT !.voided = TRUE]
    OBVIOUS
  <2>4. e.voided
    BY <2>2, <2>3 DEF Entry
  <2>5. PICK t : t = [Idle EXCEPT !.at = "void", !.v = payment[p].voucher, !.pay = p, !.entry = e,
                        !.today = day, !.rule = lateFine]
    OBVIOUS
  <2>6. t.at = "void" /\ t.today = day /\ t.rule = lateFine /\ t.entry.voided
    BY <2>4, <2>5 DEF Idle
  <2>7. Promised(t)
    BY <1>1, <2>6 DEF Promised
  <2> QED BY <1>1, <2>1, <2>3, <2>5, <2>7, PromisedStep
<1>4. CASE CheckCancel(c)
  <2>1. PICK v \in Issued : Advance(c, [Idle EXCEPT !.at = "cancel", !.v = v])
    BY <1>4 DEF CheckCancel
  <2>2. PICK t : t = [Idle EXCEPT !.at = "cancel", !.v = v]
    OBVIOUS
  <2>3. Promised(t)
    BY <2>2, ConstantFacts DEF Promised, Idle
  <2> QED BY <1>1, <2>1, <2>2, <2>3, PromisedStep
<1>5. CASE StartPlan(c)
  <2>1. PICK s \in admitted, fee \in Fees :
          Advance(c, [Idle EXCEPT !.at = "find", !.s = s, !.fee = fee,
                        !.replaced = {b \in DOMAIN feeLines[s] : feeLines[s][b] > 0},
                        !.today = day, !.rule = lateFine])
    BY <1>5 DEF StartPlan
  <2>2. PICK saw : saw = {b \in DOMAIN feeLines[s] : feeLines[s][b] > 0}
    OBVIOUS
  <2>3. PICK t : t = [Idle EXCEPT !.at = "find", !.s = s, !.fee = fee, !.replaced = saw,
                        !.today = day, !.rule = lateFine]
    OBVIOUS
  <2>4. t.at = "find" /\ t.today = day /\ t.rule = lateFine /\ t.pay = None
    BY <2>3 DEF Idle
  <2>5. Promised(t)
    BY <1>1, <2>4, ConstantFacts DEF Promised
  <2> QED BY <1>1, <2>1, <2>2, <2>3, <2>5, PromisedStep
<1>6. CASE StartRun(c)
  <2>1. PICK chosen \in SUBSET {s \in Billable : Issuable(s)}, due \in DueDates :
          Advance(c, [Idle EXCEPT !.at = "issue", !.due = due, !.todo = {BillOf(s) : s \in chosen}])
    BY <1>6 DEF StartRun
  <2>2. PICK todo : todo = {BillOf(s) : s \in chosen}
    OBVIOUS
  <2>3. ASSUME NEW s \in chosen PROVE BillOf(s).gross > 0
    <3>1. s \in Students /\ feeLines[s] \in [Clerks \cup {Admission} -> Nat]
      BY DEF Billable, Shape, Typed
    <3>2. PICK lines : lines = feeLines[s]
      OBVIOUS
    <3>3. PICK b \in DOMAIN lines : lines[b] > 0
      BY <3>2 DEF Billable, ShouldBillForSession
    <3>4. PICK P : P = {<<x, lines[x]>> : x \in DOMAIN lines}
      OBVIOUS
    <3>5. IsFiniteSet(P) /\ \A x \in P : x[2] \in Nat
      BY <3>1, <3>2, <3>4, LinesAreFinite
    <3>6. <<b, lines[b]>> \in P /\ <<b, lines[b]>>[2] # 0
      BY <3>3, <3>4
    <3>7. SumOf(P) \in Nat /\ SumOf(P) # 0
      BY <3>5, <3>6, SumIsNat
    <3>8. BillOf(s).gross = SumOf(P)
      BY <3>2, <3>4 DEF BillOf, TotalOfLines
    <3> QED BY <3>7, <3>8
  <2>4. \A b \in todo : b.gross > 0
    BY <2>2, <2>3
  <2>5. PICK t : t = [Idle EXCEPT !.at = "issue", !.due = due, !.todo = todo]
    OBVIOUS
  <2>6. t.due = due /\ t.todo = todo /\ t.pay = None /\ t.fee = None
    BY <2>5 DEF Idle
  <2>7. Promised(t)
    BY <2>4, <2>6, ConstantFacts DEF Promised
  <2> QED BY <1>1, <2>1, <2>2, <2>5, <2>7, PromisedStep
<1> QED BY <1>2, <1>3, <1>4, <1>5, <1>6

LEMMA ContinuedPromised ==
  ASSUME Shape, AllPromised, NEW c \in Clerks,
         \/ TakePayment(c) \/ ReadRow(c) \/ LockBill(c) \/ SumPayments(c) \/ FindLiveBill(c)
         \/ IssueBatch(c) \/ RunDone(c)
  PROVE  AllPromised'
<1>1. day' = day /\ task[c] \in Task
  BY TaskTyped DEF TakePayment, ReadRow, LockBill, SumPayments, FindLiveBill, IssueBatch, RunDone
<1>2. PICK old \in Task : old = task[c]
  BY <1>1
<1>3. CASE TakePayment(c) \/ RunDone(c)
  <2>1. PICK at \in {"read", "notify"} : Advance(c, [old EXCEPT !.at = at])
    BY <1>2, <1>3 DEF TakePayment, RunDone
  <2>2. PICK t : t = [old EXCEPT !.at = at]
    OBVIOUS
  <2>3. /\ t.at = at /\ t.todo = old.todo /\ t.due = old.due /\ t.pay = old.pay /\ t.fee = old.fee
        /\ t.entry = old.entry /\ t.today = old.today /\ t.rule = old.rule
    BY <2>2 DEF Task
  <2> QED BY <1>1, <1>2, <2>1, <2>2, <2>3, GoingOnPromised
<1>4. CASE ReadRow(c) \/ LockBill(c)
  <2>1. PICK seen : seen = OwnRow(old)
    OBVIOUS
  <2>2. Advance(c, [old EXCEPT !.at = "sum", !.seen = seen])
    BY <1>2, <1>4, <2>1 DEF ReadRow, LockBill
  <2>3. PICK t : t = [old EXCEPT !.at = "sum", !.seen = seen]
    OBVIOUS
  <2>4. /\ t.at = "sum" /\ t.todo = old.todo /\ t.due = old.due /\ t.pay = old.pay /\ t.fee = old.fee
        /\ t.entry = old.entry /\ t.today = old.today /\ t.rule = old.rule
    BY <2>3 DEF Task
  <2> QED BY <1>1, <1>2, <2>2, <2>3, <2>4, GoingOnPromised
<1>5. CASE SumPayments(c)
  <2>1. PICK paid : paid = SumOf(LivePayments(OwnPayments(old), old.v))
    OBVIOUS
  <2>2. Advance(c, [old EXCEPT !.at = "write", !.paid = paid])
    BY <1>2, <1>5, <2>1 DEF SumPayments
  <2>3. PICK t : t = [old EXCEPT !.at = "write", !.paid = paid]
    OBVIOUS
  <2>4. /\ t.at = "write" /\ t.todo = old.todo /\ t.due = old.due /\ t.pay = old.pay /\ t.fee = old.fee
        /\ t.entry = old.entry /\ t.today = old.today /\ t.rule = old.rule
    BY <2>3 DEF Task
  <2> QED BY <1>1, <1>2, <2>2, <2>3, <2>4, GoingOnPromised
<1>6. CASE FindLiveBill(c)
  <2>1. \E v, tell : Advance(c, [old EXCEPT !.at = "lock", !.v = v, !.tell = tell])
    BY <1>2, <1>6 DEF FindLiveBill
  <2>2. PICK v, tell : Advance(c, [old EXCEPT !.at = "lock", !.v = v, !.tell = tell])
    BY <2>1
  <2>3. PICK t : t = [old EXCEPT !.at = "lock", !.v = v, !.tell = tell]
    OBVIOUS
  <2>4. /\ t.at = "lock" /\ t.todo = old.todo /\ t.due = old.due /\ t.pay = old.pay /\ t.fee = old.fee
        /\ t.entry = old.entry /\ t.today = old.today /\ t.rule = old.rule
    BY <2>3 DEF Task
  <2> QED BY <1>1, <1>2, <2>2, <2>3, <2>4, GoingOnPromised
<1>7. CASE IssueBatch(c)
  <2>1. PICK made \in SUBSET Students :
          \E todo \in SUBSET old.todo :
            Advance(c, [old EXCEPT !.todo = todo,
              !.tell = old.tell \cup {<<s, NextNumber(s)>> : s \in made}])
    BY <1>2, <1>7, BatchIssued
  <2>2. PICK tell : tell = old.tell \cup {<<s, NextNumber(s)>> : s \in made}
    OBVIOUS
  <2>3. PICK todo \in SUBSET old.todo : Advance(c, [old EXCEPT !.todo = todo, !.tell = tell])
    BY <2>1, <2>2
  <2>4. PICK t : t = [old EXCEPT !.todo = todo, !.tell = tell]
    OBVIOUS
  <2>5. /\ t.at = old.at /\ t.todo = todo /\ t.due = old.due /\ t.pay = old.pay /\ t.fee = old.fee
        /\ t.entry = old.entry /\ t.today = old.today /\ t.rule = old.rule
    BY <2>4 DEF Task
  <2> QED BY <1>1, <1>2, <2>3, <2>4, <2>5, GoingOnPromised
<1> QED BY <1>3, <1>4, <1>5, <1>6, <1>7

LEMMA PromisedNext ==
  ASSUME Shape, Ledgered, AllPromised, [Next]_vars
  PROVE  AllPromised'
<1>1. CASE Tick \/ UpdateFeeRules \/ (\E s \in Students : Admit(s)) \/ UNCHANGED vars
  <2>1. UNCHANGED task /\ (day' = day \/ day' = day + 1) /\ day \in Nat
    BY <1>1 DEF Tick, UpdateFeeRules, Admit, vars, Shape, Typed
  <2> QED BY <2>1 DEF AllPromised, Promised
<1>2. ASSUME NEW c \in Clerks, Settling(c) \/ Paying(c) PROVE AllPromised'
  <2>1. CASE RejectedByIndex(c) \/ CommitPayment(c)
    BY <2>1, EndedPromised DEF RejectedByIndex, CommitPayment
  <2> QED BY <1>2, <2>1, StartedPromised, ContinuedPromised DEF Settling, Paying
<1>3. ASSUME NEW c \in Clerks, Cancelling(c) \/ Planning(c) PROVE AllPromised'
  <2>1. CASE CommitCancel(c) \/ NoLiveBill(c) \/ CommitPlan(c)
    BY <2>1, EndedPromised DEF CommitCancel, NoLiveBill, CommitPlan
  <2> QED BY <1>3, <2>1, StartedPromised, ContinuedPromised DEF Cancelling, Planning
<1>4. ASSUME NEW c \in Clerks, Running(c) \/ Notify(c) \/ Stopped(c) PROVE AllPromised'
  <2>1. CASE RunRejected(c) \/ Notify(c) \/ Stopped(c)
    BY <2>1, EndedPromised DEF RunRejected, Notify, Stopped
  <2> QED BY <1>4, <2>1, StartedPromised, ContinuedPromised DEF Running
<1> QED BY <1>1, <1>2, <1>3, <1>4 DEF Next

\* Every reachable state keeps what its requests were promised.
LEMMA PromisedHolds == Spec => []AllPromised
<1>1. Init => AllPromised
  BY ConstantFacts DEF Init, AllPromised, Promised, Idle
<1> QED BY <1>1, PromisedNext, TypesHold, PTL DEF Spec

---------------------------------------------------------------------------
\* What the book says, in terms of the rows.
LEMMA ChargeIsRow ==
  ASSUME Shape, NEW v \in Issued
  PROVE  /\ Book!Charge(v) = ChargeOf(Row(v)) /\ Book!Charge(v) = Charges[v[1]][v[2]]
         /\ v \in Book!Bills
<1>1. v[1] \in Students /\ v[2] \in DOMAIN bills[v[1]] /\ v = <<v[1], v[2]>>
  BY IssuedRow DEF Shape, Typed
<1>2. Charges[v[1]] = [k \in DOMAIN bills[v[1]] |-> ChargeOf(bills[v[1]][k])]
  BY <1>1 DEF Charges
<1>3. Charges[v[1]][v[2]] = ChargeOf(Row(v))
  BY <1>1, <1>2 DEF Row
<1>4. v \in {<<v[1], k>> : k \in DOMAIN Charges[v[1]]}
  BY <1>1, <1>2
<1> QED BY <1>1, <1>3, <1>4 DEF Book!Charge, Book!Bills

\* The book's rules are the service's.
LEMMA SameRules ==
  /\ \A bill, paid, today, rule :
       Book!LateFineDue(bill, paid, today, rule) = LateFineDue(bill, paid, today, rule)
  /\ \A gross, concess : Book!DiscountFor(gross, concess) = DiscountFor(gross, concess)
  /\ \A bill : Book!NetPayable(bill) = NetPayable(bill)
  /\ \A pairs : Book!SumOf(pairs) = SumOf(pairs)
<1>1. Book!NoDueDate = NoDueDate /\ \A n : Book!AtLeastZero(n) = AtLeastZero(n)
  BY DEF Book!NoDueDate, NoDueDate, Book!AtLeastZero, AtLeastZero
<1>2. ASSUME NEW bill, NEW paid, NEW today, NEW rule
      PROVE  Book!LateFineDue(bill, paid, today, rule) = LateFineDue(bill, paid, today, rule)
  BY <1>1, Zenon DEF Book!LateFineDue, LateFineDue
<1>3. ASSUME NEW gross, NEW concess PROVE Book!DiscountFor(gross, concess) = DiscountFor(gross, concess)
  <2>1. Book!AtLeastZero(gross) = AtLeastZero(gross)
    BY <1>1
  <2> QED BY <2>1 DEF Book!DiscountFor, DiscountFor
<1>4. ASSUME NEW bill PROVE Book!NetPayable(bill) = NetPayable(bill)
  BY <1>1, Zenon DEF Book!NetPayable, NetPayable
<1>5. ASSUME NEW pairs PROVE Book!SumOf(pairs) = SumOf(pairs)
  <2>1. \A S : Book!Cardinality(S) = Cardinality(S)
    BY DEF Book!Cardinality, Cardinality
  <2>2. PICK S : S = UNION {{x} \X (1 .. x[2]) : x \in pairs}
    OBVIOUS
  <2>3. Book!SumOf(pairs) = Book!Cardinality(S) /\ SumOf(pairs) = Cardinality(S)
    BY <2>2 DEF Book!SumOf, SumOf
  <2> QED BY <2>1, <2>3
<1> QED BY <1>2, <1>3, <1>4, <1>5

LEMMA ReceiptsAreLive ==
  ASSUME NEW ps, NEW v
  PROVE  Book!Receipts(ps, v) = LivePayments(ps, v)
BY DEF Book!Receipts, LivePayments

\* The charges that stand are the bills that are live.
LEMMA StandingIsLive ==
  ASSUME Sound, OrderlyBook, NEW s \in Students
  PROVE  Book!Standing(s) = LiveOf(s)
<1>1. bills[s] \in Seq(BillRow)
  BY DEF Sound, Shape, Typed
<1>2. Charges[s] = [k \in DOMAIN bills[s] |-> ChargeOf(bills[s][k])]
  BY DEF Charges
<1>3. ASSUME NEW k \in DOMAIN bills[s] PROVE Live(bills[s][k]) <=> ~Charges[s][k].withdrawn
  <2>1. PICK v : v = <<s, k>>
    OBVIOUS
  <2>2. v \in Issued /\ Row(v) = bills[s][k]
    BY <2>1 DEF Issued, Row
  <2>3. Live(Row(v)) <=> ~Row(v).cancelled
    BY <2>2, StandingBill
  <2>4. Charges[s][k].withdrawn = bills[s][k].cancelled
    BY <1>2 DEF ChargeOf
  <2> QED BY <2>2, <2>3, <2>4
<1> QED BY <1>2, <1>3 DEF Book!Standing, LiveOf

\* One row written is one charge changed.
LEMMA ChargeWritten ==
  ASSUME Shape, NEW v \in Issued, NEW b \in BillRow, bills' = [bills EXCEPT ![v[1]][v[2]] = b]
  PROVE  Charges' = [Charges EXCEPT ![v[1]][v[2]] = ChargeOf(b)]
<1>1. v[1] \in Students /\ v[2] \in DOMAIN bills[v[1]] /\ bills \in [Students -> Seq(BillRow)]
  BY IssuedRow DEF Shape, Typed
<1>2. PICK new : new = [Charges EXCEPT ![v[1]][v[2]] = ChargeOf(b)]
  OBVIOUS
<1>3. /\ DOMAIN new = Students
      /\ \A s \in Students : new[s] = IF s = v[1] THEN [Charges[s] EXCEPT ![v[2]] = ChargeOf(b)]
                                      ELSE Charges[s]
  BY <1>2 DEF Charges
<1>4. Charges' = [s \in Students |-> [k \in DOMAIN bills'[s] |-> ChargeOf(bills'[s][k])]]
  BY DEF Charges, ChargeOf
<1>5. ASSUME NEW s \in Students PROVE Charges'[s] = new[s]
  <2>1. Charges'[s] = [k \in DOMAIN bills'[s] |-> ChargeOf(bills'[s][k])]
    BY <1>4
  <2>2. Charges[s] = [k \in DOMAIN bills[s] |-> ChargeOf(bills[s][k])]
    BY DEF Charges
  <2>3. CASE s # v[1]
    <3>1. bills'[s] = bills[s]
      BY <1>1, <2>3
    <3> QED BY <1>3, <2>1, <2>2, <2>3, <3>1
  <2>4. CASE s = v[1]
    <3>1. /\ DOMAIN bills'[s] = DOMAIN bills[s]
          /\ \A k \in DOMAIN bills[s] : bills'[s][k] = IF k = v[2] THEN b ELSE bills[s][k]
      BY <1>1, <2>4
    <3>2. PICK q : q = [Charges[s] EXCEPT ![v[2]] = ChargeOf(b)]
      OBVIOUS
    <3>3. q = [k \in DOMAIN bills[s] |-> IF k = v[2] THEN ChargeOf(b) ELSE ChargeOf(bills[s][k])]
      BY <1>1, <2>2, <2>4, <3>2
    <3>4. \A k \in DOMAIN bills[s] :
            ChargeOf(bills'[s][k]) = IF k = v[2] THEN ChargeOf(b) ELSE ChargeOf(bills[s][k])
      BY <3>1
    <3>5. Charges'[s] = q
      BY <2>1, <3>1, <3>3, <3>4
    <3> QED BY <1>3, <2>4, <3>2, <3>5
  <2> QED BY <2>3, <2>4
<1> QED BY <1>2, <1>3, <1>4, <1>5

\* Rows and lines that stay are a book that stays.
LEMMA BookStays ==
  ASSUME UNCHANGED <<bills, feeLines, concession>>
  PROVE  Charges' = Charges /\ Plans' = Plans
<1>1. Charges' = Charges
  BY DEF Charges, ChargeOf
<1>2. Plans' = Plans
  BY DEF Plans, PlanOf
<1> QED BY <1>1, <1>2

LEMMA ChargesStay == ASSUME UNCHANGED bills PROVE Charges' = Charges
BY DEF Charges, ChargeOf

LEMMA PlansStay == ASSUME UNCHANGED <<feeLines, concession>> PROVE Plans' = Plans
BY DEF Plans, PlanOf

\* A form written is the student's plan.
LEMMA PlanChanged ==
  ASSUME NEW s \in Students, NEW fee \in Fees,
         TotalOfLines(feeLines'[s]) = fee.gross, concession'[s] = fee.concession,
         \A x \in Students \ {s} : feeLines'[x] = feeLines[x] /\ concession'[x] = concession[x]
  PROVE  Plans' = [Plans EXCEPT ![s] = fee]
<1>1. Plans' = [x \in Students |-> [gross |-> TotalOfLines(feeLines'[x]),
     concession |-> concession'[x]]]
  BY DEF Plans, PlanOf
<1>2. [gross |-> TotalOfLines(feeLines'[s]), concession |-> concession'[s]] = fee
  BY ConstantFacts
<1>3. \A x \in Students \ {s} :
        [gross |-> TotalOfLines(feeLines'[x]), concession |-> concession'[x]] = PlanOf(x)
  BY DEF PlanOf
<1>4. Plans = [x \in Students |-> PlanOf(x)]
  BY DEF Plans
<1> QED BY <1>1, <1>2, <1>3, <1>4

\* A settlement charges the fine the book allows.
LEMMA SettlesTheBook ==
  ASSUME Sound, Orderly, AllPromised, NEW c \in Clerks, WriteBill(c), NEW v, v = task[c].v,
         NEW rs, rs = OwnPayments(task[c])
  PROVE  Book!Settle(v, ChargeOf(OwnRow(task[c])), rs)
<1>1. Shape /\ OrderlyBook /\ Ledgered /\ payment \in [Payments -> Entry \cup {Unrecorded}]
  BY DEF Sound, Orderly, Shape, Typed
<1>2. PICK t \in Task : t = task[c]
  BY <1>1, TaskTyped
<1>3. LinkedAt(c) /\ CountsOn(t) /\ EntryHolds(c) /\ Promised(t) /\ t.at = "write"
  <2>1. LinkedAt(c) /\ EntryHolds(c)
    BY <1>1, TaskTyped DEF Ledgered
  <2>2. CountsOn(task[c]) /\ Promised(task[c])
    BY DEF Orderly, Undisturbed, AllPromised
  <2>3. task[c].at = "write"
    BY DEF WriteBill
  <2> QED BY <1>2, <2>1, <2>2, <2>3
<1>4. PICK b : b = Settled(t)
  OBVIOUS
<1>5. /\ v \in Issued /\ b \in BillRow /\ t.seen \in BillRow
      /\ bills' = [bills EXCEPT ![v[1]][v[2]] = b]
      /\ t.seen = OwnRow(t) /\ t.paid = SumOf(OwnLive(c))
      /\ b.gross = t.seen.gross /\ b.discount = t.seen.discount /\ b.due = t.seen.due
      /\ ~b.cancelled /\ b.fine = FineFor(t) /\ b.paid = t.paid /\ ~Row(v).cancelled
  BY <1>2, <1>4, UndisturbedWrite
<1>6. ~t.seen.cancelled
  <2>1. Row(v) \in BillRow
    BY <1>1, <1>5, IssuedRow DEF Shape, Typed
  <2>2. OwnRow(t).cancelled = Row(v).cancelled
    BY <1>2, <2>1 DEF OwnRow, Rebilled, BillRow
  <2> QED BY <1>5, <2>2
<1>7. PICK bill : bill = ChargeOf(t.seen)
  OBVIOUS
<1>8. /\ bill.gross = t.seen.gross /\ bill.discount = t.seen.discount /\ bill.fine = t.seen.fine
      /\ bill.due = t.seen.due /\ bill.withdrawn = t.seen.cancelled
      /\ ChargeOf(b) = [bill EXCEPT !.fine = FineFor(t)]
  BY <1>5, <1>6, <1>7 DEF ChargeOf, BillRow
<1>9. t.today \in 0 .. day /\ t.rule \in FineRules
  BY <1>2, <1>3 DEF Promised, LinkedAt
<1>10. LivePayments(rs, v) = {} <=> t.paid = 0
  <2>1. PICK L : L = LivePayments(rs, v)
    OBVIOUS
  <2>2. rs \in [Payments -> Entry \cup {Unrecorded}]
    BY <1>1, <1>2, OwnPaymentsTyped
  <2>3. IsFiniteSet(L) /\ \A x \in L : x[2] \in Nat
    BY <2>1, <2>2, LiveIsFinite
  <2>4. t.paid = SumOf(L)
    BY <1>2, <1>5, <2>1 DEF OwnLive
  <2>5. v # None
    BY <1>1, <1>5, IssuedRow, ConstantFacts DEF Shape, Typed
  <2>6. ASSUME NEW p \in Payments, rs[p].voucher = v PROVE rs[p].amount # 0
    <3>1. CASE t.pay \in Payments /\ p = t.pay
      <4>1. rs[p] = t.entry
        BY <1>1, <1>2, <3>1, ConstantFacts DEF OwnPayments
      <4> QED BY <1>3, <3>1, <4>1 DEF CountsOn
    <3>2. CASE ~(t.pay \in Payments /\ p = t.pay)
      <4>1. rs[p] = payment[p]
        BY <1>1, <1>2, <3>2 DEF OwnPayments, Task
      <4> QED BY <1>1, <2>5, <2>6, <4>1 DEF OrderlyBook, Sensible, Recorded
    <3> QED BY <3>1, <3>2
  <2>7. \A x \in L : x[2] # 0
    BY <2>1, <2>6 DEF LivePayments
  <2>8. t.paid = 0 <=> \A x \in L : x[2] = 0
    BY <2>3, <2>4, SumIsNat
  <2> QED BY <2>1, <2>7, <2>8
<1>11. Book!Receipts(rs, v) = LivePayments(rs, v)
  BY ReceiptsAreLive
<1>12. PICK asCharged : asCharged = [gross |-> bill.gross, discount |-> bill.discount, due |-> bill.due,
                                     cancelled |-> bill.withdrawn]
  OBVIOUS
<1>13. LateFineDue(t.seen, 0, t.today, t.rule) = LateFineDue(asCharged, 0, t.today, t.rule)
  <2>1. /\ asCharged.gross = t.seen.gross /\ asCharged.discount = t.seen.discount
        /\ asCharged.due = t.seen.due /\ asCharged.cancelled = t.seen.cancelled
    BY <1>8, <1>12
  <2> QED BY <2>1 DEF LateFineDue
<1>14. PICK fine : fine = FineFor(t)
  OBVIOUS
<1>15. \/ t.paid = 0 /\ fine = 0
       \/ t.paid # 0 /\ t.seen.fine > 0 /\ fine = t.seen.fine
       \/ t.paid # 0 /\ ~(t.seen.fine > 0) /\ fine = LateFineDue(asCharged, 0, t.today, t.rule)
  BY <1>13, <1>14 DEF FineFor
<1>16. Book!MayFine(v, bill, rs, fine)
  <2>1. CASE t.paid = 0 /\ fine = 0
    BY <1>10, <1>11, <2>1 DEF Book!MayFine
  <2>2. CASE t.paid # 0 /\ t.seen.fine > 0 /\ fine = t.seen.fine
    BY <1>8, <1>10, <1>11, <2>2 DEF Book!MayFine
  <2>3. CASE t.paid # 0 /\ ~(t.seen.fine > 0) /\ fine = LateFineDue(asCharged, 0, t.today, t.rule)
    <3>1. \E on \in 0 .. day, rule \in FineRules : fine = Book!LateFineDue(asCharged, 0, on, rule)
      BY <1>9, <2>3, SameRules
    <3>2. Book!Receipts(rs, v) # {} /\ ~(bill.fine > 0)
      BY <1>8, <1>10, <1>11, <2>3
    <3> QED BY <1>12, <3>1, <3>2, Zenon DEF Book!MayFine
  <2> QED BY <1>15, <2>1, <2>2, <2>3
<1>17. fine \in FineRules \cup {0, bill.fine}
  BY <1>8, <1>9, <1>15 DEF LateFineDue
<1>18. Charges' = [Charges EXCEPT ![v[1]][v[2]] = [bill EXCEPT !.fine = fine]]
  <2>1. Charges' = [Charges EXCEPT ![v[1]][v[2]] = ChargeOf(b)]
    BY <1>1, <1>5, ChargeWritten
  <2> QED BY <1>8, <1>14, <2>1
<1>19. Book!Settle(v, bill, rs)
  BY <1>16, <1>17, <1>18 DEF Book!Settle
<1> QED BY <1>2, <1>5, <1>7, <1>19

---------------------------------------------------------------------------
\* The values a charge can have.
ChargeRow == [gross : Nat, discount : Nat, fine : Nat, due : Nat \cup {NoDueDate}, withdrawn : BOOLEAN]

LEMMA ChargeIsTyped ==
  ASSUME NEW row \in BillRow
  PROVE  ChargeOf(row) \in ChargeRow
BY DEF ChargeOf, ChargeRow, BillRow

\* What each transaction that commits is on the book: a payment or its voiding;
\* a plan with the live bill it reissues; a plan alone; a student's first bill;
\* a bill withdrawn; and one batch of a run.
LEMMA PaymentIsBooked ==
  ASSUME Sound, Orderly, AllPromised, NEW c \in Clerks, CommitPayment(c)
  PROVE  Book!Next
<1>1. Shape /\ OrderlyBook /\ Ledgered
  BY DEF Sound, Orderly
<1>2. PICK t \in Task : t = task[c]
  BY <1>1, TaskTyped
<1>3. LinkedAt(c) /\ EntryHolds(c)
  BY <1>1, TaskTyped DEF Ledgered
<1>4. CountsOn(t) /\ Promised(t)
  BY <1>2 DEF Orderly, Undisturbed, AllPromised
<1>5. WriteBill(c) /\ t.pay \in Payments /\ t.fee = None /\ payment' = OwnPayments(t)
  BY <1>2, <1>3 DEF CommitPayment, Task, LinkedAt
<1>6. PICK v : v = t.v
  OBVIOUS
<1>7. PICK p \in Payments : p = t.pay
  BY <1>5
<1>8. PICK entry \in Entry : entry = t.entry
  BY <1>2, <1>3, <1>5 DEF LinkedAt
<1>9. v \in Issued /\ entry.voucher = v /\ ~Row(v).cancelled
  BY <1>2, <1>3, <1>4, <1>5, <1>6, <1>8 DEF WriteBill, LinkedAt, CountsOn
<1>10. payment' = [payment EXCEPT ![p] = entry] /\ payment \in [Payments -> Entry \cup {Unrecorded}]
  BY <1>1, <1>5, <1>7, <1>8, ConstantFacts DEF OwnPayments, Shape, Typed
<1>11. Book!Settle(v, ChargeOf(OwnRow(task[c])), payment')
  BY <1>2, <1>5, <1>6, SettlesTheBook
<1>12. Book!Charge(v) = ChargeOf(Row(v)) /\ v \in Book!Bills
  BY <1>1, <1>9, ChargeIsRow
<1>13. Book!Settle(v, Book!Charge(v), payment')
  BY <1>2, <1>5, <1>6, <1>11, <1>12 DEF OwnRow
<1>14. UNCHANGED <<day, Plans>>
  BY PlansStay DEF CommitPayment, plans
<1>15. CASE entry.voided
  <2>1. /\ payment[p].voucher = v /\ payment[p].amount = entry.amount /\ ~payment[p].voided
        /\ v # None
    BY <1>1, <1>2, <1>3, <1>4, <1>5, <1>6, <1>7, <1>8, <1>9, <1>15, IssuedRow, ConstantFacts
       DEF EntryHolds, CountsOn, Shape, Typed
  <2>2. payment[p] \in Entry
    BY <1>10, <2>1 DEF Unrecorded
  <2>3. entry = [payment[p] EXCEPT !.voided = TRUE]
    BY <1>9, <1>15, <2>1, <2>2 DEF Entry
  <2>4. payment' = [payment EXCEPT ![p].voided = TRUE]
    BY <1>10, <2>3
  <2>5. Book!Void(p)
    BY <1>13, <1>14, <2>1, <2>4 DEF Book!Void
  <2> QED BY <2>5 DEF Book!Next
<1>16. CASE ~entry.voided
  <2>1. payment[p] = Unrecorded /\ entry.amount \in Amounts
    BY <1>2, <1>3, <1>4, <1>5, <1>7, <1>8, <1>16 DEF EntryHolds, Promised
  <2>2. entry = [voucher |-> v, amount |-> entry.amount, voided |-> FALSE]
    BY <1>9, <1>16 DEF Entry
  <2>3. ~Book!PaidUp(v)
    <3>1. Row(v).status # "PAID"
      BY <1>4, <1>5, <1>6, <1>8, <1>16 DEF CountsOn
    <3>2. IsSettled(v) /\ Row(v) \in BillRow
      BY <1>1, <1>9, StandingBill
    <3>3. SumOf(LivePayments(payment, v)) = Row(v).paid /\ Row(v).status = StatusFor(Row(v), FALSE)
      BY <1>9, <3>2 DEF IsSettled, PaidOn, BillRow
    <3>4. NetPayable(ChargeOf(Row(v))) = NetPayable(Row(v))
      BY DEF NetPayable, ChargeOf
    <3>5. ~(Row(v).paid > 0 /\ Row(v).paid >= NetPayable(Row(v)))
      BY <3>1, <3>2, <3>3 DEF StatusFor, BillRow
    <3>6. Book!SumOf(Book!Receipts(payment, v)) = Row(v).paid
      BY <3>3, ReceiptsAreLive, SameRules
    <3>7. Book!NetPayable(Book!Charge(v)) = NetPayable(Row(v))
      BY <1>12, <3>4, SameRules
    <3> QED BY <3>5, <3>6, <3>7 DEF Book!PaidUp
  <2>4. ~Book!Charge(v).withdrawn /\ payment[p].voucher = None
    BY <1>9, <1>12, <2>1 DEF ChargeOf, Unrecorded
  <2>5. PICK amount \in Amounts : amount = entry.amount
    BY <2>1
  <2>6. Book!Pay(v, p, amount)
    BY <1>10, <1>13, <1>14, <2>2, <2>3, <2>4, <2>5 DEF Book!Pay
  <2> QED BY <1>12, <2>6 DEF Book!Next
<1> QED BY <1>15, <1>16

LEMMA PlanIsBooked ==
  ASSUME Sound, Orderly, AllPromised, NEW c \in Clerks, CommitPlan(c)
  PROVE  Book!Next
<1>1. Shape /\ OrderlyBook /\ payment' = payment /\ day' = day /\ WriteBill(c) /\ WritePlan(c)
  BY DEF Sound, Orderly, CommitPlan
<1>2. PICK t \in Task : t = task[c]
  BY <1>1, TaskTyped
<1>3. LinkedAt(c)
  BY <1>1, TaskTyped
<1>4. PICK fee \in Fees : fee = t.fee
  BY <1>2 DEF CommitPlan, Task
<1>5. PICK v, s : v = t.v /\ s = t.s
  OBVIOUS
<1>6. v \in Issued /\ v[1] = s /\ t.pay = None /\ t.fee # None
  BY <1>1, <1>2, <1>3, <1>4, <1>5, ConstantFacts DEF LinkedAt, WriteBill
<1>7. s \in Students /\ Plans' = [Plans EXCEPT ![s] = fee]
  BY <1>1, <1>2, <1>4, <1>5, PlanWritten, PlanChanged
<1>8. /\ v[2] \in LiveOf(s) /\ Row(v) \in BillRow /\ v = <<s, v[2]>>
  <2>1. Live(Row(v)) /\ Row(v) \in BillRow
    <3>1. PICK b : b = Settled(task[c])
      OBVIOUS
    <3> QED BY <1>1, <1>2, <1>5, <3>1, UndisturbedWrite
  <2>2. v[2] \in DOMAIN bills[s] /\ v = <<s, v[2]>>
    BY <1>1, <1>6, IssuedRow DEF Shape, Typed
  <2> QED BY <1>6, <2>1, <2>2 DEF LiveOf, Row
<1>9. Book!Settle(v, ChargeOf(OwnRow(task[c])), OwnPayments(task[c]))
  BY <1>1, <1>2, <1>5, SettlesTheBook
<1>10. OwnPayments(task[c]) = payment
  BY <1>2, <1>6 DEF OwnPayments
<1>11. PICK bill : bill = [Charges[s][v[2]] EXCEPT !.gross = fee.gross,
                                                   !.discount = DiscountFor(fee.gross, fee.concession)]
  OBVIOUS
<1>12. ChargeOf(OwnRow(task[c])) = bill
  <2>1. Charges[s][v[2]] = ChargeOf(Row(v))
    BY <1>1, <1>6, ChargeIsRow
  <2>2. OwnRow(task[c]) = Rebilled(Row(v), fee)
    BY <1>2, <1>4, <1>5, <1>6 DEF OwnRow
  <2>3. PICK row \in BillRow : row = Row(v)
    BY <1>8
  <2>4. PICK new : new = Rebilled(row, fee)
    OBVIOUS
  <2>5. /\ new.gross = fee.gross /\ new.discount = DiscountFor(fee.gross, fee.concession)
        /\ new.fine = row.fine /\ new.due = row.due /\ new.cancelled = row.cancelled
    BY <2>4 DEF Rebilled, BillRow
  <2>6. new \in BillRow /\ Charges[s][v[2]] = ChargeOf(row)
    BY <1>6, <2>1, <2>3, <2>4, RebilledRow
  <2>7. PICK now \in ChargeRow : now = ChargeOf(new)
    BY <2>6, ChargeIsTyped
  <2>8. PICK old \in ChargeRow : old = ChargeOf(row)
    BY ChargeIsTyped
  <2>9. /\ now.gross = fee.gross /\ now.discount = DiscountFor(fee.gross, fee.concession)
        /\ now.fine = old.fine /\ now.due = old.due /\ now.withdrawn = old.withdrawn
    BY <2>5, <2>7, <2>8 DEF ChargeOf
  <2>10. now = [old EXCEPT !.gross = fee.gross, !.discount = DiscountFor(fee.gross, fee.concession)]
    BY <2>9 DEF ChargeRow
  <2> QED BY <1>11, <2>2, <2>3, <2>4, <2>6, <2>7, <2>8, <2>10
<1>13. Book!Standing(s) = LiveOf(s)
  BY <1>1, <1>7, StandingIsLive
<1>14. PICK k \in Book!Standing(s) : v = <<s, k>> /\ k = v[2]
  BY <1>8, <1>13
<1>15. Book!Settle(<<s, k>>, bill, payment)
  BY <1>9, <1>10, <1>12, <1>14
<1>16. bill = [Charges[s][k] EXCEPT !.gross = fee.gross,
                                    !.discount = Book!DiscountFor(fee.gross, fee.concession)]
  BY <1>11, <1>14, SameRules
<1>17. Book!SetPlan(s, fee)
  BY <1>1, <1>7, <1>14, <1>15, <1>16 DEF Book!SetPlan
<1> QED BY <1>7, <1>17 DEF Book!Next

LEMMA PlanAloneIsBooked ==
  ASSUME Sound, OrderlyBook, NEW s \in Students, NEW fee \in Fees, LiveOf(s) = {},
         Plans' = [Plans EXCEPT ![s] = fee], UNCHANGED <<day, bills, payment>>
  PROVE  Book!Next
<1>1. Book!Standing(s) = {} /\ Charges' = Charges
  BY StandingIsLive, ChargesStay
<1>2. Book!SetPlan(s, fee)
  BY <1>1 DEF Book!SetPlan
<1> QED BY <1>2 DEF Book!Next

LEMMA NoLiveBillIsBooked ==
  ASSUME Sound, Orderly, NEW c \in Clerks, NoLiveBill(c)
  PROVE  Book!Next
<1>1. PICK s, fee : s = task[c].s /\ fee = task[c].fee
  OBVIOUS
<1>2. /\ Shape /\ OrderlyBook /\ fee \in Fees /\ WritePlan(c) /\ LiveOf(s) = {}
      /\ UNCHANGED <<day, bills, payment>>
  BY <1>1, TaskTyped DEF Sound, Orderly, NoLiveBill, LinkedAt, ledger
<1>3. s \in Students /\ Plans' = [Plans EXCEPT ![s] = fee]
  BY <1>1, <1>2, PlanWritten, PlanChanged
<1> QED BY <1>2, <1>3, PlanAloneIsBooked

LEMMA AdmissionIsBooked ==
  ASSUME Sound, Orderly, NEW s \in Students, Admit(s)
  PROVE  Book!Next
<1>1. /\ Shape /\ OrderlyBook /\ feeLines \in [Students -> [Clerks \cup {Admission} -> Nat]]
      /\ concession \in [Students -> Nat]
  BY DEF Sound, Orderly, Shape, Typed
<1>2. PICK fee \in Fees : /\ feeLines' = [feeLines EXCEPT ![s][Admission] = fee.gross]
                          /\ concession' = [concession EXCEPT ![s] = fee.concession]
  BY DEF Admit
<1>3. s \in Students \ admitted /\ UNCHANGED <<day, bills, payment>>
  BY DEF Admit, ledger
<1>4. bills[s] = <<>> /\ \A b \in Clerks \cup {Admission} : feeLines[s][b] = 0
  BY <1>1, <1>3 DEF OrderlyBook, NobodyUnknown
<1>5. PICK lines : lines = feeLines'[s]
  OBVIOUS
<1>6. /\ DOMAIN lines = Clerks \cup {Admission} /\ lines[Admission] = fee.gross /\ fee.gross \in Nat
      /\ \A b \in Clerks : lines[b] = 0
  BY <1>1, <1>2, <1>4, <1>5, ConstantFacts
<1>7. TotalOfLines(lines) = fee.gross
  <2>1. PICK P : P = {<<b, lines[b]>> : b \in DOMAIN lines}
    OBVIOUS
  <2>2. PICK y : y = <<Admission, lines[Admission]>>
    OBVIOUS
  <2>3. y \in P /\ y[2] = fee.gross /\ \A x \in P : x # y => x[2] = 0
    BY <1>6, <2>1, <2>2
  <2>4. SumOf(P) = y[2]
    BY <1>6, <2>3, SumOfOne
  <2> QED BY <2>1, <2>3, <2>4 DEF TotalOfLines
<1>8. /\ concession'[s] = fee.concession
      /\ \A x \in Students \ {s} : feeLines'[x] = feeLines[x] /\ concession'[x] = concession[x]
  BY <1>1, <1>2
<1>9. Plans' = [Plans EXCEPT ![s] = fee]
  BY <1>5, <1>7, <1>8, PlanChanged
<1>10. LiveOf(s) = {}
  BY <1>4 DEF LiveOf
<1> QED BY <1>1, <1>3, <1>9, <1>10, PlanAloneIsBooked

LEMMA CancellingIsBooked ==
  ASSUME Sound, Orderly, NEW c \in Clerks, CommitCancel(c)
  PROVE  Book!Next
<1>1. PICK v, b : v = task[c].v /\ b = [Row(v) EXCEPT !.status = "CANCELLED", !.cancelled = TRUE]
  OBVIOUS
<1>2. Shape /\ OrderlyBook /\ CountsOn(task[c]) /\ task[c].at = "cancel" /\ UNCHANGED <<day, payment>>
  BY DEF Sound, Orderly, Undisturbed, CommitCancel
<1>3. v \in Issued /\ bills' = [bills EXCEPT ![v[1]][v[2]] = b]
  BY <1>1, <1>2, CommitCancelShape
<1>4. ~Row(v).cancelled /\ LivePayments(payment, v) = {}
  BY <1>1, <1>2 DEF CountsOn
<1>5. PICK row \in BillRow : row = Row(v)
  BY <1>2, <1>3, IssuedRow DEF Shape, Typed
<1>6. /\ b \in BillRow /\ b.gross = row.gross /\ b.discount = row.discount /\ b.fine = row.fine
      /\ b.due = row.due /\ b.cancelled = TRUE
  BY <1>1, <1>5 DEF BillRow, Statuses
<1>7. Book!Charge(v) = ChargeOf(row) /\ Charges[v[1]][v[2]] = ChargeOf(row) /\ v \in Book!Bills
  BY <1>2, <1>3, <1>5, ChargeIsRow
<1>8. ChargeOf(b) = [ChargeOf(row) EXCEPT !.withdrawn = TRUE]
  <2>1. PICK new \in ChargeRow : new = ChargeOf(b)
    BY <1>6, ChargeIsTyped
  <2>2. PICK old \in ChargeRow : old = ChargeOf(row)
    BY <1>5, ChargeIsTyped
  <2>3. /\ new.gross = old.gross /\ new.discount = old.discount /\ new.fine = old.fine
        /\ new.due = old.due /\ new.withdrawn
    BY <1>6, <2>1, <2>2 DEF ChargeOf
  <2>4. new = [old EXCEPT !.withdrawn = TRUE]
    BY <2>3 DEF ChargeRow
  <2> QED BY <2>1, <2>2, <2>4
<1>9. Charges' = [Charges EXCEPT ![v[1]][v[2]] = ChargeOf(b)]
  BY <1>2, <1>3, <1>6, ChargeWritten
<1>10. Charges' = [Charges EXCEPT ![v[1]][v[2]].withdrawn = TRUE]
  BY <1>7, <1>8, <1>9
<1>11. ~Book!Charge(v).withdrawn /\ Book!Receipts(payment, v) = {}
  BY <1>4, <1>5, <1>7, ReceiptsAreLive DEF ChargeOf
<1>12. Plans' = Plans
  BY PlansStay DEF CommitCancel, plans
<1>13. Book!Withdraw(v)
  BY <1>2, <1>10, <1>11, <1>12 DEF Book!Withdraw
<1> QED BY <1>7, <1>13 DEF Book!Next

LEMMA BatchIsBooked ==
  ASSUME Sound, Orderly, AllPromised, NEW c \in Clerks, IssueBatch(c)
  PROVE  Book!Next
<1>1. Shape /\ OrderlyBook /\ CountsOn(task[c]) /\ Promised(task[c])
     /\ bills \in [Students -> Seq(BillRow)]
  BY DEF Sound, Orderly, Undisturbed, AllPromised, Shape, Typed
<1>2. PICK due \in DueDates : due = task[c].due
  BY <1>1 DEF IssueBatch, Promised
<1>3. PICK made \in SUBSET Students :
        /\ bills' \in [Students -> Seq(BillRow)]
        /\ \A s \in Students \ made : bills'[s] = bills[s]
        /\ \A s \in made : /\ LiveOf(s) = {}
                           /\ bills'[s] = Append(bills[s], bills'[s][NextNumber(s)])
                           /\ \E b \in task[c].todo :
                                b.s = s /\ bills'[s][NextNumber(s)] = NewBill(b, task[c].due)
        /\ clean' = clean \cup {<<s, NextNumber(s)>> : s \in made}
        /\ \E todo \in SUBSET task[c].todo :
             Advance(c, [task[c] EXCEPT !.todo = todo,
               !.tell = task[c].tell \cup {<<s, NextNumber(s)>> : s \in made}])
  BY <1>1, BatchIssued
<1>4. DEFINE first(s) == [gross |-> Plans[s].gross,
                          discount |-> Book!DiscountFor(Plans[s].gross, Plans[s].concession),
                          fine |-> 0, due |-> due, withdrawn |-> FALSE]
<1>5. ASSUME NEW s \in made
      PROVE  /\ Plans[s].gross > 0 /\ Book!Standing(s) = {}
             /\ ChargeOf(bills'[s][NextNumber(s)]) = first(s)
  <2>1. PICK b \in task[c].todo : b.s = s /\ bills'[s][NextNumber(s)] = NewBill(b, due)
    BY <1>2, <1>3
  <2>2. b = BillOf(s) /\ b.gross > 0
    BY <1>1, <2>1 DEF IssueBatch, CountsOn, Promised
  <2>3. /\ b.gross = Plans[s].gross
        /\ b.discount = DiscountFor(Plans[s].gross, Plans[s].concession)
    BY <2>2 DEF BillOf, Plans, PlanOf
  <2>4. Book!Standing(s) = {}
    BY <1>1, <1>3, StandingIsLive
  <2>5. ChargeOf(NewBill(b, due)) = first(s)
    BY <2>3, SameRules DEF ChargeOf, NewBill
  <2> QED BY <2>1, <2>2, <2>3, <2>4, <2>5
<1> HIDE DEF first
<1>6. Charges' = [s \in Students |-> [k \in DOMAIN bills'[s] |-> ChargeOf(bills'[s][k])]]
  BY DEF Charges, ChargeOf
<1>7. ASSUME NEW s \in Students
      PROVE  Charges'[s] = IF s \notin made THEN Charges[s] ELSE Append(Charges[s], first(s))
  <2>1. Charges'[s] = [k \in DOMAIN bills'[s] |-> ChargeOf(bills'[s][k])]
    BY <1>6
  <2>2. Charges[s] = [k \in DOMAIN bills[s] |-> ChargeOf(bills[s][k])]
    BY DEF Charges
  <2>3. CASE s \notin made
    BY <1>3, <2>1, <2>2, <2>3
  <2>4. CASE s \in made
    <3>1. PICK q \in Seq(BillRow) : q = bills[s]
      BY <1>1
    <3>2. PICK x \in BillRow : x = bills'[s][NextNumber(s)]
      <4>1. bills'[s] \in Seq(BillRow) /\ Len(bills'[s]) = NextNumber(s)
           /\ NextNumber(s) \in 1 .. NextNumber(s)
        BY <1>1, <1>3, <2>4 DEF NextNumber
      <4> QED BY <4>1
    <3>3. /\ bills'[s] = Append(q, x) /\ DOMAIN q = 1 .. Len(q) /\ Len(q) \in Nat
          /\ DOMAIN Append(q, x) = 1 .. Len(q) + 1
          /\ \A k \in 1 .. Len(q) : Append(q, x)[k] = q[k]
          /\ Append(q, x)[Len(q) + 1] = x
      BY <1>3, <2>4, <3>1, <3>2
    <3>4. PICK r : r = Charges[s]
      OBVIOUS
    <3>5. r = [k \in 1 .. Len(q) |-> ChargeOf(q[k])]
      BY <2>2, <3>1, <3>3, <3>4
    <3>6. PICK T : T = {ChargeOf(b) : b \in BillRow}
      OBVIOUS
    <3>7. r \in Seq(T) /\ Len(r) = Len(q) /\ first(s) \in T
      <4>1. first(s) = ChargeOf(x)
        BY <1>5, <2>4, <3>2
      <4>2. \A k \in 1 .. Len(q) : ChargeOf(q[k]) \in T
        BY <3>6
      <4>3. r \in [1 .. Len(q) -> T]
        BY <3>5, <4>2
      <4>4. Len(r) = Len(q)
        BY <3>3, <4>3
      <4>5. r \in Seq(T)
        BY <3>3, <4>3
      <4>6. ChargeOf(x) \in T
        BY <3>6
      <4> QED BY <4>1, <4>4, <4>5, <4>6
    <3>8. PICK f : f = first(s)
      OBVIOUS
    <3>9. /\ DOMAIN Append(r, f) = 1 .. Len(q) + 1
          /\ \A k \in 1 .. Len(q) : Append(r, f)[k] = r[k]
          /\ Append(r, f)[Len(q) + 1] = f
      BY <3>3, <3>7, <3>8
    <3>10. PICK n \in Nat : n = Len(q)
      BY <3>3
    <3>11. Charges'[s] = [k \in 1 .. n + 1 |-> ChargeOf(Append(q, x)[k])]
      BY <2>1, <3>3, <3>10
    <3>12. \A k \in 1 .. n + 1 : ChargeOf(Append(q, x)[k]) = Append(r, f)[k]
      <4> SUFFICES ASSUME NEW k \in 1 .. n + 1 PROVE ChargeOf(Append(q, x)[k]) = Append(r, f)[k]
        OBVIOUS
      <4>1. CASE k = n + 1
        BY <1>5, <2>4, <3>2, <3>3, <3>8, <3>9, <3>10, <4>1
      <4>2. CASE k # n + 1
        <5>1. k \in 1 .. Len(q)
          BY <3>10, <4>2
        <5> QED BY <3>3, <3>5, <3>9, <5>1
      <4> QED BY <4>1, <4>2
    <3>13. Append(r, f) = [k \in 1 .. n + 1 |-> Append(r, f)[k]]
      <4>1. Append(r, f) \in Seq(T)
        BY <3>7, <3>8
      <4>2. PICK z \in Seq(T) : z = Append(r, f)
        BY <4>1
      <4>3. z \in [1 .. Len(z) -> T] /\ DOMAIN z = 1 .. Len(z)
        OBVIOUS
      <4>4. z = [k \in 1 .. Len(z) |-> z[k]]
        BY <4>3, Zenon
      <4>5. 1 .. Len(z) = 1 .. n + 1
        BY <3>9, <3>10, <4>2, <4>3, Zenon
      <4> QED BY <4>2, <4>4, <4>5, Zenon
    <3>14. Charges'[s] = Append(r, f)
      BY <3>11, <3>12, <3>13
    <3> QED BY <2>4, <3>4, <3>8, <3>14
  <2> QED BY <2>3, <2>4
<1>8. Charges' = [s \in Students |-> IF s \notin made THEN Charges[s] ELSE Append(Charges[s], first(s))]
  BY <1>6, <1>7
<1>9. UNCHANGED <<day, Plans, payment>>
  BY PlansStay DEF IssueBatch, plans
<1>10. Book!Issue(made, due)
  BY <1>5, <1>8, <1>9 DEF Book!Issue, first
<1> QED BY <1>10 DEF Book!Next

---------------------------------------------------------------------------
LEMMA EmptyBook == Init => Book!Init
<1> SUFFICES ASSUME Init PROVE Book!Init
  OBVIOUS
<1>1. ASSUME NEW s \in Students PROVE PlanOf(s) = [gross |-> 0, concession |-> 0]
  <2>0. feeLines[s] = [b \in Clerks \cup {Admission} |-> 0]
    BY DEF Init
  <2>1. PICK lines \in [Clerks \cup {Admission} -> Nat] :
          lines = feeLines[s] /\ \A b \in DOMAIN lines : lines[b] = 0
    <3>1. PICK lines \in [Clerks \cup {Admission} -> Nat] :
            lines = [b \in Clerks \cup {Admission} |-> 0]
      OBVIOUS
    <3> QED BY <2>0, <3>1
  <2>2. PICK P : P = {<<b, lines[b]>> : b \in DOMAIN lines}
    OBVIOUS
  <2>3. IsFiniteSet(P) /\ (\A x \in P : x[2] \in Nat) /\ \A x \in P : x[2] = 0
    BY <2>1, <2>2, LinesAreFinite
  <2>4. TotalOfLines(feeLines[s]) = 0
    BY <2>1, <2>2, <2>3, SumIsNat DEF TotalOfLines
  <2> QED BY <2>4 DEF PlanOf, Init
<1>2. Plans = [s \in Students |-> [gross |-> 0, concession |-> 0]]
  BY <1>1 DEF Plans
<1>3. ASSUME NEW s \in Students PROVE [k \in DOMAIN bills[s] |-> ChargeOf(bills[s][k])] = <<>>
  <2>1. bills[s] = <<>>
    BY DEF Init
  <2> QED BY <2>1
<1>4. Charges = [s \in Students |-> <<>>]
  BY <1>3 DEF Charges
<1> QED BY <1>2, <1>4 DEF Book!Init, Init, Unrecorded

LEMMA StepIsBooked ==
  ASSUME Sound, Orderly, AllPromised, [Next]_vars
  PROVE  [Book!Next]_(Book!book)
<1>1. ASSUME UNCHANGED <<day, plans, ledger>> PROVE [Book!Next]_(Book!book)
  <2>1. UNCHANGED <<day, feeLines, concession, bills, payment>>
    BY <1>1 DEF plans, ledger
  <2> QED BY <2>1, BookStays DEF Book!book
<1>2. CASE Tick
  <2>1. day' = day + 1 /\ UNCHANGED <<feeLines, concession, bills, payment>>
    BY <1>2 DEF Tick, plans, ledger
  <2>2. Book!NewDay
    BY <2>1, BookStays DEF Book!NewDay
  <2> QED BY <2>2 DEF Book!Next
<1>3. CASE UpdateFeeRules \/ UNCHANGED vars
  BY <1>1, <1>3 DEF UpdateFeeRules, vars
<1>4. ASSUME NEW s \in Students, Admit(s) PROVE [Book!Next]_(Book!book)
  BY <1>4, AdmissionIsBooked
<1>5. ASSUME NEW c \in Clerks, Settling(c) \/ Paying(c) PROVE [Book!Next]_(Book!book)
  <2>1. CASE CommitPayment(c)
    BY <2>1, PaymentIsBooked
  <2>2. CASE ~CommitPayment(c)
    BY <1>1, <1>5, <2>2 DEF Settling, ReadRow, SumPayments, RejectedByIndex,
                            Paying, StartPayment, CheckVoid, TakePayment
  <2> QED BY <2>1, <2>2
<1>6. ASSUME NEW c \in Clerks, Cancelling(c) PROVE [Book!Next]_(Book!book)
  <2>1. CASE CommitCancel(c)
    BY <2>1, CancellingIsBooked
  <2>2. CASE CheckCancel(c)
    BY <1>1, <2>2 DEF CheckCancel
  <2> QED BY <1>6, <2>1, <2>2 DEF Cancelling
<1>7. ASSUME NEW c \in Clerks, Planning(c) PROVE [Book!Next]_(Book!book)
  <2>1. CASE CommitPlan(c) \/ NoLiveBill(c)
    BY <2>1, PlanIsBooked, NoLiveBillIsBooked
  <2>2. CASE StartPlan(c) \/ FindLiveBill(c) \/ LockBill(c)
    BY <1>1, <2>2 DEF StartPlan, FindLiveBill, LockBill
  <2> QED BY <1>7, <2>1, <2>2 DEF Planning
<1>8. ASSUME NEW c \in Clerks, Running(c) \/ Notify(c) \/ Stopped(c) PROVE [Book!Next]_(Book!book)
  <2>1. CASE IssueBatch(c)
    BY <2>1, BatchIsBooked
  <2>2. CASE ~IssueBatch(c)
    BY <1>1, <1>8, <2>2 DEF Running, StartRun, RunRejected, RunDone, Notify, Stopped
  <2> QED BY <2>1, <2>2
<1> QED BY <1>2, <1>3, <1>4, <1>5, <1>6, <1>7, <1>8 DEF Next

\* While requests come one at a time the service is the book of FeeBook: every
\* transaction of setStudentFeePlan, runVouchers, recordPayment, voidPayment and
\* cancelVoucher is one operation on it, and nothing else changes it.
THEOREM ImplementsBookHolds == Spec /\ []OneAtWork => ImplementsBook
<1>1. Sound /\ Orderly /\ AllPromised /\ [Next]_vars => [Book!Next]_(Book!book)
  BY StepIsBooked
<1> QED BY <1>1, EmptyBook, SoundHolds, OrderlyHolds, PromisedHolds, PTL
        DEF Spec, ImplementsBook, Book!Spec
=============================================================================
