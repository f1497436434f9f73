SPECIFICATION Spec
CONSTANTS
  Students = {s1, s2}
  Clerks = {c1}
  Payments = {p1, p2}
  Admission = Admission
  None = None
  Fees <- TwoFees
  Amounts = {1, 2}
  FineRules = {0, 1}
  DueDates <- FirstDay
  Batch = 1
  LastDay = 1
  MaxBills = 1
SYMMETRY Symmetry
INVARIANT EveryBillSettled
INVARIANT WithdrawnHoldsNoMoney
PROPERTY PayingWhatIsShownSettles
INVARIANT BillsFollowPlan
PROPERTY StaysAsWritten
PROPERTY ImplementsBook
