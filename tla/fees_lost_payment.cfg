SPECIFICATION Spec
CONSTANTS
  Students = {s1}
  Clerks = {c1, c2}
  Payments = {p1, p2}
  Admission = Admission
  None = None
  Fees <- OneFee
  Amounts = {1, 2}
  FineRules = {0}
  DueDates <- NoDates
  Batch = 1
  LastDay = 0
  MaxBills = 1
SYMMETRY Symmetry
INVARIANT EveryBillSettled
