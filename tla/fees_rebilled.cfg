SPECIFICATION Spec
CONSTANTS
  Students = {s1}
  Clerks = {c1}
  Payments = {p1}
  Admission = Admission
  None = None
  Fees <- TwoFees
  Amounts = {1}
  FineRules = {0}
  DueDates <- NoDates
  Batch = 1
  LastDay = 0
  MaxBills = 1
PROPERTY AmountsFrozenAtIssue
