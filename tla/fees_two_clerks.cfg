SPECIFICATION FairSpec
CONSTANTS
  Students = {s1}
  Clerks = {c1, c2}
  Payments = {p1}
  Admission = Admission
  None = None
  Fees <- OneFee
  Amounts = {1}
  FineRules = {0}
  DueDates <- NoDates
  Batch = 1
  LastDay = 0
  MaxBills = 2
INVARIANT OneLiveVoucher
INVARIANT CleanIsSettled
PROPERTY LedgerAppendOnly
PROPERTY RequestsEnd
