SPECIFICATION MarksOrAccessSpec
CONSTANTS
  c1 = c1
  c2 = c2
  s1 = s1
  s2 = s2
  Office = {u1}
  Papers = {p1}
  Sections = {c1, c2}
  NoSheet = NoSheet
  NoForm = NoForm
  Curriculum <- OneProgramme
  ExamForms <- NoExamForms
  PaperForms <- TwoMaxima
  Deadlines <- FirstDayOrNone
  OfficeOps <- Withdrawals
  Students = {s1, s2}
  Markers = {t1, a1}
  Teachers = {t1}
  NoMark = NoMark
  NoSection = NoSection
  Placed <- BothMedical
  Enrolment <- OneEach
  Movers = {s1}
  MarkInputs <- BlankOrFull
  LastDay = 1
  MaxStamp = 3
  Serial = TRUE
  Devices = {d1}
  Requests = {r1, r2}
  LockThreshold = 2
  TryLimit = 3
  LockTime = 2
  WindowTime = 1
  SessionTime = 3
INVARIANT SheetMeansMarking
INVARIANT MarksFitSheet
INVARIANT AccessIsCurrent
PROPERTY SubmittedIsWhole
PROPERTY LockRunsOut
CHECK_DEADLOCK FALSE
