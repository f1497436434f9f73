SPECIFICATION ResultSpec
CONSTANTS
  c1 = c1
  c2 = c2
  s1 = s1
  s2 = s2
  Office = {}
  Papers = {p1}
  Sections = {c1}
  NoSheet = NoSheet
  NoForm = NoForm
  Curriculum <- OneProgramme
  ExamForms <- NoExamForms
  PaperForms <- OneForm
  Deadlines <- NoDeadline
  OfficeOps <- NoOps
  Students = {s1}
  Movers = {}
  Markers = {t1}
  Teachers = {t1}
  NoMark = NoMark
  NoSection = NoSection
  Placed <- OneGroup
  Enrolment <- Together
  MarkInputs <- HalfOrFull
  LastDay = 0
  MaxStamp = 3
  Serial = TRUE
  Registrars = {g1}
  Bands <- PassOrNot
  Passing = 5000
  MaxVersion = 1
PROPERTY TeachersLeavePublishedMarks
CHECK_DEADLOCK FALSE
