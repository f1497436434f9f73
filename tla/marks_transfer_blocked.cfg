SPECIFICATION MarkSpec
CONSTANTS
  c1 = c1
  c2 = c2
  s1 = s1
  s2 = s2
  Office = {}
  Papers = {p1}
  Sections = {c1, c2}
  NoSheet = NoSheet
  NoForm = NoForm
  Curriculum <- OneProgramme
  ExamForms <- NoExamForms
  PaperForms <- OneForm
  Deadlines <- NoDeadline
  OfficeOps <- NoOps
  Students = {s1, s2}
  Markers = {t1}
  Teachers = {t1}
  NoMark = NoMark
  NoSection = NoSection
  Placed <- BothMedical
  Enrolment <- OneEach
  Movers = {s1}
  MarkInputs <- BlankOrFull
  LastDay = 0
  MaxStamp = 1
  Serial = TRUE
INVARIANT OpensForEveryRoster
CHECK_DEADLOCK FALSE
