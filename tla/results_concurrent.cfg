SPECIFICATION ResultSpec
CONSTANTS
  c1 = c1
  c2 = c2
  s1 = s1
  s2 = s2
  Office = {}
  Papers = {p1}
  Sections = {c1, c2}
  NoSheet = NoSheet
  NoForm = NoForm
  Curriculum <- OneProgramme
  ExamForms <- NoExamForms
  PaperForms <- OneForm
  Deadlines <- NoDeadline
  OfficeOps <- NoOps
  Students = {s1, s2}
  Movers = {s2}
  Markers = {a1}
  Teachers = {}
  NoMark = NoMark
  NoSection = NoSection
  Placed <- OneGroup
  Enrolment <- OneEach
  MarkInputs <- FullMarks
  LastDay = 0
  MaxStamp = 3
  Serial = FALSE
  Registrars = {g1, g2}
  Bands <- PassOrNot
  Passing = 5000
  MaxVersion = 2
SYMMETRY RegistrarSymmetry
PROPERTY SupersededStands
PROPERTY OneHomePerMark
INVARIANT OneGenerationOut
CHECK_DEADLOCK FALSE
