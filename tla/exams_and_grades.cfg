SPECIFICATION FollowedSpec
CONSTANTS
  Office = {u1, u2}
  Papers = {p1, p2, p3}
  Sections = {c1}
  NoSheet = NoSheet
  NoForm = NoForm
  Curriculum <- BothYears
  ExamForms <- SomeDates
  PaperForms <- EnglishAndMore
  Deadlines <- EarlyOrNone
  OfficeOps <- AllOps
  s1 = s1
  s2 = s2
  s3 = s3
  s4 = s4
  Students = {s1, s2, s3, s4}
  PaperOf <- TwoPapers
  Places <- InTwoProgrammes
  Bands <- FewBands
  Scope = "CLASS"
  MarkValues <- FewValues
SYMMETRY Alike
ACTION_CONSTRAINT OneAtATime
INVARIANT ExamTypeOK
INVARIANT NobodySitsTwice
INVARIANT DateSheetStands
INVARIANT WhoSitsIsTold
INVARIANT DecidedExactly
INVARIANT RankedHonestly
PROPERTY OutIsFrozen
PROPERTY MarksCountUpwards
CHECK_DEADLOCK FALSE
