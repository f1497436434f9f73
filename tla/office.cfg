SPECIFICATION OfficeSpec
CONSTANTS
  u1 = u1
  u2 = u2
  u3 = u3
  c1 = c1
  c2 = c2
  c3 = c3
  t1 = t1
  t2 = t2
  subject1 = subject1
  lab = lab
  r1 = r1
  r2 = r2
  Applicants = {s1}
  Applications = {a1}
  Correspondents = {r1, r2}
  MaxOpen = 1
  MaxMessages = 3
  NoApplication = NoApplication
  Accounts = {u1, u2, u3}
  Roles = {"ADMIN", "STAFF"}
  Managers = {r1, r2}
  Roster = {p1, p2}
  Teachers = {t1}
  Markers = {m1}
  SheetDay = 1
  LastDay = 3
  CorrectionDays = 1
  Nobody = Nobody
  Periods = {l1, l2}
  Classes = {c1, c2, c3}
  Subjects = {subject1}
  Lecturers = {t1, t2}
  Rooms = {lab, NoRoom}
  Days = {mon, tue}
  Planners = {r1, r2}
  Vacancies = 1
  Wanted <- ThreeLessons
  NoRoom = NoRoom
  Files = {f1, f2, f3}
  Uploads = {r1, r2}
  NoPaper = NoPaper
  Googles = {g1, g2}
  Callers = {r1, r2}
  MaxFolders = 4
  NoGoogle = NoGoogle
  Students = {s1}
  Cohorts = {c1, c2, c3}
  SessionOf <- TwoThenOne
  Rolls = {NoRoll}
  Registrars = {r1, r2}
  MaxPlaces = 3
  NoRoll = NoRoll
  Pupils = {s1}
  Employees = {t1}
  Logins = {a1}
  Clerks = {r1, r2}
  NoLogin = NoLogin
  Staff = {t1, t2}
  Lessons = {l1}
  Charges = {c1}
  Hands = {r1, r2}
  MaxRows = 3
  Learners = {s1}
  Tutors = {t1}
  Classrooms = {c1, c2}
  YearOf <- OneClass
  Secretaries = {r1, r2}
  NoticeForms <- TwoNotices
  LastHour = 1
  MaxIssues = 1
  Colleagues = {t1, t2}
  Recorders = {r1, r2}
  RegisterForms <- ThreeForms
  MaxSaves = 2
  Years = {y1, y2}
  Combos = {k1}
  Names = {"A"}
  Topics = {topic1}
  Deans = {r1, r2}
  MaxPeriods = 2
  Office = {r1, r2}
  Papers = {p1, p2, p3}
  Sections = {c1}
  NoSheet = NoSheet
  NoForm = NoForm
  Curriculum <- BothYears
  ExamForms <- AnyDates
  PaperForms <- TwoForms
  Deadlines <- NoDeadline
  OfficeOps <- AllOps
SYMMETRY Alike
CONSTRAINT Undisturbed
ACTION_CONSTRAINT NothingNew
INVARIANT TimetableStands
INVARIANT FoldersHoldTogether
INVARIANT NoticeIsSound
INVARIANT DayIsTheSavesInOrder
INVARIANT NoTwinPaper
INVARIANT NoOrphanPaper
PROPERTY ApplicationsAreKept
PROPERTY NobodyIsLockedOut
PROPERTY RegisterIsKept
PROPERTY PapersAreKept
PROPERTY PlacesAreKept
PROPERTY NothingIsLost
PROPERTY PostsFollowEmployment
PROPERTY YearsHoldTogether
CHECK_DEADLOCK FALSE
