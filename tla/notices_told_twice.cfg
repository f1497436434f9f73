SPECIFICATION NoticeSpec
CONSTANTS
  c1 = c1
  c2 = c2
  Learners = {s1}
  Tutors = {t1}
  Classrooms = {c1, c2}
  YearOf <- OneClass
  Secretaries = {r1}
  NoticeForms <- TwoNotices
  LastHour = 1
  MaxIssues = 2
INVARIANT ToldOnce
CHECK_DEADLOCK FALSE
