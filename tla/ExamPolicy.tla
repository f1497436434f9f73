----------------------------- MODULE ExamPolicy -----------------------------
(***************************************************************************)
(* The pure rules of src/src/server/exams/exam-policy.ts and               *)
(* marks-access.ts: what a paper may be made of, what counts as a clash,   *)
(* when a date sheet may go out, and who may mark.                         *)
(*                                                                         *)
(* A paper is a record [class, program, subject, date, start, end, max];   *)
(* dates and clock times are numbers, in their order.                      *)
(***************************************************************************)
EXTENDS Integers

\* NULL in the columns: every programme of the class, no date, no time.
NoProgram == "all programmes"
NoDate == -1
NoTime == -1

\* A null programme is every programme, so it overlaps with anything.
ScopesOverlap(a, b) == NoProgram \in {a, b} \/ a = b

\* A paper with no start clashes with nothing; one with no end is an instant.
TimesOverlap(a, b) ==
  LET EndOf(p) == IF p.end = NoTime THEN p.start ELSE p.end
  IN  /\ NoTime \notin {a.start, b.start}
      /\ \/ a.start = b.start
         \/ a.start < EndOf(b) /\ b.start < EndOf(a)

\* The two papers could be sat by one student.
SameStudents(a, b) == a.class = b.class /\ ScopesOverlap(a.program, b.program)

ClashInTime(a, b) == /\ SameStudents(a, b)
                     /\ a.date # NoDate /\ a.date = b.date
                     /\ TimesOverlap(a, b)

SubjectTwice(a, b) == SameStudents(a, b) /\ a.subject = b.subject

\* `curriculum` gives each class the subjects of each programme it runs this
\* session: a paper for the whole class needs its subject in all of them.
CheckPaperScope(curriculum, f) ==
  LET runs == DOMAIN curriculum[f.class]
      covers == IF f.program = NoProgram THEN runs ELSE {f.program}
  IN  /\ runs # {}
      /\ covers \subseteq runs
      /\ \A g \in covers : f.subject \in curriculum[f.class][g]

\* Faulty variant of PaperConflict: only an equal programme is compared.
ConflictInOneProgram(siblings, f) ==
  \E o \in siblings : o.program = f.program /\ (SubjectTwice(o, f) \/ ClashInTime(f, o))

\* findPaperConflict: the paper could not be sat beside one of its siblings.
PaperConflict(siblings, f) == \E o \in siblings : SubjectTwice(o, f) \/ ClashInTime(f, o)

IsDateWithinExam(exam, f) ==
  \/ f.date = NoDate
  \/ /\ exam.start # NoDate => f.date >= exam.start
     /\ exam.end # NoDate => f.date <= exam.end

\* findDateSheetProblems finds none in `papers`, a function from their ids.
FitToPublish(papers) ==
  /\ DOMAIN papers # {}
  /\ \A p \in DOMAIN papers :
       /\ papers[p].date # NoDate
       /\ NoTime \notin {papers[p].start, papers[p].end} => papers[p].start < papers[p].end
  /\ \A p, q \in DOMAIN papers : p # q => ~ClashInTime(papers[p], papers[q])

---------------------------------------------------------------------------
\* DATE_SHEET_PUBLISHED_STATUSES, and the statuses in which marks may be entered.
DateSheetPublished(status) == status \in {"SCHEDULED", "MARKS_ENTRY", "COMPLETED"}
IsMarkingOpen(status) == status \in {"SCHEDULED", "MARKS_ENTRY"}

IsWithinMarksWindow(today, deadline, reopenedUntil) ==
  \/ deadline = NoDate
  \/ today <= deadline
  \/ reopenedUntil # NoDate /\ today <= reopenedUntil

\* The permissions each role holds that marks-access.ts asks for, as
\* permissions.ts hands them out by default.
MarksPermissions(role) ==
  IF role \in {"ADMIN", "STAFF"} THEN {"marks.enter", "marks.update", "marks.update_submitted"}
                                 ELSE {}

\* role is the person's; within is the answer of IsWithinMarksWindow, which
\* binds teachers only. A teacher here is one assigned to the subject.
CanEnterMarks(role, examStatus, within) ==
  /\ "marks.enter" \in MarksPermissions(role)
  /\ IsMarkingOpen(examStatus)
  /\ role = "STAFF" => within

CanEditMarks(role, examStatus, within, sheetStatus) ==
  /\ "marks.update" \in MarksPermissions(role)
  /\ IsMarkingOpen(examStatus)
  /\ role = "STAFF" => within
  /\ sheetStatus # "DRAFT" => "marks.update_submitted" \in MarksPermissions(role)
  /\ sheetStatus = "PUBLISHED" => role = "ADMIN"

CanSubmitMarks(role, examStatus, within, sheetStatus) ==
  sheetStatus = "DRAFT" /\ CanEditMarks(role, examStatus, within, sheetStatus)
=============================================================================
