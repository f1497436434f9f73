----------------------------- MODULE MarkSheets -----------------------------
(***************************************************************************)
(* The mark sheets of an exam whose date sheet is out: marks.service.ts.   *)
(* One sheet per paper and section, one mark per paper and student.        *)
(*                                                                         *)
(* A handler reads the sheet, the paper with its exam's status, the roster *)
(* and the marks, decides, and writes in one transaction which looks at    *)
(* none of them again. A member of Markers is one such request; the office *)
(* goes on with the exam (module Exams) and with its students meanwhile.   *)
(***************************************************************************)
EXTENDS Exams

CONSTANTS Students, Markers,
          Teachers,     \* the Markers that are a teacher's; the others are the office's
          NoMark,       \* no mark for a paper and student
          NoSection,    \* not enrolled
          Placed,       \* section -> [class, program] of its group
          Enrolment,    \* student -> section, when the date sheet goes out
          Movers,       \* bound: the students who may be moved or leave
          MarkInputs,   \* the rows a form sends: [status, obtained]
          LastDay,      \* bound: days that pass
          MaxStamp,     \* bound: updates of one sheet
          Serial        \* bound: TRUE: one request at a time

\* obtained_marks IS NULL, and no expectedUpdatedAt in the request.
Nothing == -1
NoStamp == -1

ASSUME TeachersAssumption == Teachers \subseteq Markers /\ Markers \cap Office = {}
ASSUME PlacesAssumption ==
  /\ Enrolment \in [Students -> Sections \cup {NoSection}]
  /\ Movers \subseteq Students /\ NoSection \notin Sections
\* The form, and the CHECK marks_status_matches_value of the table.
ASSUME MarkInputsAssumption ==
  \A m \in MarkInputs : \/ m.status = "PENDING" /\ m.obtained = Nothing
                        \/ m.status = "ENTERED" /\ m.obtained \in Nat
                        \/ m.status = "ABSENT" /\ m.obtained = 0
ASSUME MarkBoundsAssumption == LastDay \in Nat /\ MaxStamp \in Nat /\ Serial \in BOOLEAN

VARIABLES
  today,      \* the college's date
  enrolled,   \* the section of each student's active enrolment
  marks,      \* per paper and student: [section, status, obtained], or NoMark
  marker      \* the request each marker has in flight

markVars == <<today, enrolled, marks, marker>>
allMarkVars == <<examVars, markVars>>

Roster(c) == {s \in Students : enrolled[s] = c}
Sits(c, f) == f.class = Placed[c].class /\ f.program \in {NoProgram, Placed[c].program}
Role(r) == IF r \in Teachers THEN "STAFF" ELSE "ADMIN"
OnSheet(p, c) == {s \in Students : marks[p][s] # NoMark /\ marks[p][s].section = c}

Resting == [at |-> "idle", paper |-> NoForm, section |-> NoSection, roster |-> {},
            examStatus |-> "NONE", rows |-> <<>>, new |-> {}, expected |-> NoStamp, until |-> NoDate]

\* A mark row of `section`, as the tables hold it.
MarkRow(c, status, obtained) == [section |-> c, status |-> status, obtained |-> obtained]

\* The rows there can be: what a form sends, or a mark not entered yet.
MarkRows == {MarkRow(c, m.status, m.obtained) :
               c \in Sections, m \in MarkInputs \cup {[status |-> "PENDING", obtained |-> Nothing]}}

\* The rows of a mark sheet.
SheetRows == [status : {"DRAFT", "SUBMITTED"}, reopened : (0 .. LastDay) \cup {NoDate}, stamp : Nat]
ASSUME MarkNamesAssumption == NoMark \notin MarkRows /\ NoSheet \notin SheetRows

NewSheet == [status |-> "DRAFT", reopened |-> NoDate, stamp |-> 0]

\* windowFor: before the sheet exists there is no reopening to read.
Within(p, c) ==
  IsWithinMarksWindow(today, exam.deadline,
                      IF sheets[p][c] = NoSheet THEN NoDate ELSE sheets[p][c].reopened)

InFlight == {u \in Office : office[u] # Quiet} \cup {r \in Markers : marker[r] # Resting}

---------------------------------------------------------------------------
\* The date sheet is out and nobody has marked: a state of ExamSpec.
MarkInit ==
  /\ \E d \in Deadlines :
       exam = [status |-> "SCHEDULED", start |-> NoDate, end |-> NoDate, deadline |-> d]
  /\ papers \in UNION {[ids -> PaperForms] : ids \in SUBSET Papers}
  /\ FitToPublish(papers) /\ NobodySitsTwice
  /\ \A p \in DOMAIN papers : CheckPaperScope(Curriculum, papers[p])
  /\ sheets = [p \in Papers |-> [c \in Sections |-> NoSheet]]
  /\ office = [u \in Office |-> Quiet]
  /\ told = [NoWordYet EXCEPT !.heard = {papers[p].class : p \in DOMAIN papers}]
  /\ today = 0
  /\ enrolled = Enrolment
  /\ marks = [p \in Papers |-> [s \in Students |-> NoMark]]
  /\ marker = [r \in Markers |-> Resting]

Request(r, t) ==
  /\ marker[r].at = "idle"
  /\ marker' = [marker EXCEPT ![r] = t]
  /\ UNCHANGED <<examVars, today, enrolled, marks>>

Answer(r) == marker' = [marker EXCEPT ![r] = Resting]

On(at, p, c) == [Resting EXCEPT !.at = at, !.paper = p, !.section = c]

StartOpen(r, p, c) ==
  /\ p \in DOMAIN papers /\ Sits(c, papers[p])
  /\ CanEnterMarks(Role(r), exam.status, Within(p, c))
  /\ sheets[p][c] = NoSheet /\ Roster(c) # {}
  /\ Request(r, [On("open", p, c) EXCEPT !.roster = Roster(c), !.examStatus = exam.status])

\* The foreign key and the two unique indexes the transaction of
\* openMarkSheet meets: a sheet per paper and section, a mark per paper and student.
Openable(t) == /\ t.paper \in DOMAIN papers /\ sheets[t.paper][t.section] = NoSheet
               /\ \A s \in t.roster : marks[t.paper][s] = NoMark

\* The row each student of the roster gets when the sheet is opened.
Unmarked(c) == MarkRow(c, "PENDING", Nothing)

\* Faulty variant of ExamOnceOpened: the first sheet leaves the exam SCHEDULED.
ExamLeftAlone(t) == exam

\* The exam once the sheet is opened, by the status read before the transaction.
ExamOnceOpened(t) ==
  IF t.examStatus = "SCHEDULED" THEN [exam EXCEPT !.status = "MARKS_ENTRY"] ELSE exam

OpenSheet(r) ==
  LET t == marker[r]
  IN  /\ t.at = "open" /\ Openable(t)
      /\ sheets' = [sheets EXCEPT ![t.paper][t.section] = NewSheet]
      /\ marks' = [marks EXCEPT ![t.paper] =
                     [s \in Students |-> IF s \in t.roster THEN Unmarked(t.section) ELSE @[s]]]
      /\ exam' = ExamOnceOpened(t)
      /\ Answer(r) /\ UNCHANGED <<papers, office, told, today, enrolled>>

\* Faulty variant of RowsFit: the paper's maximum is not looked at.
RowsAnyMark(p, c, rows) == DOMAIN rows \subseteq Roster(c)

\* normaliseRows: students of the section, and no mark above the paper's.
RowsFit(p, c, rows) ==
  /\ DOMAIN rows \subseteq Roster(c)
  /\ \A s \in DOMAIN rows : rows[s].obtained <= papers[p].max

\* A save carries no stamp, or the one its page was loaded with: any but the
\* sheet's own is refused.
StartSave(r, p, c, rows, expected) ==
  /\ p \in DOMAIN papers /\ sheets[p][c] # NoSheet /\ sheets[p][c].stamp < MaxStamp
  /\ CanEditMarks(Role(r), exam.status, Within(p, c), sheets[p][c].status)
  /\ expected \in {NoStamp, sheets[p][c].stamp}
  /\ RowsFit(p, c, rows)
  /\ Request(r, [On("save", p, c) EXCEPT !.rows = rows, !.new = DOMAIN rows \ OnSheet(p, c),
                                         !.expected = expected])

\* Faulty variant of Savable: one mark per sheet and student, not per paper.
SavableOnAnySheet(t) == TRUE

\* The rows to create: a student who has a mark of this paper by now, here or
\* in another section, makes the whole save fail.
Savable(t) == \A s \in t.new : marks[t.paper][s] = NoMark

\* The sheet's row is written, and with it its updatedAt.
Touched(sheet) == [sheet EXCEPT !.stamp = @ + 1]

SaveMarks(r) ==
  LET t == marker[r]
  IN  /\ t.at = "save" /\ Savable(t)
      /\ marks' = [marks EXCEPT ![t.paper] =
                     [s \in Students |-> IF s \in DOMAIN t.rows
                                         THEN MarkRow(t.section, t.rows[s].status, t.rows[s].obtained)
                                         ELSE @[s]]]
      /\ sheets' = [sheets EXCEPT ![t.paper][t.section] = Touched(@)]
      /\ Answer(r) /\ UNCHANGED <<exam, papers, office, told, today, enrolled>>

\* Faulty variant of Unentered: only the rows the sheet has are looked at.
UnenteredRows(p, c) == {s \in Roster(c) \cap OnSheet(p, c) : marks[p][s].status = "PENDING"}

\* findUnenteredStudents over getMarkSheet: the roster as it is, a student
\* with no row on this sheet reading PENDING.
Unentered(p, c) ==
  {s \in Roster(c) : s \in OnSheet(p, c) => marks[p][s].status = "PENDING"}

StartSubmit(r, p, c) ==
  /\ p \in DOMAIN papers /\ sheets[p][c] # NoSheet /\ sheets[p][c].stamp < MaxStamp
  /\ CanSubmitMarks(Role(r), exam.status, Within(p, c), sheets[p][c].status)
  /\ Unentered(p, c) = {}
  /\ Request(r, On("submit", p, c))

Submit(r) ==
  LET t == marker[r]
  IN  /\ t.at = "submit"
      /\ sheets' = [sheets EXCEPT ![t.paper][t.section] = [Touched(@) EXCEPT !.status = "SUBMITTED"]]
      /\ Answer(r) /\ UNCHANGED <<exam, papers, office, told, today, enrolled, marks>>

\* The office lets a teacher back in until a day still to come; the sheet's
\* status stays as it is.
StartReopen(r, p, c, until) ==
  /\ Role(r) = "ADMIN"
  /\ p \in DOMAIN papers /\ sheets[p][c] # NoSheet /\ sheets[p][c].stamp < MaxStamp
  /\ sheets[p][c].status # "PUBLISHED" /\ until >= today
  /\ Request(r, [On("reopen", p, c) EXCEPT !.until = until])

Reopen(r) ==
  LET t == marker[r]
  IN  /\ t.at = "reopen"
      /\ sheets' = [sheets EXCEPT ![t.paper][t.section] = [Touched(@) EXCEPT !.reopened = t.until]]
      /\ Answer(r) /\ UNCHANGED <<exam, papers, office, told, today, enrolled, marks>>

\* An index or a foreign key refuses the transaction: nothing is written.
MarkRefused(r) ==
  /\ \/ marker[r].at = "open" /\ ~Openable(marker[r])
     \/ marker[r].at = "save" /\ ~Savable(marker[r])
  /\ Answer(r) /\ UNCHANGED <<examVars, today, enrolled, marks>>

---------------------------------------------------------------------------
Tick == /\ today < LastDay /\ today' = today + 1
        /\ UNCHANGED <<examVars, enrolled, marks, marker>>

\* transferStudent, or a student who leaves: the marks stay where they are.
Move(s, c) ==
  /\ s \in Movers /\ c # enrolled[s]
  /\ enrolled' = [enrolled EXCEPT ![s] = c]
  /\ UNCHANGED <<examVars, today, marks, marker>>

\* The rows a form may hold: marks for some students.
Forms == UNION {[S -> MarkInputs] : S \in SUBSET Students \ {{}}}

MarkerStep(r) ==
  \/ \E p \in Papers, c \in Sections :
       \/ StartOpen(r, p, c) \/ StartSubmit(r, p, c)
       \/ \E rows \in Forms, expected \in NoStamp .. MaxStamp : StartSave(r, p, c, rows, expected)
       \/ \E until \in 0 .. LastDay : StartReopen(r, p, c, until)
  \/ OpenSheet(r) \/ SaveMarks(r) \/ Submit(r) \/ Reopen(r) \/ MarkRefused(r)

MarkNext ==
  /\ \/ \E u \in Office : OfficeStep(u) /\ UNCHANGED markVars
     \/ \E r \in Markers : MarkerStep(r)
     \/ Tick
     \/ \E s \in Students, c \in Sections \cup {NoSection} : Move(s, c)
  /\ Serial => (\A a, b \in InFlight' : a = b) /\ (InFlight # {} => enrolled' = enrolled)

MarkSpec == MarkInit /\ [][MarkNext]_allMarkVars

---------------------------------------------------------------------------
\* Properties.

\* Every variable has a value the tables can hold: a mark agrees with its
\* status, as the CHECK marks_status_matches_value asks.
MarkTypeOK ==
  /\ ExamTypeOK
  /\ \A p \in Papers, c \in Sections : sheets[p][c] = NoSheet \/ sheets[p][c] \in SheetRows
  /\ today \in 0 .. LastDay /\ enrolled \in [Students -> Sections \cup {NoSection}]
  /\ \A p \in Papers, s \in Students :
       marks[p][s] # NoMark =>
         marks[p][s] \in MarkRows /\ sheets[p][marks[p][s].section] # NoSheet
  /\ \A r \in Markers : marker[r].at \in {"idle", "open", "save", "submit", "reopen"}

\* marks.service.ts:581: "from then on the office can no longer withdraw the
\* date sheet": an exam with a mark sheet is in marks entry, or finished.
SheetMeansMarking ==
  (\E p \in DOMAIN papers : HasSheet(p)) => exam.status \in {"MARKS_ENTRY", "COMPLETED"}

\* No mark is above what its paper carries, though the office may withdraw the
\* date sheet, lower a paper's maximum and publish it again.
MarksFitPaper ==
  \A p \in DOMAIN papers, s \in Students :
    marks[p][s] # NoMark => marks[p][s].obtained <= papers[p].max

\* A stored mark is one its paper and its status allow, on a sheet that exists.
MarksFitSheet == MarkTypeOK /\ MarksFitPaper

\* marks.service.ts:1075: "Every student currently enrolled must be ENTERED or
\* ABSENT first", whoever joined or left the section since it was opened.
SubmittedIsWhole ==
  [][\A p \in Papers, c \in Sections :
       sheets[p][c] # NoSheet /\ sheets[p][c].status = "DRAFT" /\ sheets'[p][c].status = "SUBMITTED"
         => \A s \in Roster(c) : s \in OnSheet(p, c) /\ marks[p][s].status # "PENDING"]_allMarkVars

\* students.service.ts:865: "any attendance or marks already recorded remain
\* attached to the section where they happened", whoever saves what.
OneHomePerMark ==
  [][\A p \in Papers, s \in Students :
       marks[p][s] # NoMark => /\ marks'[p][s] # NoMark
                               /\ marks'[p][s].section = marks[p][s].section]_allMarkVars

\* marks.service.ts:184: a student "who transfers in appears with no mark yet":
\* a section's sheet can be opened whoever has joined it.
OpensForEveryRoster ==
  \A r \in Markers :
    LET t == marker[r]
    IN  t.at = "open" /\ t.paper \in DOMAIN papers /\ sheets[t.paper][t.section] = NoSheet
          => Openable(t)
=============================================================================
