------------------------------- MODULE Exams -------------------------------
(***************************************************************************)
(* One exam, its papers and its date sheet: exams.service.ts.              *)
(*                                                                         *)
(* No handler here opens a transaction before it writes, but deleteExam:   *)
(* each reads the exam (and, for a paper, its siblings), decides, and      *)
(* writes what it was asked to by id, whatever the rows have become. So a  *)
(* request is a start, a second check if the handler has one, and a write, *)
(* with other requests in between. What the write still meets are the      *)
(* unique index and the foreign keys of the tables.                        *)
(*                                                                         *)
(* A member of Office is one request in flight. The exam stays in one      *)
(* academic session, whose curriculum does not change meanwhile.           *)
(***************************************************************************)
EXTENDS ExamPolicy

CONSTANTS Office, Papers, Sections,
          NoSheet,      \* no mark sheet for a paper and section
          NoForm,       \* no form in flight
          Curriculum,   \* class -> programme -> subjects, of the session
          ExamForms,    \* the exam's dates an office sends: [start, end]
          PaperForms,   \* the papers it sends
          Deadlines,    \* the marks deadlines it sends, NoDate among them
          OfficeOps     \* bound: the operations the office performs

ASSUME ExamFormsAssumption ==
  \A f \in ExamForms : /\ {f.start, f.end} \subseteq Nat \cup {NoDate}
                       /\ NoDate \notin {f.start, f.end} => f.start <= f.end
ASSUME PaperFormsAssumption ==
  \A f \in PaperForms :
    /\ f.date \in Nat \cup {NoDate} /\ {f.start, f.end} \subseteq Nat \cup {NoTime}
    /\ f.end # NoTime => f.start # NoTime /\ f.start < f.end
    /\ f.max \in Nat \ {0}
ASSUME DeadlinesAssumption == Deadlines \subseteq Nat \cup {NoDate}
ASSUME ExamNamesAssumption == NoForm \notin ExamForms /\ NoForm \notin PaperForms /\ NoForm \notin Deadlines

VARIABLES
  exam,     \* its row: [status, start, end, deadline]
  papers,   \* exam_papers: a function from the ids in use
  sheets,   \* exam_mark_sheets, per paper and section
  office,   \* the request in flight of each member of the office
  told      \* history: the classes [heard] and [missed] by the announcement of the sheet that is out

examVars == <<exam, papers, sheets, office, told>>

\* The statuses of the enum, and those of an id with no row (yet, any more).
ExamStatuses == {"DRAFT", "SCHEDULED", "MARKS_ENTRY", "COMPLETED", "CANCELLED"}
Exists == exam.status \in ExamStatuses

NoWordYet == [heard |-> {}, missed |-> {}]

HasSheet(p) == \E c \in Sections : sheets[p][c] # NoSheet

\* A request at statement `at` of operation op, on a paper, with its form.
OfficeTask(at, op, paper, form) ==
  [at |-> at, op |-> op, paper |-> paper, form |-> form, tell |-> {}]
Quiet == OfficeTask("idle", "none", NoForm, NoForm)

\* The id a request writes to; a new paper gets one no request refers to.
Unused == Papers \ (DOMAIN papers \cup {office[u].paper : u \in Office})

\* Faulty variant of IndexAllowsPaper: NULL programmes counted as distinct.
IndexNullsDistinct(p, f) ==
  \A q \in DOMAIN papers \ {p} :
    \/ NoProgram \in {f.program, papers[q].program}
    \/ <<papers[q].class, papers[q].subject, papers[q].program>> # <<f.class, f.subject, f.program>>

\* exam_papers_exam_id_class_id_subject_id_program_id_key, NULLS NOT DISTINCT.
IndexAllowsPaper(p, f) ==
  \A q \in DOMAIN papers \ {p} :
    <<papers[q].class, papers[q].subject, papers[q].program>> # <<f.class, f.subject, f.program>>

---------------------------------------------------------------------------
ExamInit ==
  /\ exam = [status |-> "NONE", start |-> NoDate, end |-> NoDate, deadline |-> NoDate]
  /\ papers = [p \in {} |-> NoForm]
  /\ sheets = [p \in Papers |-> [c \in Sections |-> NoSheet]]
  /\ office = [u \in Office |-> Quiet]
  /\ told = NoWordYet

CreateExam(f) ==
  /\ exam.status = "NONE"
  /\ exam' = [exam EXCEPT !.status = "DRAFT", !.start = f.start, !.end = f.end]
  /\ UNCHANGED <<papers, sheets, office, told>>

\* Request u passes its first checks and goes on to statement `at`.
Begin(u, t) ==
  /\ office[u].at = "idle"
  /\ t.op \in OfficeOps
  /\ office' = [office EXCEPT ![u] = t]
  /\ UNCHANGED <<exam, papers, sheets, told>>

Asked(op, form) == OfficeTask("write", op, NoForm, form)

\* Faulty variant of Editable: the schedule of any exam may be edited.
EditableAnyway == Exists

\* loadEditableExam.
Editable == exam.status = "DRAFT"

StartUpdate(u, f) == Editable /\ Begin(u, Asked("update", f))

StartDeadline(u, d) ==
  /\ Exists
  /\ NoDate \notin {d, exam.start} => d >= exam.start
  /\ Begin(u, Asked("deadline", d))

\* setExamStatus: asking for the status it has changes nothing.
StartCancel(u) == exam.status \in {"DRAFT", "SCHEDULED"} /\ Begin(u, Asked("cancel", NoForm))
StartRestore(u) == exam.status = "CANCELLED" /\ Begin(u, Asked("restore", NoForm))

\* A paper's form fits the session's curriculum and the exam's dates as read.
PaperFormFits(f) == CheckPaperScope(Curriculum, f) /\ IsDateWithinExam(exam, f)

StartPaper(u, f) ==
  /\ Editable /\ PaperFormFits(f)
  /\ \E p \in Unused : Begin(u, OfficeTask("check", "create", p, f))

StartEdit(u, p, f) ==
  /\ Editable /\ p \in DOMAIN papers /\ PaperFormFits(f)
  /\ Begin(u, OfficeTask("check", "edit", p, f))

\* assertNoPaperConflict: every sibling but the paper itself.
CheckConflict(u) ==
  LET t == office[u]
      siblings == {papers[q] : q \in DOMAIN papers \ {t.paper}}
  IN  /\ t.at = "check"
      /\ office' = [office EXCEPT ![u] = IF PaperConflict(siblings, t.form)
                                         THEN Quiet ELSE [t EXCEPT !.at = "write"]]
      /\ UNCHANGED <<exam, papers, sheets, told>>

StartRemove(u, p) ==
  /\ Editable /\ p \in DOMAIN papers /\ ~HasSheet(p)
  /\ Begin(u, OfficeTask("write", "remove", p, NoForm))

\* Faulty variant of StartPublish: only the papers of a whole year are announced.
StartPublishToWholeYears(u) ==
  /\ exam.status = "DRAFT" /\ FitToPublish(papers)
  /\ Begin(u, [Asked("publish", NoForm) EXCEPT
                 !.tell = {papers[p].class : p \in {q \in DOMAIN papers : papers[q].program = NoProgram}}])

\* Faulty variant of StartPublish: the date sheet goes out as it is.
StartPublishAnyway(u) ==
  /\ exam.status = "DRAFT" /\ DOMAIN papers # {}
  /\ Begin(u, [Asked("publish", NoForm) EXCEPT !.tell = {papers[p].class : p \in DOMAIN papers}])

StartPublish(u) ==
  /\ exam.status = "DRAFT" /\ FitToPublish(papers)
  /\ Begin(u, [Asked("publish", NoForm) EXCEPT !.tell = {papers[p].class : p \in DOMAIN papers}])

StartWithdraw(u) == exam.status = "SCHEDULED" /\ Begin(u, Asked("withdraw", NoForm))

\* A result of the exam needs a submitted sheet, so no sheet means no result.
StartDelete(u) ==
  /\ exam.status = "DRAFT" /\ \A p \in DOMAIN papers : ~HasSheet(p)
  /\ Begin(u, Asked("delete", NoForm))

---------------------------------------------------------------------------
\* Writes. A request at "write" updates by id, without looking at the row again.

Write(u, op) == office[u].at = "write" /\ office[u].op = op
Finish(u) == office' = [office EXCEPT ![u] = Quiet]

SaveDates(u) ==
  /\ Write(u, "update") /\ Exists
  /\ exam' = [exam EXCEPT !.start = office[u].form.start, !.end = office[u].form.end]
  /\ Finish(u) /\ UNCHANGED <<papers, sheets, told>>

SaveDeadline(u) ==
  /\ Write(u, "deadline") /\ Exists
  /\ exam' = [exam EXCEPT !.deadline = office[u].form]
  /\ Finish(u) /\ UNCHANGED <<papers, sheets, told>>

\* Faulty variant of StatusOf: publishing writes a status the enum has not.
StatusOfPublication(op) == IF op = "publish" THEN "PUBLISHED" ELSE "DRAFT"

\* What setExamStatus and setDateSheetPublished write.
StatusOf(op) == CASE op = "cancel" -> "CANCELLED"
                  [] op = "publish" -> "SCHEDULED"
                  [] OTHER -> "DRAFT"

SetStatus(u) ==
  LET t == office[u]
  IN  /\ t.at = "write" /\ t.op \in {"cancel", "restore", "publish", "withdraw"} /\ Exists
      /\ exam' = [exam EXCEPT !.status = StatusOf(t.op)]
      /\ office' = [office EXCEPT ![u] = IF t.op = "publish" THEN [t EXCEPT !.at = "tell"] ELSE Quiet]
      /\ told' = NoWordYet /\ UNCHANGED <<papers, sheets>>

\* studentUserIdsInClasses and notify, once the status is written.
TellClasses(u) ==
  /\ office[u].at = "tell"
  /\ told' = [heard |-> told.heard \cup office[u].tell, missed |-> told.missed]
  /\ Finish(u) /\ UNCHANGED <<exam, papers, sheets>>

\* notify swallows a failed insert, the look-up before it may fail, and the host may
\* have stopped: the status stands and nobody hears of it.
LoseAnnouncement(u) ==
  /\ office[u].at = "tell"
  /\ told' = [heard |-> told.heard, missed |-> told.missed \cup office[u].tell]
  /\ Finish(u) /\ UNCHANGED <<exam, papers, sheets>>

\* Faulty variant of WrittenTo: no foreign key ties a new paper to its exam.
WrittenToNoExam(t) == t.op = "create" \/ (t.op = "edit" /\ t.paper \in DOMAIN papers)

\* Is the row a paper's write needs there: the exam, or the paper itself?
WrittenTo(t) == (t.op = "create" /\ Exists) \/ (t.op = "edit" /\ t.paper \in DOMAIN papers)

SavePaper(u) ==
  LET t == office[u]
  IN  /\ t.at = "write" /\ WrittenTo(t) /\ IndexAllowsPaper(t.paper, t.form)
      /\ papers' = [p \in DOMAIN papers \cup {t.paper} |->
                      IF p = t.paper THEN t.form ELSE papers[p]]
      /\ Finish(u) /\ UNCHANGED <<exam, sheets, told>>

RemovePaper(u) ==
  LET t == office[u]
  IN  /\ Write(u, "remove") /\ t.paper \in DOMAIN papers /\ ~HasSheet(t.paper)
      /\ papers' = [p \in DOMAIN papers \ {t.paper} |-> papers[p]]
      /\ Finish(u) /\ UNCHANGED <<exam, sheets, told>>

\* The papers and the exam in one transaction; a sheet refuses both.
DeleteExam(u) ==
  /\ Write(u, "delete") /\ Exists /\ \A p \in DOMAIN papers : ~HasSheet(p)
  /\ papers' = [p \in {} |-> NoForm]
  /\ exam' = [exam EXCEPT !.status = "GONE"]
  /\ Finish(u) /\ UNCHANGED <<sheets, told>>

\* The row is gone, or an index or a foreign key refuses: the request fails.
Unwritable(t) ==
  CASE t.op \in {"create", "edit"} -> ~(WrittenTo(t) /\ IndexAllowsPaper(t.paper, t.form))
    [] t.op = "remove" -> t.paper \notin DOMAIN papers \/ HasSheet(t.paper)
    [] t.op = "delete" -> ~Exists \/ \E p \in DOMAIN papers : HasSheet(p)
    [] OTHER -> ~Exists

Refused(u) ==
  /\ office[u].at = "write" /\ Unwritable(office[u])
  /\ Finish(u) /\ UNCHANGED <<exam, papers, sheets, told>>

OfficeStep(u) ==
  \/ \E f \in ExamForms : StartUpdate(u, f)
  \/ \E d \in Deadlines : StartDeadline(u, d)
  \/ StartCancel(u) \/ StartRestore(u) \/ StartPublish(u) \/ StartWithdraw(u) \/ StartDelete(u)
  \/ \E f \in PaperForms : StartPaper(u, f)
  \/ \E p \in Papers, f \in PaperForms : StartEdit(u, p, f)
  \/ \E p \in Papers : StartRemove(u, p)
  \/ CheckConflict(u)
  \/ SaveDates(u) \/ SaveDeadline(u) \/ SetStatus(u) \/ TellClasses(u) \/ LoseAnnouncement(u)
  \/ SavePaper(u) \/ RemovePaper(u) \/ DeleteExam(u) \/ Refused(u)

ExamNext == (\E f \in ExamForms : CreateExam(f)) \/ (\E u \in Office : OfficeStep(u))

ExamSpec == ExamInit /\ [][ExamNext]_examVars

---------------------------------------------------------------------------
\* Properties.

\* Every variable has a value the tables can hold, and a request at a write
\* carries the form its handler was sent.
ExamTypeOK ==
  /\ exam \in [status : ExamStatuses \cup {"NONE", "GONE"}, start : Nat \cup {NoDate},
               end : Nat \cup {NoDate}, deadline : Nat \cup {NoDate}]
  /\ DOMAIN papers \subseteq Papers
  /\ \A p \in DOMAIN papers : papers[p] \in PaperForms
  /\ \A u \in Office :
       /\ office[u].at \in {"idle", "check", "write", "tell"}
       /\ office[u].op = "update" => office[u].form \in ExamForms
       /\ office[u].op = "deadline" => office[u].form \in Deadlines
       /\ office[u].op \in {"create", "edit"} => office[u].form \in PaperForms

\* However two saves of a paper interleave, one class, subject and programme
\* never has two papers (createExamPaper, updateExamPaper over the index).
NoTwinPaper ==
  \A p, q \in DOMAIN papers : p # q =>
    <<papers[p].class, papers[p].subject, papers[p].program>>
      # <<papers[q].class, papers[q].subject, papers[q].program>>

\* A paper never outlives its exam, nor is one saved into an exam another
\* request has deleted (deleteExam against createExamPaper).
NoOrphanPaper == DOMAIN papers # {} => Exists

\* One request at a time, except that papers may be removed by several: the handlers
\* do not ask for it, and what follows is promised to an office that keeps to it.
OneWriter ==
  \A u, w \in Office :
    u # w /\ "idle" \notin {office[u].at, office[w].at} => {office[u].op, office[w].op} = {"remove"}

\* No student is ever set two papers of one subject, or two at once
\* (assertNoPaperConflict, which looks at the other papers and then saves).
NobodySitsTwice ==
  \A p, q \in DOMAIN papers : p # q =>
    ~SubjectTwice(papers[p], papers[q]) /\ ~ClashInTime(papers[p], papers[q])

\* While the date sheet is out every paper on it has a day and none overlaps
\* another: what setDateSheetPublished found stays true.
DateSheetStands == DateSheetPublished(exam.status) => FitToPublish(papers)

\* What people have been shown does not move: while the sheet stays out, no
\* paper is added, changed or removed and the exam keeps its dates.
OutIsFrozen ==
  [][DateSheetPublished(exam.status) /\ DateSheetPublished(exam.status')
       => UNCHANGED <<papers, exam.start, exam.end>>]_examVars

\* Once its publication is finished, every class with a paper on the sheet that is
\* out has been told of it, unless its announcement was lost on the way: what was
\* announced is what is out, whatever came between the reading and the writing.
WhoSitsIsTold ==
  DateSheetPublished(exam.status) /\ (\A u \in Office : office[u].at # "tell")
    => {papers[p].class : p \in DOMAIN papers} \subseteq told.heard \cup told.missed
=============================================================================
