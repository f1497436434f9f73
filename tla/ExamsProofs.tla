----------------------------- MODULE ExamsProofs -----------------------------
(***************************************************************************)
(* Theorems about Exams, for any office, papers, forms and dates: the      *)
(* types of its rows and requests, what the index and the foreign keys of  *)
(* exam_papers keep however requests overlap, and what the checks of the   *)
(* handlers keep as long as one request at a time is between its check and *)
(* its write. For the last, the inductive invariant ExamOrder says that    *)
(* what the request in flight has found is still so.                       *)
(***************************************************************************)
EXTENDS Exams, TLAPS

ExamRow == [status : ExamStatuses \cup {"NONE", "GONE"}, start : Nat \cup {NoDate},
            end : Nat \cup {NoDate}, deadline : Nat \cup {NoDate}]

Operations == {"none", "update", "deadline", "create", "edit", "remove", "publish",
               "withdraw", "cancel", "restore", "delete"}

OfficeRequest ==
  [at : {"idle", "check", "write", "tell"}, op : Operations, paper : Papers \cup {NoForm},
   form : ExamForms \cup PaperForms \cup Deadlines \cup {NoForm},
   tell : SUBSET {f.class : f \in PaperForms}]

\* The form a request carries is the one its handler takes.
CarriesItsForm(t) ==
  /\ t.op = "update" => t.form \in ExamForms
  /\ t.op = "deadline" => t.form \in Deadlines
  /\ t.op \in {"create", "edit"} => t.form \in PaperForms /\ t.paper \in Papers

ExamShape ==
  /\ exam \in ExamRow
  /\ DOMAIN papers \subseteq Papers
  /\ \A p \in DOMAIN papers : papers[p] \in PaperForms
  /\ office \in [Office -> OfficeRequest]
  /\ \A u \in Office : CarriesItsForm(office[u])

---------------------------------------------------------------------------
LEMMA ShapeAtFirst == ExamInit => ExamShape
BY SMT DEF ExamInit, ExamShape, ExamRow, ExamStatuses, OfficeRequest, Operations, Quiet, OfficeTask,
           CarriesItsForm, NoDate

\* A request that is replaced by a well-formed one leaves the office well-formed.
LEMMA OfficeKept ==
  ASSUME office \in [Office -> OfficeRequest],
         \A v \in Office : CarriesItsForm(office[v]),
         NEW u \in Office, NEW t \in OfficeRequest, CarriesItsForm(t),
         office' = [office EXCEPT ![u] = t]
  PROVE  /\ office' \in [Office -> OfficeRequest]
         /\ \A v \in Office : CarriesItsForm(office'[v])
<1>1. office' \in [Office -> OfficeRequest]
  BY SMT
<1>2. ASSUME NEW v \in Office PROVE CarriesItsForm(office'[v])
  <2>1. CASE v = u
    <3>1. office'[v] = t
      BY <2>1
    <3> QED BY <3>1
  <2>2. CASE v # u
    <3>1. office'[v] = office[v]
      BY <2>2
    <3> QED BY <3>1
  <2> QED BY <2>1, <2>2
<1> QED BY <1>1, <1>2

LEMMA QuietIsARequest == Quiet \in OfficeRequest /\ CarriesItsForm(Quiet)
BY SMT DEF Quiet, OfficeTask, OfficeRequest, Operations, CarriesItsForm

\* A request that ends, or goes from its write to its notification.
LEMMA OfficeEnds ==
  ASSUME ExamShape, NEW u \in Office, Finish(u)
  PROVE  /\ office' \in [Office -> OfficeRequest]
         /\ \A v \in Office : CarriesItsForm(office'[v])
BY OfficeKept, QuietIsARequest DEF ExamShape, Finish

\* A request that begins: only the office changes.
LEMMA OfficeBegins ==
  ASSUME ExamShape, NEW u \in Office, NEW t \in OfficeRequest, CarriesItsForm(t), Begin(u, t)
  PROVE  ExamShape'
<1>1. /\ office' \in [Office -> OfficeRequest]
      /\ \A v \in Office : CarriesItsForm(office'[v])
  BY OfficeKept DEF ExamShape, Begin
<1> QED BY <1>1, SMT DEF ExamShape, Begin, CarriesItsForm

LEMMA TaskIsARequest ==
  ASSUME NEW at \in {"idle", "check", "write", "tell"}, NEW op \in Operations,
         NEW p \in Papers \cup {NoForm},
         NEW f \in ExamForms \cup PaperForms \cup Deadlines \cup {NoForm}
  PROVE  OfficeTask(at, op, p, f) \in OfficeRequest
BY SMT DEF OfficeTask, OfficeRequest

\* The first checks of a handler keep the shape, whatever it goes on to do.
LEMMA BeginningsKeepShape ==
  ASSUME ExamShape, NEW u \in Office,
         \/ \E f \in ExamForms : StartUpdate(u, f)
         \/ \E d \in Deadlines : StartDeadline(u, d)
         \/ StartCancel(u) \/ StartRestore(u) \/ StartPublish(u) \/ StartWithdraw(u) \/ StartDelete(u)
         \/ \E f \in PaperForms : StartPaper(u, f)
         \/ \E p \in Papers, f \in PaperForms : StartEdit(u, p, f)
         \/ \E p \in Papers : StartRemove(u, p)
  PROVE  ExamShape'
<1>1. ASSUME NEW f \in ExamForms, StartUpdate(u, f) PROVE ExamShape'
  <2> DEFINE t == Asked("update", f)
  <2>1. t \in OfficeRequest /\ CarriesItsForm(t)
    BY TaskIsARequest DEF Asked, OfficeTask, Operations, CarriesItsForm
  <2>2. Begin(u, t)
    BY <1>1 DEF StartUpdate
  <2> QED BY <2>1, <2>2, OfficeBegins
<1>2. ASSUME NEW d \in Deadlines, StartDeadline(u, d) PROVE ExamShape'
  <2> DEFINE t == Asked("deadline", d)
  <2>1. t \in OfficeRequest /\ CarriesItsForm(t)
    BY TaskIsARequest DEF Asked, OfficeTask, Operations, CarriesItsForm
  <2>2. Begin(u, t)
    BY <1>2 DEF StartDeadline
  <2> QED BY <2>1, <2>2, OfficeBegins
<1>3. ASSUME NEW op \in {"cancel", "restore", "withdraw", "delete"}, Begin(u, Asked(op, NoForm))
      PROVE  ExamShape'
  <2> DEFINE t == Asked(op, NoForm)
  <2>1. t \in OfficeRequest /\ CarriesItsForm(t)
    BY TaskIsARequest DEF Asked, OfficeTask, Operations, CarriesItsForm
  <2> QED BY <1>3, <2>1, OfficeBegins
<1>4. ASSUME StartPublish(u) PROVE ExamShape'
  <2> DEFINE classes == {papers[p].class : p \in DOMAIN papers}
             t == [Asked("publish", NoForm) EXCEPT !.tell = classes]
  <2>1. classes \subseteq {f.class : f \in PaperForms}
    BY DEF ExamShape
  <2>2. Asked("publish", NoForm) \in OfficeRequest /\ Asked("publish", NoForm).op = "publish"
    BY TaskIsARequest DEF Asked, OfficeTask, Operations
  <2>3. t \in OfficeRequest /\ CarriesItsForm(t)
    <3>1. ASSUME NEW r \in OfficeRequest, r.op = "publish"
          PROVE  /\ [r EXCEPT !.tell = classes] \in OfficeRequest
                 /\ [r EXCEPT !.tell = classes].op = "publish"
      <4> HIDE DEF classes
      <4> QED BY <2>1, <3>1, SMT DEF OfficeRequest
    <3>2. t \in OfficeRequest /\ t.op = "publish"
      BY <2>2, <3>1
    <3> QED BY <3>2 DEF CarriesItsForm
  <2>4. Begin(u, t)
    BY <1>4 DEF StartPublish
  <2> QED BY <2>3, <2>4, OfficeBegins
<1>5. ASSUME NEW f \in PaperForms, NEW p \in Papers, NEW op \in {"create", "edit"},
             Begin(u, OfficeTask("check", op, p, f))
      PROVE  ExamShape'
  <2> DEFINE t == OfficeTask("check", op, p, f)
  <2>1. t \in OfficeRequest /\ CarriesItsForm(t)
    BY TaskIsARequest DEF OfficeTask, Operations, CarriesItsForm
  <2> QED BY <1>5, <2>1, OfficeBegins
<1>6. ASSUME NEW p \in Papers, StartRemove(u, p) PROVE ExamShape'
  <2> DEFINE t == OfficeTask("write", "remove", p, NoForm)
  <2>1. t \in OfficeRequest /\ CarriesItsForm(t)
    BY TaskIsARequest DEF OfficeTask, Operations, CarriesItsForm
  <2>2. Begin(u, t)
    BY <1>6 DEF StartRemove
  <2> QED BY <2>1, <2>2, OfficeBegins
<1>7. CASE \E f \in PaperForms : StartPaper(u, f)
  <2>1. PICK f \in PaperForms, p \in Papers :
          Begin(u, OfficeTask("check", "create", p, f))
    BY <1>7 DEF StartPaper, Unused
  <2> QED BY <2>1, <1>5
<1>8. CASE \E p \in Papers, f \in PaperForms : StartEdit(u, p, f)
  <2>1. PICK p \in Papers, f \in PaperForms :
          Begin(u, OfficeTask("check", "edit", p, f))
    BY <1>8 DEF StartEdit
  <2> QED BY <2>1, <1>5
<1>9. CASE StartCancel(u) \/ StartRestore(u) \/ StartWithdraw(u) \/ StartDelete(u)
  <2>1. PICK op \in {"cancel", "restore", "withdraw", "delete"} : Begin(u, Asked(op, NoForm))
    BY <1>9 DEF StartCancel, StartRestore, StartWithdraw, StartDelete
  <2> QED BY <2>1, <1>3
<1> QED BY <1>1, <1>2, <1>4, <1>6, <1>7, <1>8, <1>9

---------------------------------------------------------------------------
\* The writes, one by one.

LEMMA RequestShape ==
  ASSUME ExamShape, NEW u \in Office
  PROVE  office[u] \in OfficeRequest /\ CarriesItsForm(office[u])
BY DEF ExamShape

\* The row with other values in some columns.
LEMMA RowsWritten ==
  ASSUME NEW r \in ExamRow, NEW a \in Nat \cup {NoDate}, NEW b \in Nat \cup {NoDate},
         NEW st \in ExamStatuses \cup {"NONE", "GONE"}
  PROVE  /\ [r EXCEPT !.start = a, !.end = b] \in ExamRow
         /\ [r EXCEPT !.start = a, !.end = b].status = r.status
         /\ [r EXCEPT !.status = st, !.start = a, !.end = b] \in ExamRow
<1>1. [r EXCEPT !.start = a, !.end = b] \in ExamRow
  BY DEF ExamRow
<1>2. [r EXCEPT !.start = a, !.end = b].status = r.status
  BY DEF ExamRow
<1>3. [r EXCEPT !.status = st, !.start = a, !.end = b] \in ExamRow
  BY DEF ExamRow
<1> QED BY <1>1, <1>2, <1>3

LEMMA CreateKeepsShape ==
  ASSUME ExamShape, NEW f \in ExamForms, CreateExam(f)
  PROVE  ExamShape'
<1>1. f.start \in Nat \cup {NoDate} /\ f.end \in Nat \cup {NoDate}
  BY ExamFormsAssumption
<1>2. exam' \in ExamRow
  BY <1>1, RowsWritten DEF ExamShape, ExamStatuses, CreateExam
<1> QED BY <1>2 DEF ExamShape, CreateExam, CarriesItsForm

LEMMA CheckKeepsShape ==
  ASSUME ExamShape, NEW u \in Office, CheckConflict(u)
  PROVE  ExamShape'
<1>1. PICK t \in OfficeRequest : /\ office' = [office EXCEPT ![u] = t]
                                 /\ CarriesItsForm(t)
  <2>1. CASE office' = [office EXCEPT ![u] = Quiet]
    BY <2>1, QuietIsARequest
  <2>2. CASE office' = [office EXCEPT ![u] = [office[u] EXCEPT !.at = "write"]]
    <3>1. [office[u] EXCEPT !.at = "write"] \in OfficeRequest
      BY RequestShape, SMT DEF OfficeRequest
    <3>2. CarriesItsForm([office[u] EXCEPT !.at = "write"])
      BY RequestShape, SMT DEF OfficeRequest, CarriesItsForm
    <3> QED BY <2>2, <3>1, <3>2
  <2> QED BY <2>1, <2>2 DEF CheckConflict
<1>2. /\ office' \in [Office -> OfficeRequest]
      /\ \A v \in Office : CarriesItsForm(office'[v])
  BY <1>1, OfficeKept DEF ExamShape
<1> QED BY <1>2 DEF ExamShape, CheckConflict, CarriesItsForm

LEMMA SaveDatesKeepsShape ==
  ASSUME ExamShape, NEW u \in Office, SaveDates(u)
  PROVE  ExamShape'
<1>1. office[u].form \in ExamForms
  BY RequestShape DEF SaveDates, Write, CarriesItsForm
<1>2. office[u].form.start \in Nat \cup {NoDate} /\ office[u].form.end \in Nat \cup {NoDate}
  BY <1>1, ExamFormsAssumption
<1>3. exam' \in ExamRow
  BY <1>2, RowsWritten DEF ExamShape, SaveDates
<1> QED BY <1>3, OfficeEnds DEF ExamShape, SaveDates, CarriesItsForm

LEMMA SaveDeadlineKeepsShape ==
  ASSUME ExamShape, NEW u \in Office, SaveDeadline(u)
  PROVE  ExamShape'
<1>1. office[u].form \in Nat \cup {NoDate}
  BY RequestShape, DeadlinesAssumption DEF SaveDeadline, Write, CarriesItsForm
<1>2. exam' \in ExamRow
  BY <1>1, SMT DEF ExamShape, ExamRow, SaveDeadline
<1> QED BY <1>2, OfficeEnds DEF ExamShape, SaveDeadline, CarriesItsForm

LEMMA SetStatusKeepsShape ==
  ASSUME ExamShape, NEW u \in Office, SetStatus(u)
  PROVE  /\ ExamShape'
         /\ Exists'
<1>1. StatusOf(office[u].op) \in ExamStatuses
  BY DEF StatusOf, ExamStatuses
<1>2. exam' = [exam EXCEPT !.status = StatusOf(office[u].op)]
  BY DEF SetStatus
<1>3. exam' \in ExamRow /\ exam'.status \in ExamStatuses
  BY <1>1, <1>2, SMT DEF ExamShape, ExamRow
<1>4. PICK t \in OfficeRequest : /\ office' = [office EXCEPT ![u] = t]
                                 /\ CarriesItsForm(t)
  <2>1. [office[u] EXCEPT !.at = "tell"] \in OfficeRequest
    BY RequestShape, SMT DEF OfficeRequest
  <2>2. CarriesItsForm([office[u] EXCEPT !.at = "tell"])
    BY RequestShape, SMT DEF OfficeRequest, CarriesItsForm
  <2> QED BY <2>1, <2>2, QuietIsARequest DEF SetStatus
<1>5. /\ office' \in [Office -> OfficeRequest]
      /\ \A v \in Office : CarriesItsForm(office'[v])
  BY <1>4, OfficeKept DEF ExamShape
<1> QED BY <1>3, <1>5 DEF ExamShape, Exists, SetStatus, CarriesItsForm

LEMMA SavePaperKeepsShape ==
  ASSUME ExamShape, NEW u \in Office, SavePaper(u)
  PROVE  ExamShape'
<1> DEFINE t == office[u]
<1>1. t.paper \in Papers /\ t.form \in PaperForms
  BY RequestShape DEF SavePaper, WrittenTo, CarriesItsForm
<1>2. papers' = [p \in DOMAIN papers \cup {t.paper} |-> IF p = t.paper THEN t.form ELSE papers[p]]
  BY DEF SavePaper
<1>3. DOMAIN papers' \subseteq Papers /\ \A p \in DOMAIN papers' : papers'[p] \in PaperForms
  BY <1>1, <1>2 DEF ExamShape
<1> QED BY <1>3, OfficeEnds DEF ExamShape, SavePaper, CarriesItsForm

LEMMA RemovalsKeepShape ==
  ASSUME ExamShape, NEW u \in Office, RemovePaper(u) \/ DeleteExam(u)
  PROVE  ExamShape'
<1>1. DOMAIN papers' \subseteq DOMAIN papers /\ \A p \in DOMAIN papers' : papers'[p] = papers[p]
  BY DEF RemovePaper, DeleteExam
<1>2. exam' \in ExamRow
  BY SMT DEF ExamShape, ExamRow, RemovePaper, DeleteExam
<1>3. Finish(u)
  BY DEF RemovePaper, DeleteExam
<1> QED BY <1>1, <1>2, <1>3, OfficeEnds DEF ExamShape

LEMMA EndingsKeepShape ==
  ASSUME ExamShape, NEW u \in Office, TellClasses(u) \/ LoseAnnouncement(u) \/ Refused(u)
  PROVE  ExamShape'
<1>1. Finish(u) /\ UNCHANGED <<exam, papers>>
  BY DEF TellClasses, LoseAnnouncement, Refused
<1> QED BY <1>1, OfficeEnds DEF ExamShape

\* Every step of the office, the creation of the exam and a stutter.
LEMMA ShapeIsKept == ExamShape /\ [ExamNext]_examVars => ExamShape'
<1> SUFFICES ASSUME ExamShape, [ExamNext]_examVars PROVE ExamShape'
  OBVIOUS
<1>1. CASE \E f \in ExamForms : CreateExam(f)
  BY <1>1, CreateKeepsShape
<1>2. ASSUME NEW u \in Office, OfficeStep(u) PROVE ExamShape'
  BY <1>2, BeginningsKeepShape, CheckKeepsShape, SaveDatesKeepsShape, SaveDeadlineKeepsShape,
     SetStatusKeepsShape, SavePaperKeepsShape, RemovalsKeepShape, EndingsKeepShape DEF OfficeStep
<1>3. CASE UNCHANGED examVars
  BY <1>3 DEF ExamShape, examVars, CarriesItsForm
<1> QED BY <1>1, <1>2, <1>3 DEF ExamNext

LEMMA ShapeMeansTypes == ExamShape => ExamTypeOK
BY SMT DEF ExamShape, ExamTypeOK, ExamRow, OfficeRequest, CarriesItsForm

\* Every row is one the tables can hold and every request carries the form of
\* its handler, for any office, papers, forms and dates (exams.service.ts).
THEOREM ExamTypesHold == ExamSpec => []ExamTypeOK
<1> QED BY ShapeMeansTypes, ShapeAtFirst, ShapeIsKept, PTL DEF ExamSpec

---------------------------------------------------------------------------
\* What the index and the foreign keys keep.

\* The papers a step leaves as they are, or takes away.
FewerPapers == DOMAIN papers' \subseteq DOMAIN papers /\ \A p \in DOMAIN papers' : papers'[p] = papers[p]

LEMMA OnlySavingAdds ==
  ASSUME [ExamNext]_examVars, ~ \E u \in Office : SavePaper(u)
  PROVE  FewerPapers
<1>1. CASE \E u \in Office : RemovePaper(u) \/ DeleteExam(u)
  BY <1>1 DEF RemovePaper, DeleteExam, FewerPapers
<1>2. CASE UNCHANGED papers
  BY <1>2 DEF FewerPapers
<1> QED BY <1>1, <1>2 DEF ExamNext, OfficeStep, examVars, CreateExam, Begin,
        StartUpdate, StartDeadline, StartCancel, StartRestore, StartPublish, StartWithdraw,
        StartDelete, StartPaper, StartEdit, StartRemove, CheckConflict, SaveDates,
        SaveDeadline, SetStatus, TellClasses, LoseAnnouncement, Refused

\* However many saves of papers overlap, between their check and their write,
\* one class, subject and programme never has two papers (createExamPaper,
\* updateExamPaper over exam_papers' unique index).
THEOREM NoTwinPaperHolds == ExamSpec => []NoTwinPaper
<1>1. ExamInit => NoTwinPaper
  BY DEF ExamInit, NoTwinPaper
<1>2. NoTwinPaper /\ [ExamNext]_examVars => NoTwinPaper'
  <2> SUFFICES ASSUME NoTwinPaper, [ExamNext]_examVars,
                      NEW p \in DOMAIN papers', NEW q \in DOMAIN papers', p # q
               PROVE  <<papers'[p].class, papers'[p].subject, papers'[p].program>>
                        # <<papers'[q].class, papers'[q].subject, papers'[q].program>>
    BY DEF NoTwinPaper
  <2>1. CASE FewerPapers
    BY <2>1 DEF FewerPapers, NoTwinPaper
  <2>2. ASSUME NEW u \in Office, SavePaper(u)
        PROVE  <<papers'[p].class, papers'[p].subject, papers'[p].program>>
                 # <<papers'[q].class, papers'[q].subject, papers'[q].program>>
    <3> DEFINE t == office[u]
    <3>1. /\ papers' = [r \in DOMAIN papers \cup {t.paper} |->
                          IF r = t.paper THEN t.form ELSE papers[r]]
          /\ IndexAllowsPaper(t.paper, t.form)
      BY <2>2 DEF SavePaper
    <3>2. \A r \in DOMAIN papers \ {t.paper} :
            /\ papers'[r] = papers[r]
            /\ <<papers[r].class, papers[r].subject, papers[r].program>>
                 # <<t.form.class, t.form.subject, t.form.program>>
      BY <3>1 DEF IndexAllowsPaper
    <3>3. papers'[t.paper] = t.form
      BY <3>1
    <3>4. CASE p = t.paper
      <4>1. q \in DOMAIN papers \ {t.paper}
        BY <3>1, <3>4
      <4> QED BY <3>2, <3>3, <3>4, <4>1
    <3>5. CASE q = t.paper
      <4>1. p \in DOMAIN papers \ {t.paper}
        BY <3>1, <3>5
      <4> QED BY <3>2, <3>3, <3>5, <4>1
    <3>6. CASE t.paper \notin {p, q}
      <4>1. p \in DOMAIN papers \ {t.paper} /\ q \in DOMAIN papers \ {t.paper}
        BY <3>1, <3>6
      <4> QED BY <3>2, <4>1 DEF NoTwinPaper
    <3> QED BY <3>4, <3>5, <3>6
  <2> QED BY <2>1, <2>2, OnlySavingAdds
<1> QED BY <1>1, <1>2, PTL DEF ExamSpec

\* A step that leaves an exam's papers leaves the exam (deleteExam takes both
\* in one transaction; every other handler writes one of the enum's statuses).
LEMMA ExamStays ==
  ASSUME ExamShape, [ExamNext]_examVars, Exists
  PROVE  Exists' \/ DOMAIN papers' = {}
<1>1. CASE \E f \in ExamForms : CreateExam(f)
  BY <1>1 DEF CreateExam, Exists, ExamStatuses
<1>2. ASSUME NEW u \in Office, OfficeStep(u) PROVE Exists' \/ DOMAIN papers' = {}
  <2>1. CASE SaveDates(u) \/ SaveDeadline(u)
    <3>1. exam'.status = exam.status
      BY <2>1 DEF SaveDates, SaveDeadline, ExamShape, ExamRow
    <3> QED BY <3>1 DEF Exists
  <2>2. CASE SetStatus(u)
    BY <2>2, SetStatusKeepsShape
  <2>3. CASE DeleteExam(u)
    BY <2>3 DEF DeleteExam
  <2>4. CASE UNCHANGED exam
    BY <2>4 DEF Exists
  <2> QED BY <1>2, <2>1, <2>2, <2>3, <2>4 DEF OfficeStep, Begin,
        StartUpdate, StartDeadline, StartCancel, StartRestore, StartPublish, StartWithdraw,
        StartDelete, StartPaper, StartEdit, StartRemove, CheckConflict, TellClasses,
        LoseAnnouncement, SavePaper, RemovePaper, Refused
<1>3. CASE UNCHANGED examVars
  BY <1>3 DEF examVars, Exists
<1> QED BY <1>1, <1>2, <1>3 DEF ExamNext

\* A paper never outlives its exam, nor is one saved into an exam that another
\* request has deleted (deleteExam against createExamPaper, updateExamPaper).
THEOREM NoOrphanPaperHolds == ExamSpec => []NoOrphanPaper
<1>1. ExamInit => NoOrphanPaper
  BY DEF ExamInit, NoOrphanPaper
<1>2. ExamShape /\ NoOrphanPaper /\ [ExamNext]_examVars => NoOrphanPaper'
  <2> SUFFICES ASSUME ExamShape, NoOrphanPaper, [ExamNext]_examVars, DOMAIN papers' # {}
               PROVE  Exists'
    BY DEF NoOrphanPaper
  <2>1. Exists
    <3>1. CASE \E u \in Office : SavePaper(u)
      BY <3>1 DEF SavePaper, WrittenTo, NoOrphanPaper
    <3>2. CASE FewerPapers
      BY <3>2 DEF FewerPapers, NoOrphanPaper
    <3> QED BY <3>1, <3>2, OnlySavingAdds
  <2> QED BY <2>1, ExamStays
<1> QED BY <1>1, <1>2, ShapeAtFirst, ShapeIsKept, PTL DEF ExamSpec

---------------------------------------------------------------------------
\* What one writer at a time keeps.

Siblings(p) == {papers[q] : q \in DOMAIN papers \ {p}}
ClassesSitting == {papers[p].class : p \in DOMAIN papers}

\* What a request has found before it writes, is still so.
FoundStands(t) ==
  /\ t.at \in {"check", "write"} /\ t.op \in {"create", "edit", "remove", "update", "delete", "publish"}
       => exam.status = "DRAFT"
  /\ t.at = "write" /\ t.op \in {"create", "edit"} => ~PaperConflict(Siblings(t.paper), t.form)
  /\ t.at = "write" /\ t.op = "publish" => FitToPublish(papers) /\ t.tell = ClassesSitting
  /\ t.at = "check" => t.op \in {"create", "edit"}
  /\ t.at = "tell" => t.op = "publish" /\ t.tell = ClassesSitting

ToldOrAboutToBe ==
  DateSheetPublished(exam.status) =>
    ClassesSitting \subseteq told.heard \cup told.missed \/ \E u \in Office : office[u].at = "tell"

ExamOrder ==
  /\ \A u \in Office : FoundStands(office[u])
  /\ NobodySitsTwice /\ DateSheetStands /\ ToldOrAboutToBe

---------------------------------------------------------------------------
\* While one request is anywhere, the others are nowhere, or all remove papers.
LEMMA OthersAreIdle ==
  ASSUME OneWriter, NEW u \in Office, office[u].at # "idle", NEW w \in Office, w # u
  PROVE  office[w].at = "idle" \/ (office[w].op = "remove" /\ office[u].op = "remove")
BY DEF OneWriter

\* A request that ends leaves the others as right as they were.
LEMMA EndsInOrder ==
  ASSUME ExamShape, ExamOrder, OneWriter, NEW u \in Office, office[u].at # "idle", Finish(u),
         office[u].op = "remove" => exam' = exam
  PROVE  \A w \in Office : FoundStands(office[w])'
<1> SUFFICES ASSUME NEW w \in Office PROVE FoundStands(office[w])'
  OBVIOUS
<1>1. CASE w = u
  <2>1. office'[w] = Quiet /\ Quiet.at = "idle"
    BY <1>1 DEF Finish, ExamShape, Quiet, OfficeTask
  <2> QED BY <2>1 DEF FoundStands
<1>2. CASE w # u
  <2>1. PICK t : t = office[w] /\ t = office'[w]
    BY <1>2 DEF Finish, ExamShape
  <2>2. FoundStands(t) /\ FoundStands(office[u])
    BY <2>1 DEF ExamOrder
  <2>3. t.at = "idle" \/ (t.op = "remove" /\ office[u].op = "remove")
    BY <1>2, <2>1, OthersAreIdle
  <2>4. CASE t.at = "idle"
    BY <2>1, <2>4 DEF FoundStands
  <2>5. CASE t.op = "remove" /\ office[u].op = "remove" /\ t.at # "idle"
    <3>1. office[u].at \in {"check", "write"} /\ t.at # "tell" /\ t.at # "check"
      BY <2>2, <2>5, RequestShape DEF OfficeRequest, FoundStands
    <3>2. exam'.status = "DRAFT"
      BY <2>2, <2>5, <3>1 DEF FoundStands
    <3> QED BY <2>1, <2>5, <3>1, <3>2 DEF FoundStands
  <2> QED BY <2>3, <2>4, <2>5
<1> QED BY <1>1, <1>2

\* While a request writes, nobody is about to tell.
LEMMA WriterTellsNobody ==
  ASSUME ExamOrder, OneWriter, NEW u \in Office, office[u].at = "write", DateSheetPublished(exam.status)
  PROVE  ClassesSitting \subseteq told.heard \cup told.missed
<1>1. ASSUME NEW w \in Office, office[w].at = "tell" PROVE FALSE
  <2>1. w # u /\ office[w].op = "publish"
    BY <1>1 DEF ExamOrder, FoundStands
  <2> QED BY <1>1, <2>1, OthersAreIdle
<1> QED BY <1>1 DEF ExamOrder, ToldOrAboutToBe

\* Requests that look and decide: nothing changes but what is in flight.
LEMMA LookingInOrder ==
  ASSUME ExamShape, ExamOrder, NEW u \in Office, NEW t, FoundStands(t), t.at # "tell",
         office[u].at # "tell", office' = [office EXCEPT ![u] = t], UNCHANGED <<exam, papers, sheets, told>>
  PROVE  ExamOrder'
<1>1. \A w \in Office : FoundStands(office[w])'
  <2> SUFFICES ASSUME NEW w \in Office PROVE FoundStands(office[w])'
    OBVIOUS
  <2>1. PICK v : v = office'[w] /\ (v = t \/ v = office[w])
    BY DEF ExamShape
  <2>2. FoundStands(v)
    BY <2>1 DEF ExamOrder
  <2> QED BY <2>1, <2>2 DEF FoundStands, Siblings, ClassesSitting
<1>2. ToldOrAboutToBe'
  <2>1. ASSUME NEW w \in Office, office[w].at = "tell" PROVE office'[w].at = "tell"
    BY <2>1 DEF ExamShape
  <2> QED BY <2>1 DEF ExamOrder, ToldOrAboutToBe, ClassesSitting
<1> QED BY <1>1, <1>2 DEF ExamOrder, NobodySitsTwice, DateSheetStands

LEMMA BeginningsInOrder ==
  ASSUME ExamShape, ExamOrder, NEW u \in Office,
         \/ \E f \in ExamForms : StartUpdate(u, f)
         \/ \E d \in Deadlines : StartDeadline(u, d)
         \/ StartCancel(u) \/ StartRestore(u) \/ StartPublish(u) \/ StartWithdraw(u) \/ StartDelete(u)
         \/ \E f \in PaperForms : StartPaper(u, f)
         \/ \E p \in Papers, f \in PaperForms : StartEdit(u, p, f)
         \/ \E p \in Papers : StartRemove(u, p)
  PROVE  ExamOrder'
<1>1. ASSUME NEW t, Begin(u, t), FoundStands(t), t.at # "tell" PROVE ExamOrder'
  BY <1>1, LookingInOrder DEF Begin
<1>2. ASSUME NEW op, NEW p, NEW f, NEW at \in {"check", "write"}, Begin(u, OfficeTask(at, op, p, f)),
             op # "publish", at = "check" <=> op \in {"create", "edit"},
             op \in {"create", "edit", "remove", "update", "delete"} => Editable
      PROVE  ExamOrder'
  <2> DEFINE t == OfficeTask(at, op, p, f)
  <2>1. t.at = at /\ t.op = op
    BY DEF OfficeTask
  <2>2. FoundStands(t)
    <3> HIDE DEF t
    <3> QED BY <1>2, <2>1 DEF FoundStands, Editable
  <2> QED BY <1>1, <1>2, <2>1, <2>2
<1>3. CASE \E f \in ExamForms : StartUpdate(u, f)
  BY <1>2, <1>3 DEF StartUpdate, Asked
<1>4. CASE \E d \in Deadlines : StartDeadline(u, d)
  BY <1>2, <1>4 DEF StartDeadline, Asked
<1>5. CASE StartCancel(u) \/ StartRestore(u) \/ StartWithdraw(u)
  BY <1>2, <1>5 DEF StartCancel, StartRestore, StartWithdraw, Asked
<1>6. CASE StartDelete(u)
  BY <1>2, <1>6 DEF StartDelete, Asked, Editable
<1>7. CASE StartPublish(u)
  <2> DEFINE t == [Asked("publish", NoForm) EXCEPT !.tell = ClassesSitting]
  <2>1. t.at = "write" /\ t.op = "publish" /\ t.tell = ClassesSitting
    BY DEF Asked, OfficeTask
  <2>2. Begin(u, t) /\ exam.status = "DRAFT" /\ FitToPublish(papers)
    BY <1>7 DEF StartPublish, ClassesSitting
  <2>3. FoundStands(t)
    <3> HIDE DEF t
    <3> QED BY <2>1, <2>2 DEF FoundStands
  <2> QED BY <1>1, <2>1, <2>2, <2>3
<1>8. CASE \E f \in PaperForms : StartPaper(u, f)
  BY <1>2, <1>8 DEF StartPaper
<1>9. CASE \E p \in Papers, f \in PaperForms : StartEdit(u, p, f)
  BY <1>2, <1>9 DEF StartEdit
<1>10. CASE \E p \in Papers : StartRemove(u, p)
  BY <1>2, <1>10 DEF StartRemove
<1> QED BY <1>3, <1>4, <1>5, <1>6, <1>7, <1>8, <1>9, <1>10

LEMMA CheckingInOrder ==
  ASSUME ExamShape, ExamOrder, NEW u \in Office, CheckConflict(u)
  PROVE  ExamOrder'
<1> DEFINE o == office[u]
           w == [o EXCEPT !.at = "write"]
<1>1. o.at = "check" /\ UNCHANGED <<exam, papers, sheets, told>>
  BY DEF CheckConflict
<1>2. CASE office' = [office EXCEPT ![u] = Quiet]
  <2>1. Quiet.at = "idle"
    BY DEF Quiet, OfficeTask
  <2>2. FoundStands(Quiet)
    BY <2>1 DEF FoundStands
  <2> QED BY <1>1, <1>2, <2>1, <2>2, LookingInOrder
<1>3. CASE office' = [office EXCEPT ![u] = w] /\ ~PaperConflict(Siblings(o.paper), o.form)
  <2>1. w.at = "write" /\ w.op = o.op /\ w.paper = o.paper /\ w.form = o.form
    BY RequestShape DEF OfficeRequest
  <2>2. FoundStands(o)
    BY DEF ExamOrder
  <2>3. o.op \in {"create", "edit"}
    BY <1>1, <2>2 DEF FoundStands
  <2>4. FoundStands(w)
    <3> HIDE DEF o, w
    <3> QED BY <1>1, <1>3, <2>1, <2>2, <2>3 DEF FoundStands
  <2> QED BY <1>1, <1>3, <2>1, <2>4, LookingInOrder
<1> QED BY <1>2, <1>3 DEF CheckConflict, Siblings

---------------------------------------------------------------------------
\* Writes.

LEMMA DatesInOrder ==
  ASSUME ExamShape, ExamOrder, OneWriter, NEW u \in Office, SaveDates(u) \/ SaveDeadline(u)
  PROVE  ExamOrder'
<1>1. /\ office[u].at = "write" /\ office[u].op # "remove" /\ Finish(u)
      /\ UNCHANGED <<papers, told>> /\ exam'.status = exam.status
  BY DEF SaveDates, SaveDeadline, Write, ExamShape, ExamRow
<1>2. \A w \in Office : FoundStands(office[w])'
  BY <1>1, EndsInOrder
<1>3. ToldOrAboutToBe'
  BY <1>1, WriterTellsNobody DEF ToldOrAboutToBe, ClassesSitting
<1> QED BY <1>1, <1>2, <1>3 DEF ExamOrder, NobodySitsTwice, DateSheetStands

LEMMA StatusInOrder ==
  ASSUME ExamShape, ExamOrder, OneWriter, NEW u \in Office, SetStatus(u)
  PROVE  ExamOrder'
<1>1. /\ office[u].at = "write" /\ office[u].op \in {"cancel", "restore", "publish", "withdraw"}
      /\ UNCHANGED papers /\ exam'.status = StatusOf(office[u].op)
  BY DEF SetStatus, ExamShape, ExamRow
<1>2. CASE office[u].op # "publish"
  <2>1. Finish(u) /\ ~DateSheetPublished(exam'.status)
    BY <1>1, <1>2 DEF SetStatus, Finish, StatusOf, DateSheetPublished
  <2>2. \A w \in Office : FoundStands(office[w])'
    BY <1>1, <2>1, EndsInOrder
  <2> QED BY <1>1, <2>1, <2>2 DEF ExamOrder, NobodySitsTwice, DateSheetStands, ToldOrAboutToBe
<1>3. CASE office[u].op = "publish"
  <2>1. PICK t : t = [office[u] EXCEPT !.at = "tell"]
    OBVIOUS
  <2>2. t.at = "tell" /\ t.op = "publish" /\ t.tell = office[u].tell
    BY <2>1, <1>3, RequestShape DEF OfficeRequest
  <2>3. office' = [office EXCEPT ![u] = t] /\ office'[u] = t
    BY <1>3, <2>1 DEF SetStatus, ExamShape
  <2>4. FitToPublish(papers) /\ office[u].tell = ClassesSitting
    BY <1>1, <1>3 DEF ExamOrder, FoundStands
  <2>5. ASSUME NEW w \in Office PROVE FoundStands(office[w])'
    <3>1. CASE w = u
      BY <1>1, <2>2, <2>3, <2>4, <3>1 DEF FoundStands, ClassesSitting
    <3>2. CASE w # u
      <4>1. PICK v : v = office[w] /\ v = office'[w]
        BY <2>3, <3>2 DEF ExamShape
      <4>2. v.at = "idle"
        BY <1>1, <1>3, <3>2, <4>1, OthersAreIdle
      <4> QED BY <4>1, <4>2 DEF FoundStands
    <3> QED BY <3>1, <3>2
  <2>6. ToldOrAboutToBe'
    BY <2>2, <2>3 DEF ToldOrAboutToBe
  <2> QED BY <1>1, <2>4, <2>5, <2>6 DEF ExamOrder, NobodySitsTwice, DateSheetStands
<1> QED BY <1>2, <1>3

LEMMA TellingInOrder ==
  ASSUME ExamShape, ExamOrder, OneWriter, NEW u \in Office,
         TellClasses(u) \/ LoseAnnouncement(u)
  PROVE  ExamOrder'
<1>1. /\ office[u].at = "tell" /\ Finish(u) /\ UNCHANGED <<exam, papers>>
      /\ office[u].tell \subseteq told'.heard \cup told'.missed
  BY DEF TellClasses, LoseAnnouncement
<1>2. office[u].tell = ClassesSitting
  BY <1>1 DEF ExamOrder, FoundStands
<1>3. \A w \in Office : FoundStands(office[w])'
  BY <1>1, EndsInOrder
<1>4. ToldOrAboutToBe'
  BY <1>1, <1>2 DEF ToldOrAboutToBe, ClassesSitting
<1> QED BY <1>1, <1>3, <1>4 DEF ExamOrder, NobodySitsTwice, DateSheetStands

LEMMA RefusalInOrder ==
  ASSUME ExamShape, ExamOrder, OneWriter, NEW u \in Office, Refused(u)
  PROVE  ExamOrder'
<1>1. office[u].at = "write" /\ Finish(u) /\ UNCHANGED <<exam, papers, told>>
  BY DEF Refused
<1>2. \A w \in Office : FoundStands(office[w])'
  BY <1>1, EndsInOrder
<1>3. ToldOrAboutToBe'
  BY <1>1, WriterTellsNobody DEF ToldOrAboutToBe, ClassesSitting
<1> QED BY <1>1, <1>2, <1>3 DEF ExamOrder, NobodySitsTwice, DateSheetStands

\* The paper saved beside its siblings is the one that was checked against them.
LEMMA SavingInOrder ==
  ASSUME ExamShape, ExamOrder, OneWriter, NEW u \in Office, SavePaper(u)
  PROVE  ExamOrder'
<1> DEFINE t == office[u]
<1>1. /\ t.at = "write" /\ t.op \in {"create", "edit"} /\ Finish(u) /\ UNCHANGED <<exam, told>>
      /\ papers' = [p \in DOMAIN papers \cup {t.paper} |-> IF p = t.paper THEN t.form ELSE papers[p]]
  BY DEF SavePaper, WrittenTo
<1>2. exam.status = "DRAFT" /\ ~PaperConflict(Siblings(t.paper), t.form)
  BY <1>1 DEF ExamOrder, FoundStands
<1>3. \A w \in Office : FoundStands(office[w])'
  BY <1>1, EndsInOrder
<1>4. ~DateSheetPublished(exam'.status)
  BY <1>1, <1>2 DEF DateSheetPublished
<1>5. ASSUME NEW q \in DOMAIN papers, q # t.paper
      PROVE  ~SubjectTwice(papers[q], t.form) /\ ~ClashInTime(papers[q], t.form)
             /\ ~SubjectTwice(t.form, papers[q]) /\ ~ClashInTime(t.form, papers[q])
  <2>1. papers[q] \in Siblings(t.paper)
    BY <1>5 DEF Siblings
  <2>2. ~SubjectTwice(papers[q], t.form) /\ ~ClashInTime(t.form, papers[q])
    BY <1>2, <2>1 DEF PaperConflict
  <2>3. SameStudents(t.form, papers[q]) <=> SameStudents(papers[q], t.form)
    BY DEF SameStudents, ScopesOverlap
  <2>4. TimesOverlap(t.form, papers[q]) <=> TimesOverlap(papers[q], t.form)
    BY DEF TimesOverlap
  <2> QED BY <2>2, <2>3, <2>4 DEF SubjectTwice, ClashInTime
<1>6. NobodySitsTwice'
  <2> SUFFICES ASSUME NEW p \in DOMAIN papers', NEW q \in DOMAIN papers', p # q
               PROVE  ~SubjectTwice(papers'[p], papers'[q]) /\ ~ClashInTime(papers'[p], papers'[q])
    BY DEF NobodySitsTwice
  <2>1. CASE p = t.paper
    BY <1>1, <1>5, <2>1
  <2>2. CASE q = t.paper
    BY <1>1, <1>5, <2>2
  <2>3. CASE p # t.paper /\ q # t.paper
    BY <1>1, <2>3 DEF ExamOrder, NobodySitsTwice
  <2> QED BY <2>1, <2>2, <2>3
<1> QED BY <1>3, <1>4, <1>6 DEF ExamOrder, DateSheetStands, ToldOrAboutToBe

LEMMA RemovalsInOrder ==
  ASSUME ExamShape, ExamOrder, OneWriter, NEW u \in Office, RemovePaper(u) \/ DeleteExam(u)
  PROVE  ExamOrder'
<1>1. /\ office[u].at = "write" /\ office[u].op \in {"remove", "delete"} /\ Finish(u)
      /\ office[u].op = "remove" => exam' = exam
      /\ exam'.status \in {exam.status, "GONE"}
      /\ \A p \in DOMAIN papers' : p \in DOMAIN papers /\ papers'[p] = papers[p]
  BY DEF RemovePaper, DeleteExam, Write, ExamShape, ExamRow
<1>2. exam.status = "DRAFT"
  BY <1>1 DEF ExamOrder, FoundStands
<1>3. \A w \in Office : FoundStands(office[w])'
  BY <1>1, EndsInOrder
<1>4. ~DateSheetPublished(exam'.status)
  BY <1>1, <1>2 DEF DateSheetPublished
<1>5. NobodySitsTwice'
  BY <1>1 DEF ExamOrder, NobodySitsTwice
<1> QED BY <1>3, <1>4, <1>5 DEF ExamOrder, DateSheetStands, ToldOrAboutToBe

LEMMA CreationInOrder ==
  ASSUME ExamShape, ExamOrder, NEW f \in ExamForms, CreateExam(f)
  PROVE  ExamOrder'
<1>1. exam.status = "NONE" /\ exam'.status = "DRAFT" /\ UNCHANGED <<papers, office, told>>
  BY DEF CreateExam, ExamShape, ExamRow
<1>2. ~DateSheetPublished(exam'.status)
  BY <1>1 DEF DateSheetPublished
<1>3. ASSUME NEW w \in Office PROVE FoundStands(office[w])'
  <2>1. PICK t : t = office[w] /\ t = office'[w]
    BY <1>1
  <2>2. FoundStands(t)
    BY <2>1 DEF ExamOrder
  <2> QED BY <1>1, <2>1, <2>2 DEF FoundStands, Siblings, ClassesSitting
<1> QED BY <1>1, <1>2, <1>3 DEF ExamOrder, NobodySitsTwice, DateSheetStands, ToldOrAboutToBe

LEMMA OrderAtFirst == ExamInit => ExamOrder
<1> SUFFICES ASSUME ExamInit PROVE ExamOrder
  OBVIOUS
<1>1. \A w \in Office : office[w].at = "idle"
  BY DEF ExamInit, Quiet, OfficeTask
<1>2. ~DateSheetPublished(exam.status) /\ DOMAIN papers = {}
  BY DEF ExamInit, DateSheetPublished
<1> QED BY <1>1, <1>2 DEF ExamOrder, FoundStands, NobodySitsTwice, DateSheetStands, ToldOrAboutToBe

LEMMA OrderIsKept == ExamShape /\ ExamOrder /\ OneWriter /\ [ExamNext]_examVars => ExamOrder'
<1> SUFFICES ASSUME ExamShape, ExamOrder, OneWriter, [ExamNext]_examVars PROVE ExamOrder'
  OBVIOUS
<1>1. CASE \E f \in ExamForms : CreateExam(f)
  BY <1>1, CreationInOrder
<1>2. ASSUME NEW u \in Office, OfficeStep(u) PROVE ExamOrder'
  BY <1>2, BeginningsInOrder, CheckingInOrder, DatesInOrder, StatusInOrder, TellingInOrder,
     RefusalInOrder, SavingInOrder, RemovalsInOrder DEF OfficeStep
<1>3. CASE UNCHANGED examVars
  <2>1. UNCHANGED <<exam, papers, office, told>>
    BY <1>3 DEF examVars
  <2> QED BY <2>1 DEF ExamOrder, FoundStands, Siblings, ClassesSitting, NobodySitsTwice, DateSheetStands,
                      ToldOrAboutToBe
<1> QED BY <1>1, <1>2, <1>3 DEF ExamNext

\* For an office whose requests do not overlap, however many papers are removed at
\* once: no student is set two papers of one subject, or two at one time.
THEOREM NobodySitsTwiceHolds == ExamSpec /\ []OneWriter => []NobodySitsTwice
<1>1. ExamInit => ExamShape /\ ExamOrder
  BY ShapeAtFirst, OrderAtFirst
<1>2. ExamShape /\ ExamOrder /\ OneWriter /\ [ExamNext]_examVars => (ExamShape /\ ExamOrder)'
  BY ShapeIsKept, OrderIsKept
<1>3. ExamOrder => NobodySitsTwice
  BY DEF ExamOrder
<1> QED BY <1>1, <1>2, <1>3, PTL DEF ExamSpec

\* For such an office, whatever it published can be sat: every paper on the sheet has
\* a day and none clashes with another, until the sheet is withdrawn.
THEOREM DateSheetStandsHolds == ExamSpec /\ []OneWriter => []DateSheetStands
<1>1. ExamInit => ExamShape /\ ExamOrder
  BY ShapeAtFirst, OrderAtFirst
<1>2. ExamShape /\ ExamOrder /\ OneWriter /\ [ExamNext]_examVars => (ExamShape /\ ExamOrder)'
  BY ShapeIsKept, OrderIsKept
<1>3. ExamOrder => DateSheetStands
  BY DEF ExamOrder
<1> QED BY <1>1, <1>2, <1>3, PTL DEF ExamSpec

\* For such an office, once nobody is about to tell them, every class with a paper on
\* the sheet that is out has been told of it, or its announcement was lost.
THEOREM WhoSitsIsToldHolds == ExamSpec /\ []OneWriter => []WhoSitsIsTold
<1>1. ExamInit => ExamShape /\ ExamOrder
  BY ShapeAtFirst, OrderAtFirst
<1>2. ExamShape /\ ExamOrder /\ OneWriter /\ [ExamNext]_examVars => (ExamShape /\ ExamOrder)'
  BY ShapeIsKept, OrderIsKept
<1>3. ExamOrder => WhoSitsIsTold
  BY DEF ExamOrder, ToldOrAboutToBe, ClassesSitting, WhoSitsIsTold
<1> QED BY <1>1, <1>2, <1>3, PTL DEF ExamSpec

LEMMA StepsLeaveWhatIsOut ==
  ExamShape /\ ExamOrder /\ [ExamNext]_examVars =>
    [DateSheetPublished(exam.status) /\ DateSheetPublished(exam.status')
       => UNCHANGED <<papers, exam.start, exam.end>>]_examVars
<1> SUFFICES ASSUME ExamShape, ExamOrder, [ExamNext]_examVars,
                    DateSheetPublished(exam.status)
             PROVE  UNCHANGED <<papers, exam.start, exam.end>>
  OBVIOUS
<1>1. exam.status # "DRAFT" /\ exam.status # "NONE"
  BY DEF DateSheetPublished
<1>2. ASSUME NEW u \in Office, office[u].at = "write",
             office[u].op \in {"create", "edit", "remove", "update", "delete"}
      PROVE  FALSE
  BY <1>1, <1>2 DEF ExamOrder, FoundStands
<1>3. ASSUME NEW u \in Office, OfficeStep(u) PROVE UNCHANGED <<papers, exam.start, exam.end>>
  <2>1. ~SaveDates(u) /\ ~SavePaper(u) /\ ~RemovePaper(u) /\ ~DeleteExam(u)
    BY <1>2 DEF SaveDates, SavePaper, RemovePaper, DeleteExam, Write, WrittenTo
  <2>2. CASE SaveDeadline(u) \/ SetStatus(u)
    BY <2>2 DEF SaveDeadline, SetStatus, ExamShape, ExamRow
  <2>3. CASE \E t : Begin(u, t)
    BY <2>3 DEF Begin
  <2>4. CASE CheckConflict(u) \/ TellClasses(u) \/ LoseAnnouncement(u) \/ Refused(u)
    BY <2>4 DEF CheckConflict, TellClasses, LoseAnnouncement, Refused
  <2> QED
    BY <1>3, <2>1, <2>2, <2>3, <2>4
    DEF OfficeStep, StartUpdate, StartDeadline, StartCancel, StartRestore, StartPublish, StartWithdraw,
        StartDelete, StartPaper, StartEdit, StartRemove
<1>4. CASE \E f \in ExamForms : CreateExam(f)
  BY <1>1, <1>4 DEF CreateExam
<1>5. CASE UNCHANGED examVars
  BY <1>5 DEF examVars
<1> QED BY <1>3, <1>4, <1>5 DEF ExamNext

\* For such an office, what people have been shown does not move while it is out.
THEOREM OutIsFrozenHolds == ExamSpec /\ []OneWriter => OutIsFrozen
<1>1. ExamInit => ExamShape /\ ExamOrder
  BY ShapeAtFirst, OrderAtFirst
<1>2. ExamShape /\ ExamOrder /\ OneWriter /\ [ExamNext]_examVars => (ExamShape /\ ExamOrder)'
  BY ShapeIsKept, OrderIsKept
<1> QED BY <1>1, <1>2, StepsLeaveWhatIsOut, PTL DEF ExamSpec, OutIsFrozen
==============================================================================
