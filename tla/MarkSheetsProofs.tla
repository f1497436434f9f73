--------------------------- MODULE MarkSheetsProofs ---------------------------
(***************************************************************************)
(* Theorems about MarkSheets and Results, for any office, markers,         *)
(* registrars, students, sections and papers. That a mark never changes    *)
(* its section holds however requests overlap, and rests on two things:    *)
(* the unique index of marks for a student who was not on the sheet when   *)
(* the request read it, and, for one who was, that nobody has moved the    *)
(* mark since, which is the theorem itself. Hence SavesKnow. What the      *)
(* handlers of a sheet check holds one request at a time: the inductive    *)
(* invariant MarkOrder says that what the request in flight has found, the *)
(* office's or a marker's, is still so. The results that are current are   *)
(* of one generation because some student is in every generation there is  *)
(* (InAll).                                                                *)
(***************************************************************************)
EXTENDS Results, ExamsProofs

\* What a request in flight holds.
Holds(t) ==
  /\ t.at \in {"open", "save"} => t.paper \in Papers /\ t.section \in Sections
  /\ t.at = "save" => \A s \in DOMAIN t.rows : t.rows[s] \in MarkInputs

MarkShape ==
  /\ marks \in [Papers -> [Students -> MarkRows \cup {NoMark}]]
  /\ marker = [r \in Markers |-> marker[r]]
  /\ \A r \in Markers : Holds(marker[r])

\* The students a save takes to be on its sheet already are on it.
Knows(t) ==
  t.at = "save" =>
    \A s \in Students \cap DOMAIN t.rows :
      s \notin t.new => marks[t.paper][s] # NoMark /\ marks[t.paper][s].section = t.section

SavesKnow == \A r \in Markers : Knows(marker[r])

\* No mark goes, or changes section.
StayHome ==
  \A p \in Papers, s \in Students :
    marks[p][s] # NoMark => /\ marks'[p][s] # NoMark
                            /\ marks'[p][s].section = marks[p][s].section

---------------------------------------------------------------------------
LEMMA MarksAtFirst == MarkInit => MarkShape /\ SavesKnow
<1> SUFFICES ASSUME MarkInit PROVE MarkShape /\ SavesKnow
  OBVIOUS
<1>1. marks \in [Papers -> [Students -> MarkRows \cup {NoMark}]]
  BY DEF MarkInit
<1>2. marker = [r \in Markers |-> marker[r]] /\ \A r \in Markers : marker[r] = Resting
  BY DEF MarkInit
<1>3. Resting.at = "idle"
  BY DEF Resting
<1>4. \A r \in Markers : Holds(marker[r]) /\ Knows(marker[r])
  BY <1>2, <1>3 DEF Holds, Knows
<1> QED BY <1>1, <1>2, <1>4 DEF MarkShape, SavesKnow

\* A step that leaves the marks alone, and changes at most one request into
\* one that holds and knows what it should.
LEMMA MarksLeftAlone ==
  ASSUME MarkShape, SavesKnow, UNCHANGED marks,
         NEW r \in Markers, NEW t, Holds(t), Knows(t), marker' = [marker EXCEPT ![r] = t]
  PROVE  MarkShape' /\ SavesKnow' /\ StayHome
<1>1. marker' = [q \in Markers |-> marker'[q]] /\ \A q \in Markers : marker'[q] \in {marker[q], t}
  BY DEF MarkShape
<1>2. \A q \in Markers : Holds(marker'[q])
  BY <1>1 DEF MarkShape
<1>3. \A q \in Markers : Knows(marker'[q])
  BY <1>1 DEF SavesKnow
<1>4. \A q \in Markers : Knows(marker[q])'
  BY <1>3 DEF Knows
<1>5. \A q \in Markers : Holds(marker[q])'
  BY <1>2 DEF Holds
<1> QED BY <1>1, <1>4, <1>5 DEF MarkShape, SavesKnow, StayHome

\* A request at rest, and one that a check has let through to `at`.
LEMMA AnswerHolds == Holds(Resting) /\ Knows(Resting)
BY DEF Resting, Holds, Knows

LEMMA StartsHold ==
  ASSUME MarkShape, SavesKnow, NEW r \in Markers, NEW p \in Papers, NEW c \in Sections,
         \/ StartOpen(r, p, c) \/ StartSubmit(r, p, c)
         \/ \E until \in 0 .. LastDay : StartReopen(r, p, c, until)
         \/ \E rows \in Forms, expected \in NoStamp .. MaxStamp : StartSave(r, p, c, rows, expected)
  PROVE  MarkShape' /\ SavesKnow' /\ StayHome
<1>1. CASE StartOpen(r, p, c)
  <2> DEFINE t == [On("open", p, c) EXCEPT !.roster = Roster(c), !.examStatus = exam.status]
  <2>1. t.at = "open" /\ t.paper = p /\ t.section = c
    BY DEF On, Resting
  <2>2. Request(r, t)
    BY <1>1 DEF StartOpen
  <2> HIDE DEF t
  <2>3. Holds(t) /\ Knows(t)
    BY <2>1 DEF Holds, Knows
  <2> QED BY <2>2, <2>3, MarksLeftAlone DEF Request
<1>2. ASSUME NEW t, t.at \notin {"open", "save"}, Request(r, t)
      PROVE  MarkShape' /\ SavesKnow' /\ StayHome
  <2>1. Holds(t) /\ Knows(t)
    BY <1>2 DEF Holds, Knows
  <2> QED BY <1>2, <2>1, MarksLeftAlone DEF Request
<1>3. CASE StartSubmit(r, p, c)
  <2>1. On("submit", p, c).at = "submit"
    BY DEF On, Resting
  <2> QED BY <1>2, <1>3, <2>1 DEF StartSubmit
<1>4. CASE \E until \in 0 .. LastDay : StartReopen(r, p, c, until)
  <2>1. PICK until \in 0 .. LastDay : StartReopen(r, p, c, until)
    BY <1>4
  <2>2. [On("reopen", p, c) EXCEPT !.until = until].at = "reopen"
    BY DEF On, Resting
  <2> QED BY <1>2, <2>1, <2>2 DEF StartReopen
<1>5. CASE \E rows \in Forms, expected \in NoStamp .. MaxStamp : StartSave(r, p, c, rows, expected)
  <2>1. PICK rows \in Forms, expected \in NoStamp .. MaxStamp : StartSave(r, p, c, rows, expected)
    BY <1>5
  <2>2. PICK new : new = DOMAIN rows \ OnSheet(p, c)
    OBVIOUS
  <2> DEFINE t == [On("save", p, c) EXCEPT !.rows = rows, !.new = new, !.expected = expected]
  <2>3. t.at = "save" /\ t.paper = p /\ t.section = c /\ t.rows = rows /\ t.new = new
    BY DEF On, Resting
  <2>4. Request(r, t)
    BY <2>1, <2>2 DEF StartSave
  <2> HIDE DEF t
  <2>5. Holds(t)
    <3>1. \A s \in DOMAIN rows : rows[s] \in MarkInputs
      BY DEF Forms
    <3> QED BY <2>3, <3>1 DEF Holds
  <2>6. Knows(t)
    BY <2>2, <2>3 DEF Knows, OnSheet
  <2> QED BY <2>4, <2>5, <2>6, MarksLeftAlone DEF Request
<1> QED BY <1>1, <1>3, <1>4, <1>5

---------------------------------------------------------------------------
\* The two transactions that write marks.

\* Marks that stay home keep every save right about its sheet.
LEMMA KnowledgeLasts ==
  ASSUME MarkShape, SavesKnow, StayHome, NEW r \in Markers, marker' = [marker EXCEPT ![r] = Resting],
         marks' \in [Papers -> [Students -> MarkRows \cup {NoMark}]]
  PROVE  MarkShape' /\ SavesKnow'
<1>1. marker' = [q \in Markers |-> marker'[q]]
      /\ \A q \in Markers : marker'[q] \in {marker[q], Resting}
  BY DEF MarkShape
<1>2. \A q \in Markers : Holds(marker'[q]) /\ Knows(marker'[q])
  BY <1>1, AnswerHolds DEF MarkShape, SavesKnow
<1>3. ASSUME NEW q \in Markers PROVE Holds(marker[q])' /\ Knows(marker[q])'
  <2>1. PICK t : t = marker'[q]
    OBVIOUS
  <2>2. Holds(t) /\ Knows(t)
    BY <1>2, <2>1
  <2>3. t.at = "save" =>
          \A s \in Students \cap DOMAIN t.rows :
            s \notin t.new => marks'[t.paper][s] # NoMark /\ marks'[t.paper][s].section = t.section
    BY <2>2 DEF StayHome, Holds, Knows
  <2> QED BY <2>1, <2>2, <2>3 DEF Holds, Knows
<1> QED BY <1>1, <1>3 DEF MarkShape, SavesKnow

LEMMA OpeningKeepsHomes ==
  ASSUME MarkShape, SavesKnow, NEW r \in Markers, OpenSheet(r)
  PROVE  MarkShape' /\ SavesKnow' /\ StayHome
<1> DEFINE t == marker[r]
<1>1. t.paper \in Papers /\ t.section \in Sections
  BY DEF OpenSheet, MarkShape, Holds
<1>2. PICK row : row = Unmarked(t.section) /\ row \in MarkRows
  <2> DEFINE pending == [status |-> "PENDING", obtained |-> Nothing]
  <2>1. pending.status = "PENDING" /\ pending.obtained = Nothing
    OBVIOUS
  <2>2. MarkRow(t.section, pending.status, pending.obtained) \in MarkRows
    <3> HIDE DEF pending
    <3>1. pending \in MarkInputs \cup {[status |-> "PENDING", obtained |-> Nothing]}
      BY DEF pending
    <3> QED BY <1>1, <3>1 DEF MarkRows
  <2>3. Unmarked(t.section) \in MarkRows
    BY <2>1, <2>2 DEF Unmarked
  <2> QED BY <2>3
<1>3. marks' = [marks EXCEPT ![t.paper] =
                  [s \in Students |-> IF s \in t.roster THEN row ELSE marks[t.paper][s]]]
  BY <1>2 DEF OpenSheet
<1>4. \A s \in t.roster : marks[t.paper][s] = NoMark
  BY DEF OpenSheet, Openable
<1>5. \A p \in Papers, s \in Students :
        marks'[p][s] = IF p = t.paper /\ s \in t.roster THEN row ELSE marks[p][s]
  BY <1>1, <1>3 DEF MarkShape
<1>6. marks' \in [Papers -> [Students -> MarkRows \cup {NoMark}]]
  BY <1>1, <1>2, <1>3 DEF MarkShape
<1>7. StayHome
  BY <1>4, <1>5 DEF StayHome
<1>8. marker' = [marker EXCEPT ![r] = Resting]
  BY DEF OpenSheet, Answer
<1> QED BY <1>6, <1>7, <1>8, KnowledgeLasts

LEMMA SavingKeepsHomes ==
  ASSUME MarkShape, SavesKnow, NEW r \in Markers, SaveMarks(r)
  PROVE  MarkShape' /\ SavesKnow' /\ StayHome
<1>0. PICK t : t = marker[r]
  OBVIOUS
<1>1. /\ t.at = "save" /\ t.paper \in Papers /\ t.section \in Sections
      /\ \A s \in DOMAIN t.rows : t.rows[s] \in MarkInputs
  BY <1>0 DEF SaveMarks, MarkShape, Holds
<1> DEFINE new == [s \in Students |-> IF s \in DOMAIN t.rows
                                     THEN MarkRow(t.section, t.rows[s].status, t.rows[s].obtained)
                                     ELSE marks[t.paper][s]]
<1>2. marks' = [marks EXCEPT ![t.paper] = new]
  BY <1>0 DEF SaveMarks
<1>3. \A s \in DOMAIN t.rows : MarkRow(t.section, t.rows[s].status, t.rows[s].obtained) \in MarkRows
  BY <1>1 DEF MarkRows
<1>4. new \in [Students -> MarkRows \cup {NoMark}]
  BY <1>1, <1>3 DEF MarkShape
<1>5. marks' \in [Papers -> [Students -> MarkRows \cup {NoMark}]]
  <2> HIDE DEF new
  <2> QED BY <1>1, <1>2, <1>4 DEF MarkShape
<1>6. \A p \in Papers, s \in Students : marks'[p][s] = IF p = t.paper THEN new[s] ELSE marks[p][s]
  <2> HIDE DEF new
  <2> QED BY <1>1, <1>2 DEF MarkShape
<1>7. ASSUME NEW s \in Students, marks[t.paper][s] # NoMark
      PROVE  new[s] # NoMark /\ new[s].section = marks[t.paper][s].section
  <2>1. CASE s \notin DOMAIN t.rows
    BY <1>7, <2>1
  <2>2. CASE s \in DOMAIN t.rows
    <3>1. s \notin t.new
      BY <1>0, <1>7 DEF SaveMarks, Savable
    <3>2. marks[t.paper][s].section = t.section
      BY <1>0, <1>1, <2>2, <3>1 DEF SavesKnow, Knows
    <3>3. new[s] = MarkRow(t.section, t.rows[s].status, t.rows[s].obtained)
      BY <2>2
    <3>4. new[s] # NoMark
      BY <1>3, <2>2, <3>3, MarkNamesAssumption
    <3>5. new[s].section = t.section
      BY <3>3 DEF MarkRow
    <3> QED BY <3>2, <3>4, <3>5
  <2> QED BY <2>1, <2>2
<1>8. StayHome
  <2> HIDE DEF new
  <2> QED BY <1>6, <1>7 DEF StayHome
<1>9. marker' = [marker EXCEPT ![r] = Resting]
  BY DEF SaveMarks, Answer
<1> QED BY <1>5, <1>8, <1>9, KnowledgeLasts

---------------------------------------------------------------------------
LEMMA EveryStepKeepsHomes ==
  MarkShape /\ SavesKnow /\ [MarkNext]_allMarkVars => MarkShape' /\ SavesKnow' /\ StayHome
<1> SUFFICES ASSUME MarkShape, SavesKnow, [MarkNext]_allMarkVars
             PROVE  MarkShape' /\ SavesKnow' /\ StayHome
  OBVIOUS
<1>1. CASE UNCHANGED <<marks, marker>>
  <2>1. StayHome
    BY <1>1 DEF StayHome
  <2> QED BY <1>1, <2>1 DEF MarkShape, SavesKnow, Holds, Knows
<1>2. ASSUME NEW r \in Markers, MarkerStep(r) PROVE MarkShape' /\ SavesKnow' /\ StayHome
  <2>1. CASE \E p \in Papers, c \in Sections :
               \/ StartOpen(r, p, c) \/ StartSubmit(r, p, c)
               \/ \E rows \in Forms, expected \in NoStamp .. MaxStamp : StartSave(r, p, c, rows, expected)
               \/ \E until \in 0 .. LastDay : StartReopen(r, p, c, until)
    BY <2>1, StartsHold
  <2>2. CASE Submit(r) \/ Reopen(r) \/ MarkRefused(r)
    <3>1. marker' = [marker EXCEPT ![r] = Resting] /\ UNCHANGED marks
      BY <2>2 DEF Submit, Reopen, MarkRefused, Answer
    <3> QED BY <3>1, AnswerHolds, MarksLeftAlone
  <2> QED BY <1>2, <2>1, <2>2, OpeningKeepsHomes, SavingKeepsHomes DEF MarkerStep
<1> QED BY <1>1, <1>2 DEF MarkNext, allMarkVars, markVars, Tick, Move

\* A mark never disappears and never changes section, however openings, saves
\* and the moves of students overlap (openMarkSheet, saveMarks over the unique
\* index of marks; students.service.ts:865).
THEOREM OneHomePerMarkHolds == MarkSpec => OneHomePerMark
<1>1. MarkShape /\ SavesKnow /\ [MarkNext]_allMarkVars => [StayHome]_allMarkVars
  BY EveryStepKeepsHomes
<1> QED BY <1>1, MarksAtFirst, EveryStepKeepsHomes, PTL DEF MarkSpec, OneHomePerMark, StayHome

---------------------------------------------------------------------------
\* One request at a time.

SheetShape ==
  /\ sheets \in [Papers -> [Sections -> SheetRows \cup {NoSheet}]]
  /\ today \in 0 .. LastDay /\ enrolled \in [Students -> Sections \cup {NoSection}]
  /\ marks \in [Papers -> [Students -> MarkRows \cup {NoMark}]]
  /\ marker = [r \in Markers |-> marker[r]]

Alone == \A a, b \in InFlight : a = b

MarkingStatuses == {"MARKS_ENTRY", "COMPLETED"}

\* What the office has found before it writes: nobody marks yet.
OfficeFound(t) ==
  t.at \in {"check", "write"} /\ t.op # "deadline" => exam.status \notin MarkingStatuses

\* What a marker has found before it writes.
MarkerFound(t) ==
  /\ t.at \in {"idle", "open", "save", "submit", "reopen"}
  /\ t.at # "idle" => t.paper \in DOMAIN papers /\ t.section \in Sections
  /\ t.at = "open" => exam.status \in {"SCHEDULED", "MARKS_ENTRY"} /\ t.examStatus = exam.status
  /\ t.at \in {"save", "submit", "reopen"} => sheets[t.paper][t.section] # NoSheet
  /\ t.at = "save" => \A s \in DOMAIN t.rows : /\ t.rows[s] \in MarkInputs
                                               /\ t.rows[s].obtained <= papers[t.paper].max
  /\ t.at = "submit" => \A s \in Roster(t.section) :
                          s \in OnSheet(t.paper, t.section) /\ marks[t.paper][s].status # "PENDING"
  /\ t.at = "reopen" => t.until \in 0 .. LastDay

MarksOnSheets ==
  /\ \A p \in Papers \ DOMAIN papers : ~HasSheet(p)
  /\ \A p \in Papers, s \in Students : marks[p][s] # NoMark => sheets[p][marks[p][s].section] # NoSheet

MarkOrder ==
  /\ ExamShape /\ SheetShape /\ Alone
  /\ \A u \in Office : OfficeFound(office[u])
  /\ \A r \in Markers : MarkerFound(marker[r])
  /\ MarksOnSheets /\ SheetMeansMarking /\ MarksFitPaper
---------------------------------------------------------------------------
LEMMA RestIsIdle == Resting.at = "idle" /\ MarkerFound(Resting) /\ Quiet.at = "idle"
BY DEF Resting, MarkerFound, Quiet, OfficeTask

\* A marker that rests has found all it needs, in any state.
LEMMA RestersFound ==
  ASSUME NEW r \in Markers, marker'[r] = Resting
  PROVE  MarkerFound(marker[r])'
<1>1. PICK t : t = marker'[r] /\ t.at = "idle"
  BY RestIsIdle
<1> QED BY <1>1 DEF MarkerFound

\* The requests other than one that is in flight rest.
LEMMA OthersRest ==
  ASSUME Alone, NEW b \in InFlight
  PROVE  /\ \A u \in Office \ {b} : office[u] = Quiet
         /\ \A r \in Markers \ {b} : marker[r] = Resting
BY DEF Alone, InFlight

LEMMA SheetMarkOnIsARow ==
  ASSUME SheetShape, NEW p \in Papers, NEW s \in Students, marks[p][s] # NoMark
  PROVE  marks[p][s] \in MarkRows /\ marks[p][s].section \in Sections
<1>1. marks[p][s] \in MarkRows
  BY DEF SheetShape
<1> QED BY <1>1 DEF MarkRows, MarkRow

\* Where no paper has a sheet there are no marks of the papers, nor of any other.
LEMMA NoSheetsNoMarks ==
  ASSUME SheetShape, MarksOnSheets, \A p \in DOMAIN papers : ~HasSheet(p)
  PROVE  /\ \A p \in Papers : ~HasSheet(p)
         /\ \A p \in Papers, s \in Students : marks[p][s] = NoMark
<1>1. \A p \in Papers : ~HasSheet(p)
  BY DEF MarksOnSheets
<1>2. ASSUME NEW p \in Papers, NEW s \in Students, marks[p][s] # NoMark PROVE FALSE
  <2>1. sheets[p][marks[p][s].section] # NoSheet /\ marks[p][s].section \in Sections
    BY <1>2, SheetMarkOnIsARow DEF MarksOnSheets
  <2> QED BY <1>1, <2>1 DEF HasSheet
<1> QED BY <1>1, <1>2

---------------------------------------------------------------------------
\* The office.

\* A request of the office in flight before or after its step: markers rest.
LEMMA OfficeMeansNoMarker ==
  ASSUME Alone, Alone', NEW u \in Office, office[u] # Quiet \/ office'[u] # Quiet, UNCHANGED marker
  PROVE  \A r \in Markers : marker[r] = Resting
<1> SUFFICES ASSUME NEW r \in Markers, marker[r] # Resting PROVE FALSE
  OBVIOUS
<1>1. r \in InFlight /\ r \in InFlight'
  BY DEF InFlight
<1>2. u \in InFlight \/ u \in InFlight'
  BY DEF InFlight
<1>3. r = u
  BY <1>1, <1>2 DEF Alone
<1> QED BY <1>3, TeachersAssumption

\* A step of one request of the office: what is left to show when the sheets and the
\* marks stay as they are.
LEMMA OfficeStepKeeps ==
  ASSUME MarkOrder, Alone', NEW u \in Office, OfficeStep(u), UNCHANGED markVars,
         OfficeFound(office[u])', \A w \in Office \ {u} : office'[w] = office[w],
         office[u] # Quiet \/ office'[u] # Quiet, office[u] # Quiet \/ exam' = exam,
         UNCHANGED sheets, MarksOnSheets', SheetMeansMarking', MarksFitPaper'
  PROVE  MarkOrder'
<1>1. UNCHANGED <<today, enrolled, marks, marker>>
  BY DEF markVars
<1>2. ExamShape'
  BY ShapeIsKept DEF MarkOrder, ExamNext
<1>3. SheetShape'
  BY <1>1 DEF MarkOrder, SheetShape
<1>4. \A r \in Markers : MarkerFound(marker[r])'
  BY <1>1, OfficeMeansNoMarker, RestersFound DEF MarkOrder
<1>5. ASSUME NEW w \in Office PROVE OfficeFound(office[w])'
  <2>1. CASE w = u
    BY <2>1
  <2>2. CASE w # u
    <3>1. PICK t : t = office[w] /\ t = office'[w] /\ OfficeFound(t)
      BY <2>2 DEF MarkOrder
    <3>2. CASE office[u] # Quiet
      <4>1. office[w] = Quiet
        BY <2>2, <3>2, OthersRest DEF MarkOrder, InFlight
      <4> QED BY <3>1, <4>1, RestIsIdle DEF OfficeFound
    <3>3. CASE exam' = exam
      BY <3>1, <3>3 DEF OfficeFound
    <3> QED BY <3>2, <3>3
  <2> QED BY <2>1, <2>2
<1> QED BY <1>2, <1>3, <1>4, <1>5 DEF MarkOrder

\* The requests of the office that look: nothing changes but what is in flight.
LEMMA OfficeLooksKeeps ==
  ASSUME MarkOrder, Alone', NEW u \in Office, OfficeStep(u), UNCHANGED markVars,
         NEW t, OfficeFound(t), office' = [office EXCEPT ![u] = t], office[u] # Quiet \/ t # Quiet,
         UNCHANGED <<exam, papers, sheets, told>>
  PROVE  MarkOrder'
<1>1. office'[u] = t /\ \A w \in Office \ {u} : office'[w] = office[w]
  BY DEF MarkOrder, ExamShape
<1>2. OfficeFound(office[u])'
  BY <1>1 DEF OfficeFound
<1>3. UNCHANGED <<today, enrolled, marks, marker>>
  BY DEF markVars
<1>4. MarksOnSheets' /\ SheetMeansMarking' /\ MarksFitPaper'
  BY <1>3 DEF MarkOrder, MarksOnSheets, SheetMeansMarking, MarksFitPaper, HasSheet
<1> QED BY <1>1, <1>2, <1>4, OfficeStepKeeps

LEMMA OfficeBeginningsKeep ==
  ASSUME MarkOrder, Alone', NEW u \in Office, OfficeStep(u), UNCHANGED markVars,
         \/ \E f \in ExamForms : StartUpdate(u, f)
         \/ \E d \in Deadlines : StartDeadline(u, d)
         \/ StartCancel(u) \/ StartRestore(u) \/ StartPublish(u) \/ StartWithdraw(u) \/ StartDelete(u)
         \/ \E f \in PaperForms : StartPaper(u, f)
         \/ \E p \in Papers, f \in PaperForms : StartEdit(u, p, f)
         \/ \E p \in Papers : StartRemove(u, p)
  PROVE  MarkOrder'
<1>1. ASSUME NEW t, Begin(u, t), t.at \in {"check", "write"},
             t.op # "deadline" => exam.status \notin MarkingStatuses
      PROVE  MarkOrder'
  <2>1. OfficeFound(t) /\ t # Quiet
    BY <1>1, RestIsIdle DEF OfficeFound
  <2> QED BY <1>1, <2>1, OfficeLooksKeeps DEF Begin
<1>2. ASSUME NEW at \in {"check", "write"}, NEW op, NEW p, NEW f, Begin(u, OfficeTask(at, op, p, f)),
             op # "deadline" => exam.status \in {"DRAFT", "SCHEDULED", "CANCELLED"}
      PROVE  MarkOrder'
  <2>1. OfficeTask(at, op, p, f).at = at /\ OfficeTask(at, op, p, f).op = op
    BY DEF OfficeTask
  <2> QED BY <1>1, <1>2, <2>1 DEF MarkingStatuses
<1>3. CASE StartPublish(u)
  <2> DEFINE t == [Asked("publish", NoForm) EXCEPT !.tell = {papers[p].class : p \in DOMAIN papers}]
  <2>1. t.at = "write" /\ Begin(u, t) /\ exam.status = "DRAFT"
    BY <1>3 DEF StartPublish, Asked, OfficeTask
  <2> HIDE DEF t
  <2> QED BY <1>1, <2>1 DEF MarkingStatuses
<1>4. CASE \E f \in ExamForms : StartUpdate(u, f)
  BY <1>2, <1>4 DEF StartUpdate, Asked, Editable
<1>5. CASE \E d \in Deadlines : StartDeadline(u, d)
  BY <1>2, <1>5 DEF StartDeadline, Asked
<1>6. CASE StartCancel(u) \/ StartRestore(u) \/ StartWithdraw(u) \/ StartDelete(u)
  BY <1>2, <1>6 DEF StartCancel, StartRestore, StartWithdraw, StartDelete, Asked
<1>7. CASE \E f \in PaperForms : StartPaper(u, f)
  BY <1>2, <1>7 DEF StartPaper, Editable
<1>8. CASE \E p \in Papers, f \in PaperForms : StartEdit(u, p, f)
  BY <1>2, <1>8 DEF StartEdit, Editable
<1>9. CASE \E p \in Papers : StartRemove(u, p)
  BY <1>2, <1>9 DEF StartRemove, Editable
<1> QED BY <1>3, <1>4, <1>5, <1>6, <1>7, <1>8, <1>9

LEMMA OfficeCheckKeeps ==
  ASSUME MarkOrder, Alone', NEW u \in Office, OfficeStep(u), UNCHANGED markVars, CheckConflict(u)
  PROVE  MarkOrder'
<1>1. PICK o : o = office[u]
  OBVIOUS
<1>2. o.at = "check" /\ o \in OfficeRequest /\ OfficeFound(o) /\ o # Quiet
  BY <1>1, RestIsIdle, RequestShape DEF CheckConflict, MarkOrder
<1>3. PICK w : w = [o EXCEPT !.at = "write"]
  OBVIOUS
<1>4. w.op = o.op /\ OfficeFound(w)
  BY <1>2, <1>3 DEF OfficeRequest, OfficeFound
<1>5. OfficeFound(Quiet)
  BY RestIsIdle DEF OfficeFound
<1>6. office' = [office EXCEPT ![u] = Quiet] \/ office' = [office EXCEPT ![u] = w]
  BY <1>1, <1>3 DEF CheckConflict
<1> QED BY <1>1, <1>2, <1>4, <1>5, <1>6, OfficeLooksKeeps DEF CheckConflict

\* A write of the office that ends its request.
LEMMA OfficeEndKeeps ==
  ASSUME MarkOrder, Alone', NEW u \in Office, OfficeStep(u), UNCHANGED markVars,
         Finish(u), office[u].at # "idle", UNCHANGED sheets,
         MarksOnSheets', SheetMeansMarking', MarksFitPaper'
  PROVE  MarkOrder'
<1>1. office'[u] = Quiet /\ \A w \in Office \ {u} : office'[w] = office[w]
  BY DEF Finish, MarkOrder, ExamShape
<1>2. OfficeFound(office[u])'
  BY <1>1, RestIsIdle DEF OfficeFound
<1> QED BY <1>1, <1>2, RestIsIdle, OfficeStepKeeps

\* The rows stay, whatever the exam's dates.
LEMMA OfficeDatesKeep ==
  ASSUME MarkOrder, Alone', NEW u \in Office, OfficeStep(u), UNCHANGED markVars,
         SaveDates(u) \/ SaveDeadline(u) \/ TellClasses(u) \/ LoseAnnouncement(u) \/ Refused(u)
  PROVE  MarkOrder'
<1>1. /\ office[u].at # "idle" /\ Finish(u) /\ UNCHANGED <<papers, sheets, marks>>
      /\ exam'.status = exam.status
  BY DEF SaveDates, SaveDeadline, TellClasses, LoseAnnouncement, Refused, Write, MarkOrder, ExamShape,
         ExamRow, markVars
<1>2. MarksOnSheets' /\ SheetMeansMarking' /\ MarksFitPaper'
  BY <1>1 DEF MarkOrder, MarksOnSheets, SheetMeansMarking, MarksFitPaper, HasSheet
<1> QED BY <1>1, <1>2, OfficeEndKeeps

\* Before a mark sheet is opened only: no paper has one.
LEMMA WriterSeesNoSheets ==
  ASSUME MarkOrder, NEW u \in Office, office[u].at = "write", office[u].op # "deadline"
  PROVE  /\ \A p \in Papers : ~HasSheet(p)
         /\ \A p \in Papers, s \in Students : marks[p][s] = NoMark
<1>1. exam.status \notin MarkingStatuses
  BY DEF MarkOrder, OfficeFound
<1>2. \A p \in DOMAIN papers : ~HasSheet(p)
  BY <1>1 DEF MarkOrder, SheetMeansMarking, MarkingStatuses
<1> QED BY <1>2, NoSheetsNoMarks DEF MarkOrder

\* And then the exam and its papers may become anything.
LEMMA NothingMarkedYet ==
  ASSUME \A p \in Papers : ~HasSheet(p), \A p \in Papers, s \in Students : marks[p][s] = NoMark,
         UNCHANGED <<sheets, marks>>, ExamShape'
  PROVE  MarksOnSheets' /\ SheetMeansMarking' /\ MarksFitPaper'
<1>1. DOMAIN papers' \subseteq Papers /\ \A p \in Papers : ~HasSheet(p)'
  BY DEF ExamShape, HasSheet
<1> QED BY <1>1 DEF MarksOnSheets, SheetMeansMarking, MarksFitPaper

LEMMA OfficeWritesKeep ==
  ASSUME MarkOrder, Alone', NEW u \in Office, OfficeStep(u), UNCHANGED markVars,
         SetStatus(u) \/ SavePaper(u) \/ RemovePaper(u) \/ DeleteExam(u)
  PROVE  MarkOrder'
<1>1. office[u].at = "write" /\ office[u].op # "deadline" /\ UNCHANGED <<sheets, marks>>
  BY DEF SetStatus, SavePaper, RemovePaper, DeleteExam, Write, WrittenTo, markVars
<1>2. ExamShape'
  BY ShapeIsKept DEF MarkOrder, ExamNext
<1>3. MarksOnSheets' /\ SheetMeansMarking' /\ MarksFitPaper'
  BY <1>1, <1>2, WriterSeesNoSheets, NothingMarkedYet
<1>4. PICK t : office' = [office EXCEPT ![u] = t] /\ t.at \in {"idle", "tell"}
  <2>1. [office[u] EXCEPT !.at = "tell"].at = "tell"
    BY RequestShape DEF OfficeRequest, MarkOrder
  <2> QED BY <2>1, RestIsIdle DEF SetStatus, SavePaper, RemovePaper, DeleteExam, Finish
<1>5. office'[u] = t /\ \A w \in Office \ {u} : office'[w] = office[w]
  BY <1>4 DEF MarkOrder, ExamShape
<1>6. OfficeFound(office[u])'
  BY <1>4, <1>5 DEF OfficeFound
<1> QED BY <1>1, <1>3, <1>5, <1>6, RestIsIdle, OfficeStepKeeps

LEMMA OfficeStepInOrder ==
  ASSUME MarkOrder, Alone', NEW u \in Office, OfficeStep(u), UNCHANGED markVars
  PROVE  MarkOrder'
BY OfficeBeginningsKeep, OfficeCheckKeeps, OfficeDatesKeep, OfficeWritesKeep DEF OfficeStep
---------------------------------------------------------------------------
\* The markers.

\* A request of a marker in flight before or after its step is the only one, but for
\* itself.
LEMMA MarkerIsTheOnlyOne ==
  ASSUME Alone, Alone', NEW r \in Markers, UNCHANGED office,
         \A q \in Markers \ {r} : marker'[q] = marker[q],
         marker[r] # Resting \/ marker'[r] # Resting
  PROVE  /\ \A u \in Office : office[u] = Quiet /\ office'[u] = Quiet
         /\ \A q \in Markers \ {r} : marker'[q] = Resting
<1>1. r \in InFlight \/ r \in InFlight'
  BY DEF InFlight
<1>2. ASSUME NEW u \in Office, office[u] # Quiet PROVE FALSE
  <2>1. u \in InFlight /\ u \in InFlight'
    BY <1>2 DEF InFlight
  <2>2. u = r
    BY <1>1, <2>1 DEF Alone
  <2> QED BY <2>2, TeachersAssumption
<1>3. ASSUME NEW q \in Markers, q # r, marker[q] # Resting PROVE FALSE
  <2>1. q \in InFlight /\ q \in InFlight'
    BY <1>3 DEF InFlight
  <2> QED BY <1>1, <1>3, <2>1 DEF Alone
<1> QED BY <1>2, <1>3

\* A step of a marker: what is left to show.
LEMMA MarkerStepKeeps ==
  ASSUME MarkOrder, Alone', NEW r \in Markers, NEW t, marker' = [marker EXCEPT ![r] = t],
         marker[r] # Resting \/ t # Resting, MarkerFound(t)', UNCHANGED <<office, papers, today, enrolled>>,
         exam' \in ExamRow,
         sheets' \in [Papers -> [Sections -> SheetRows \cup {NoSheet}]],
         marks' \in [Papers -> [Students -> MarkRows \cup {NoMark}]],
         MarksOnSheets', SheetMeansMarking', MarksFitPaper'
  PROVE  MarkOrder'
<1>1. marker'[r] = t /\ \A q \in Markers \ {r} : marker'[q] = marker[q]
  BY DEF MarkOrder, SheetShape
<1>2. /\ \A u \in Office : office[u] = Quiet /\ office'[u] = Quiet
      /\ \A q \in Markers \ {r} : marker'[q] = Resting
  BY <1>1, MarkerIsTheOnlyOne DEF MarkOrder
<1>3. ExamShape'
  BY DEF MarkOrder, ExamShape, CarriesItsForm
<1>4. SheetShape'
  BY DEF MarkOrder, SheetShape
<1>5. \A u \in Office : OfficeFound(office[u])'
  BY <1>2, RestIsIdle DEF OfficeFound
<1>6. ASSUME NEW q \in Markers PROVE MarkerFound(marker[q])'
  <2>1. CASE q = r
    BY <1>1, <2>1
  <2>2. CASE q # r
    BY <1>2, <2>2, RestersFound
  <2> QED BY <2>1, <2>2
<1> QED BY <1>3, <1>4, <1>5, <1>6 DEF MarkOrder

\* A marker that looks, or whose write is refused.
LEMMA MarkerLooksKeeps ==
  ASSUME MarkOrder, Alone', NEW r \in Markers, NEW t, marker' = [marker EXCEPT ![r] = t],
         marker[r] # Resting \/ t # Resting, MarkerFound(t), UNCHANGED <<examVars, today, enrolled, marks>>
  PROVE  MarkOrder'
<1>1. UNCHANGED <<exam, papers, sheets, office, told, today, enrolled, marks>>
  BY DEF examVars
<1>2. MarksOnSheets' /\ SheetMeansMarking' /\ MarksFitPaper'
  BY <1>1 DEF MarkOrder, MarksOnSheets, SheetMeansMarking, MarksFitPaper, HasSheet
<1>3. MarkerFound(t)'
  BY <1>1 DEF MarkerFound, Roster, OnSheet
<1>4. exam' \in ExamRow /\ sheets' \in [Papers -> [Sections -> SheetRows \cup {NoSheet}]]
      /\ marks' \in [Papers -> [Students -> MarkRows \cup {NoMark}]]
  BY <1>1 DEF MarkOrder, ExamShape, SheetShape
<1> QED BY <1>1, <1>2, <1>3, <1>4, MarkerStepKeeps

LEMMA OnFields ==
  ASSUME NEW at, NEW p, NEW c
  PROVE  /\ On(at, p, c).at = at /\ On(at, p, c).paper = p /\ On(at, p, c).section = c
         /\ On(at, p, c).rows = <<>>
BY DEF On, Resting

LEMMA MarkerBeginningsKeep ==
  ASSUME MarkOrder, Alone', NEW r \in Markers, NEW p \in Papers, NEW c \in Sections,
         \/ StartOpen(r, p, c) \/ StartSubmit(r, p, c)
         \/ \E rows \in Forms, expected \in NoStamp .. MaxStamp : StartSave(r, p, c, rows, expected)
         \/ \E until \in 0 .. LastDay : StartReopen(r, p, c, until)
  PROVE  MarkOrder'
<1>1. ASSUME NEW t, Request(r, t), t.at # "idle", MarkerFound(t) PROVE MarkOrder'
  BY <1>1, RestIsIdle, MarkerLooksKeeps DEF Request
<1>2. CASE StartOpen(r, p, c)
  <2>1. PICK t : t = [On("open", p, c) EXCEPT !.roster = Roster(c), !.examStatus = exam.status]
    OBVIOUS
  <2>2. t.at = "open" /\ t.paper = p /\ t.section = c /\ t.examStatus = exam.status
    BY <2>1 DEF On, Resting
  <2>3. p \in DOMAIN papers /\ exam.status \in {"SCHEDULED", "MARKS_ENTRY"} /\ Request(r, t)
    BY <1>2, <2>1 DEF StartOpen, CanEnterMarks, IsMarkingOpen
  <2>4. MarkerFound(t)
    BY <2>2, <2>3 DEF MarkerFound
  <2> QED BY <1>1, <2>2, <2>3, <2>4
<1>3. CASE StartSubmit(r, p, c)
  <2>1. PICK t : t = On("submit", p, c) /\ t.at = "submit" /\ t.paper = p /\ t.section = c
    BY OnFields
  <2>2. p \in DOMAIN papers /\ sheets[p][c] # NoSheet /\ Unentered(p, c) = {} /\ Request(r, t)
    BY <1>3, <2>1 DEF StartSubmit
  <2>3. \A s \in Roster(c) : s \in OnSheet(p, c) /\ marks[p][s].status # "PENDING"
    BY <2>2 DEF Unentered
  <2>4. MarkerFound(t)
    BY <2>1, <2>2, <2>3 DEF MarkerFound
  <2> QED BY <1>1, <2>1, <2>2, <2>4
<1>4. ASSUME NEW rows \in Forms, NEW expected \in NoStamp .. MaxStamp, StartSave(r, p, c, rows, expected)
      PROVE  MarkOrder'
  <2>1. PICK t : t = [On("save", p, c) EXCEPT !.rows = rows, !.new = DOMAIN rows \ OnSheet(p, c),
                                             !.expected = expected]
    OBVIOUS
  <2>2. t.at = "save" /\ t.paper = p /\ t.section = c /\ t.rows = rows
    BY <2>1 DEF On, Resting
  <2>3. p \in DOMAIN papers /\ sheets[p][c] # NoSheet /\ RowsFit(p, c, rows) /\ Request(r, t)
    BY <1>4, <2>1 DEF StartSave
  <2>4. \A s \in DOMAIN rows : rows[s] \in MarkInputs /\ rows[s].obtained <= papers[p].max
    BY <2>3 DEF Forms, RowsFit
  <2>5. MarkerFound(t)
    BY <2>2, <2>3, <2>4 DEF MarkerFound
  <2> QED BY <1>1, <2>2, <2>3, <2>5
<1>5. ASSUME NEW until \in 0 .. LastDay, StartReopen(r, p, c, until)
      PROVE  MarkOrder'
  <2>1. PICK t : t = [On("reopen", p, c) EXCEPT !.until = until]
    OBVIOUS
  <2>2. t.at = "reopen" /\ t.paper = p /\ t.section = c /\ t.until = until
    BY <2>1 DEF On, Resting
  <2>3. p \in DOMAIN papers /\ sheets[p][c] # NoSheet /\ Request(r, t)
    BY <1>5, <2>1 DEF StartReopen
  <2>4. MarkerFound(t)
    BY <2>2, <2>3 DEF MarkerFound
  <2> QED BY <1>1, <2>2, <2>3, <2>4
<1> QED BY <1>2, <1>3, <1>4, <1>5

LEMMA MarkRefusedKeeps ==
  ASSUME MarkOrder, Alone', NEW r \in Markers, MarkRefused(r)
  PROVE  MarkOrder'
BY RestIsIdle, MarkerLooksKeeps DEF MarkRefused, Answer

\* A sheet that is there is touched, and its exam goes on.
LEMMA SheetTouched ==
  ASSUME MarkOrder, NEW p \in DOMAIN papers, NEW c \in Sections, sheets[p][c] # NoSheet
  PROVE  /\ p \in Papers /\ sheets[p][c] \in SheetRows
         /\ Touched(sheets[p][c]) \in SheetRows
         /\ [Touched(sheets[p][c]) EXCEPT !.status = "SUBMITTED"] \in SheetRows
         /\ \A d \in 0 .. LastDay : [Touched(sheets[p][c]) EXCEPT !.reopened = d] \in SheetRows
         /\ exam.status \in MarkingStatuses
<1>1. p \in Papers /\ sheets[p][c] \in SheetRows
  BY DEF MarkOrder, ExamShape, SheetShape
<1>2. ASSUME NEW s \in SheetRows
      PROVE  /\ Touched(s) \in SheetRows
             /\ [Touched(s) EXCEPT !.status = "SUBMITTED"] \in SheetRows
             /\ \A d \in 0 .. LastDay : [Touched(s) EXCEPT !.reopened = d] \in SheetRows
  <2>1. Touched(s) \in SheetRows
    BY DEF Touched, SheetRows
  <2> HIDE DEF Touched
  <2>2. [Touched(s) EXCEPT !.status = "SUBMITTED"] \in SheetRows
    BY <2>1 DEF SheetRows
  <2>3. \A d \in 0 .. LastDay : [Touched(s) EXCEPT !.reopened = d] \in SheetRows
    BY <2>1 DEF SheetRows
  <2> QED BY <2>1, <2>2, <2>3
<1>3. exam.status \in MarkingStatuses
  BY DEF MarkOrder, SheetMeansMarking, MarkingStatuses, HasSheet
<1> QED BY <1>1, <1>2, <1>3

\* The marks of a paper that a step writes are of one section, and no higher than the
\* paper's maximum.
MarksWritten(p, c) ==
  \A q \in Papers, s \in Students :
    \/ marks'[q][s] = marks[q][s]
    \/ q = p /\ marks'[q][s].section = c /\ marks'[q][s].obtained <= papers[p].max

\* A write to a sheet that is there, which may change marks of its paper.
LEMMA SheetWriteKeeps ==
  ASSUME MarkOrder, Alone', NEW r \in Markers, marker[r].at \in {"save", "submit", "reopen"}, Answer(r),
         NEW p, NEW c, p = marker[r].paper, c = marker[r].section,
         NEW row \in SheetRows, sheets' = [sheets EXCEPT ![p][c] = row],
         UNCHANGED <<exam, papers, office, told, today, enrolled>>,
         marks' \in [Papers -> [Students -> MarkRows \cup {NoMark}]],
         MarksWritten(p, c)
  PROVE  MarkOrder'
<1>1. p \in DOMAIN papers /\ p \in Papers /\ c \in Sections /\ sheets[p][c] # NoSheet
  BY DEF MarkOrder, MarkerFound, ExamShape
<1>2. /\ sheets' \in [Papers -> [Sections -> SheetRows \cup {NoSheet}]] /\ sheets'[p][c] # NoSheet
      /\ \A q \in Papers, d \in Sections : sheets[q][d] # NoSheet => sheets'[q][d] # NoSheet
      /\ \A q \in Papers \ {p} : sheets'[q] = sheets[q]
  <2>1. SheetShape
    BY DEF MarkOrder
  <2>2. p \in Papers /\ c \in Sections /\ row \in SheetRows /\ sheets' = [sheets EXCEPT ![p][c] = row]
    BY <1>1
  <2>3. row # NoSheet
    BY MarkNamesAssumption
  <2>4. sheets' \in [Papers -> [Sections -> SheetRows \cup {NoSheet}]]
    BY <2>1, <2>2 DEF SheetShape
  <2>5. sheets'[p][c] = row /\ \A q \in Papers, d \in Sections : sheets'[q][d] \in {sheets[q][d], row}
    BY <2>1, <2>2 DEF SheetShape
  <2>6. \A q \in Papers \ {p} : sheets'[q] = sheets[q]
    BY <2>1, <2>2 DEF SheetShape
  <2> QED BY <2>3, <2>4, <2>5, <2>6
<1>3. exam'.status \in MarkingStatuses
  BY <1>1, SheetTouched
<1>4. SheetMeansMarking'
  BY <1>3 DEF SheetMeansMarking, MarkingStatuses
<1>5. MarksOnSheets'
  <2>1. \A q \in Papers \ DOMAIN papers' : ~HasSheet(q)'
    BY <1>1, <1>2 DEF MarkOrder, MarksOnSheets, HasSheet
  <2>2. ASSUME NEW q \in Papers, NEW s \in Students, marks'[q][s] # NoMark
        PROVE  sheets'[q][marks'[q][s].section] # NoSheet
    <3>1. CASE marks'[q][s] = marks[q][s]
      <4>1. marks[q][s].section \in Sections /\ sheets[q][marks[q][s].section] # NoSheet
        BY <2>2, <3>1, SheetMarkOnIsARow DEF MarkOrder, MarksOnSheets
      <4> QED BY <1>2, <3>1, <4>1
    <3>2. CASE q = p /\ marks'[q][s].section = c
      BY <1>2, <3>2
    <3> QED BY <3>1, <3>2 DEF MarksWritten
  <2> QED BY <2>1, <2>2 DEF MarksOnSheets
<1>6. MarksFitPaper'
  <2> SUFFICES ASSUME NEW q \in DOMAIN papers', NEW s \in Students, marks'[q][s] # NoMark
               PROVE  marks'[q][s].obtained <= papers'[q].max
    BY DEF MarksFitPaper
  <2>1. q \in Papers
    BY DEF MarkOrder, ExamShape
  <2> QED BY <2>1 DEF MarkOrder, MarksFitPaper, MarksWritten
<1>7. MarkerFound(Resting)' /\ marker[r] # Resting
  BY RestIsIdle DEF MarkerFound
<1>8. exam' \in ExamRow
  BY DEF MarkOrder, ExamShape
<1> QED BY <1>2, <1>4, <1>5, <1>6, <1>7, <1>8, MarkerStepKeeps DEF Answer

LEMMA SaveMarksKeeps ==
  ASSUME MarkOrder, Alone', NEW r \in Markers, SaveMarks(r)
  PROVE  MarkOrder'
<1>1. PICK t : t = marker[r] /\ MarkerFound(t) /\ t.at = "save"
  BY DEF SaveMarks, MarkOrder
<1>2. t.paper \in DOMAIN papers /\ t.section \in Sections /\ sheets[t.paper][t.section] # NoSheet
  BY <1>1 DEF MarkerFound
<1>3. PICK row \in SheetRows : sheets' = [sheets EXCEPT ![t.paper][t.section] = row]
  <2>1. sheets' = [sheets EXCEPT ![t.paper][t.section] = Touched(@)]
    BY <1>1 DEF SaveMarks
  <2>2. Touched(sheets[t.paper][t.section]) \in SheetRows
    BY <1>2, SheetTouched
  <2> QED BY <2>1, <2>2
<1>4. t.paper \in Papers
  BY <1>2 DEF MarkOrder, ExamShape
<1> DEFINE new == [s \in Students |-> IF s \in DOMAIN t.rows
                                      THEN MarkRow(t.section, t.rows[s].status, t.rows[s].obtained)
                                      ELSE marks[t.paper][s]]
<1>5. marks' = [marks EXCEPT ![t.paper] = new]
  BY <1>1, <1>4 DEF SaveMarks, MarkOrder, SheetShape
<1>6. ASSUME NEW s \in DOMAIN t.rows
      PROVE  /\ MarkRow(t.section, t.rows[s].status, t.rows[s].obtained) \in MarkRows
             /\ MarkRow(t.section, t.rows[s].status, t.rows[s].obtained).section = t.section
             /\ MarkRow(t.section, t.rows[s].status, t.rows[s].obtained).obtained <= papers[t.paper].max
  <2>1. t.rows[s] \in MarkInputs /\ t.rows[s].obtained <= papers[t.paper].max
    BY <1>1 DEF MarkerFound
  <2>2. MarkRow(t.section, t.rows[s].status, t.rows[s].obtained) \in MarkRows
    BY <1>2, <2>1 DEF MarkRows
  <2> QED BY <2>1, <2>2 DEF MarkRow
<1>7. new \in [Students -> MarkRows \cup {NoMark}]
  BY <1>4, <1>6 DEF MarkOrder, SheetShape
<1>8. ASSUME NEW s \in Students
      PROVE  \/ new[s] = marks[t.paper][s]
             \/ new[s].section = t.section /\ new[s].obtained <= papers[t.paper].max
  <2>1. CASE s \in DOMAIN t.rows
    <3>1. new[s] = MarkRow(t.section, t.rows[s].status, t.rows[s].obtained)
      BY <2>1
    <3> HIDE DEF new
    <3> QED BY <1>6, <2>1, <3>1
  <2>2. CASE s \notin DOMAIN t.rows
    BY <2>2
  <2> QED BY <2>1, <2>2
<1> HIDE DEF new
<1>9. marks' \in [Papers -> [Students -> MarkRows \cup {NoMark}]]
  BY <1>4, <1>5, <1>7 DEF MarkOrder, SheetShape
<1>10. MarksWritten(t.paper, t.section)
  BY <1>4, <1>5, <1>8 DEF MarkOrder, SheetShape, MarksWritten
<1>11. Answer(r) /\ UNCHANGED <<exam, papers, office, told, today, enrolled>>
  BY DEF SaveMarks
<1>12. marker[r].at \in {"save", "submit", "reopen"} /\ t.paper = marker[r].paper
       /\ t.section = marker[r].section
  BY <1>1
<1> QED BY <1>3, <1>9, <1>10, <1>11, <1>12, SheetWriteKeeps

LEMMA SubmitKeeps ==
  ASSUME MarkOrder, Alone', NEW r \in Markers, Submit(r) \/ Reopen(r)
  PROVE  MarkOrder'
<1>1. PICK t : t = marker[r] /\ MarkerFound(t) /\ t.at \in {"submit", "reopen"}
  BY DEF Submit, Reopen, MarkOrder
<1>2. t.paper \in DOMAIN papers /\ t.section \in Sections /\ sheets[t.paper][t.section] # NoSheet
  BY <1>1 DEF MarkerFound
<1>3. PICK row \in SheetRows : sheets' = [sheets EXCEPT ![t.paper][t.section] = row]
  <2>1. CASE Submit(r)
    <3>1. sheets' = [sheets EXCEPT ![t.paper][t.section] = [Touched(@) EXCEPT !.status = "SUBMITTED"]]
      BY <1>1, <2>1 DEF Submit
    <3>2. [Touched(sheets[t.paper][t.section]) EXCEPT !.status = "SUBMITTED"] \in SheetRows
      BY <1>2, SheetTouched
    <3> QED BY <3>1, <3>2
  <2>2. CASE Reopen(r)
    <3>1. sheets' = [sheets EXCEPT ![t.paper][t.section] = [Touched(@) EXCEPT !.reopened = t.until]]
      BY <1>1, <2>2 DEF Reopen
    <3>2. t.until \in 0 .. LastDay
      BY <1>1, <2>2 DEF Reopen, MarkerFound
    <3>3. [Touched(sheets[t.paper][t.section]) EXCEPT !.reopened = t.until] \in SheetRows
      BY <1>2, <3>2, SheetTouched
    <3> QED BY <3>1, <3>3
  <2> QED BY <2>1, <2>2
<1>4. Answer(r) /\ UNCHANGED <<exam, papers, office, told, today, enrolled, marks>>
  BY DEF Submit, Reopen
<1>5. marks' \in [Papers -> [Students -> MarkRows \cup {NoMark}]]
  BY <1>4 DEF MarkOrder, SheetShape
<1>6. MarksWritten(t.paper, t.section)
  BY <1>4 DEF MarksWritten
<1> QED BY <1>1, <1>3, <1>4, <1>5, <1>6, SheetWriteKeeps

LEMMA OpenSheetKeeps ==
  ASSUME MarkOrder, Alone', NEW r \in Markers, OpenSheet(r)
  PROVE  MarkOrder'
<1>1. PICK t : t = marker[r] /\ MarkerFound(t) /\ t.at = "open"
  BY DEF OpenSheet, MarkOrder
<1>2. t.paper \in DOMAIN papers /\ t.section \in Sections /\ t.paper \in Papers
      /\ exam.status \in {"SCHEDULED", "MARKS_ENTRY"} /\ t.examStatus = exam.status
  BY <1>1 DEF MarkerFound, MarkOrder, ExamShape
<1>3. NewSheet \in SheetRows
  BY DEF NewSheet, SheetRows
<1>4. sheets' = [sheets EXCEPT ![t.paper][t.section] = NewSheet]
  BY <1>1 DEF OpenSheet
<1>5. /\ sheets' \in [Papers -> [Sections -> SheetRows \cup {NoSheet}]]
      /\ sheets'[t.paper][t.section] # NoSheet
      /\ \A q \in Papers, d \in Sections : sheets[q][d] # NoSheet => sheets'[q][d] # NoSheet
      /\ \A q \in Papers \ {t.paper} : sheets'[q] = sheets[q]
  <2>1. SheetShape
    BY DEF MarkOrder
  <2>2. NewSheet # NoSheet
    BY <1>3, MarkNamesAssumption
  <2>3. sheets' \in [Papers -> [Sections -> SheetRows \cup {NoSheet}]]
    BY <1>2, <1>3, <1>4, <2>1 DEF SheetShape
  <2>4. /\ sheets'[t.paper][t.section] = NewSheet
        /\ \A q \in Papers, d \in Sections : sheets'[q][d] \in {sheets[q][d], NewSheet}
    BY <1>2, <1>4, <2>1 DEF SheetShape
  <2>5. \A q \in Papers \ {t.paper} : sheets'[q] = sheets[q]
    BY <1>2, <1>4, <2>1 DEF SheetShape
  <2> QED BY <2>2, <2>3, <2>4, <2>5
<1>6. exam' \in ExamRow /\ exam'.status = "MARKS_ENTRY"
  <2>1. exam' = ExamOnceOpened(t) /\ exam \in ExamRow
    BY <1>1 DEF OpenSheet, MarkOrder, ExamShape
  <2>2. [exam EXCEPT !.status = "MARKS_ENTRY"] \in ExamRow
        /\ [exam EXCEPT !.status = "MARKS_ENTRY"].status = "MARKS_ENTRY"
    BY <2>1 DEF ExamRow, ExamStatuses
  <2> QED BY <1>2, <2>1, <2>2 DEF ExamOnceOpened
<1> DEFINE new == [s \in Students |-> IF s \in t.roster THEN Unmarked(t.section) ELSE marks[t.paper][s]]
<1>7. marks' = [marks EXCEPT ![t.paper] = new]
  BY <1>1, <1>2 DEF OpenSheet, MarkOrder, SheetShape
<1>8. /\ Unmarked(t.section) \in MarkRows /\ Unmarked(t.section).section = t.section
      /\ Unmarked(t.section).obtained = -1
  <2> DEFINE m == [status |-> "PENDING", obtained |-> Nothing]
  <2>1. Unmarked(t.section) = MarkRow(t.section, m.status, m.obtained)
    BY DEF Unmarked
  <2>2. m \in MarkInputs \cup {[status |-> "PENDING", obtained |-> Nothing]}
    OBVIOUS
  <2> HIDE DEF m
  <2>3. Unmarked(t.section) \in MarkRows
    BY <1>2, <2>1, <2>2 DEF MarkRows
  <2> QED BY <2>3 DEF Unmarked, MarkRow, Nothing
<1>9. new \in [Students -> MarkRows \cup {NoMark}]
  BY <1>2, <1>8 DEF MarkOrder, SheetShape
<1>10. \A s \in Students : new[s] \in {marks[t.paper][s], Unmarked(t.section)}
  OBVIOUS
<1> HIDE DEF new
<1>11. marks' \in [Papers -> [Students -> MarkRows \cup {NoMark}]]
  BY <1>2, <1>7, <1>9 DEF MarkOrder, SheetShape
<1>12. \A q \in Papers, s \in Students :
         marks'[q][s] = marks[q][s] \/ (q = t.paper /\ marks'[q][s] = Unmarked(t.section))
  BY <1>2, <1>7, <1>10 DEF MarkOrder, SheetShape
<1>13. Answer(r) /\ UNCHANGED <<papers, office, told, today, enrolled>>
  BY DEF OpenSheet
<1>14. SheetMeansMarking'
  BY <1>6 DEF SheetMeansMarking
<1>15. MarksOnSheets'
  <2>1. \A q \in Papers \ DOMAIN papers' : ~HasSheet(q)'
    BY <1>2, <1>5, <1>13 DEF MarkOrder, MarksOnSheets, HasSheet
  <2>2. ASSUME NEW q \in Papers, NEW s \in Students, marks'[q][s] # NoMark
        PROVE  sheets'[q][marks'[q][s].section] # NoSheet
    <3>1. CASE marks'[q][s] = marks[q][s]
      <4>1. marks[q][s].section \in Sections /\ sheets[q][marks[q][s].section] # NoSheet
        BY <2>2, <3>1, SheetMarkOnIsARow DEF MarkOrder, MarksOnSheets
      <4> QED BY <1>5, <3>1, <4>1
    <3>2. CASE q = t.paper /\ marks'[q][s] = Unmarked(t.section)
      BY <1>5, <1>8, <3>2
    <3> QED BY <1>12, <3>1, <3>2
  <2> QED BY <2>1, <2>2 DEF MarksOnSheets
<1>16. MarksFitPaper'
  <2> SUFFICES ASSUME NEW q \in DOMAIN papers', NEW s \in Students, marks'[q][s] # NoMark
               PROVE  marks'[q][s].obtained <= papers'[q].max
    BY DEF MarksFitPaper
  <2>1. q \in DOMAIN papers /\ q \in Papers /\ papers'[q] = papers[q] /\ papers[q] \in PaperForms
    BY <1>13 DEF MarkOrder, ExamShape
  <2>2. papers[q].max \in Nat
    BY <2>1, PaperFormsAssumption
  <2>3. CASE marks'[q][s] = marks[q][s]
    BY <2>1, <2>3 DEF MarkOrder, MarksFitPaper
  <2>4. CASE marks'[q][s] = Unmarked(t.section)
    BY <1>8, <2>1, <2>2, <2>4
  <2> QED BY <1>12, <2>1, <2>3, <2>4
<1>17. MarkerFound(Resting)' /\ marker[r] # Resting
  BY <1>1, RestIsIdle DEF MarkerFound
<1> QED BY <1>5, <1>6, <1>11, <1>13, <1>14, <1>15, <1>16, <1>17, MarkerStepKeeps DEF Answer

---------------------------------------------------------------------------
\* The day, and the students.

LEMMA TickKeeps == ASSUME MarkOrder, Tick PROVE MarkOrder'
<1>1. UNCHANGED <<exam, papers, sheets, office, told, enrolled, marks, marker>> /\ today' \in 0 .. LastDay
  BY MarkBoundsAssumption DEF Tick, examVars, MarkOrder, SheetShape
<1>2. ExamShape' /\ SheetShape' /\ Alone'
  BY <1>1 DEF MarkOrder, ExamShape, CarriesItsForm, SheetShape, Alone, InFlight
<1>3. \A u \in Office : OfficeFound(office[u])'
  BY <1>1 DEF MarkOrder, OfficeFound
<1>4. \A r \in Markers : MarkerFound(marker[r])'
  BY <1>1 DEF MarkOrder, MarkerFound, Roster, OnSheet
<1>5. MarksOnSheets' /\ SheetMeansMarking' /\ MarksFitPaper'
  BY <1>1 DEF MarkOrder, MarksOnSheets, SheetMeansMarking, MarksFitPaper, HasSheet
<1> QED BY <1>2, <1>3, <1>4, <1>5 DEF MarkOrder

\* One request at a time: nobody moves while one is in flight.
LEMMA MoveKeeps ==
  ASSUME MarkOrder, InFlight = {}, NEW s \in Students, NEW c \in Sections \cup {NoSection}, Move(s, c)
  PROVE  MarkOrder'
<1>1. UNCHANGED <<exam, papers, sheets, office, told, today, marks, marker>>
      /\ enrolled' \in [Students -> Sections \cup {NoSection}]
  BY DEF Move, examVars, MarkOrder, SheetShape
<1>2. ExamShape' /\ SheetShape' /\ Alone'
  BY <1>1 DEF MarkOrder, ExamShape, CarriesItsForm, SheetShape, Alone, InFlight
<1>3. \A u \in Office : OfficeFound(office[u])'
  BY <1>1 DEF MarkOrder, OfficeFound
<1>4. \A r \in Markers : MarkerFound(marker[r])'
  BY <1>1, RestersFound DEF InFlight
<1>5. MarksOnSheets' /\ SheetMeansMarking' /\ MarksFitPaper'
  BY <1>1 DEF MarkOrder, MarksOnSheets, SheetMeansMarking, MarksFitPaper, HasSheet
<1> QED BY <1>2, <1>3, <1>4, <1>5 DEF MarkOrder

LEMMA MarkOrderAtFirst == MarkInit => MarkOrder
<1> SUFFICES ASSUME MarkInit PROVE MarkOrder
  OBVIOUS
<1>1. ExamShape
  <2>1. exam \in ExamRow
    BY DeadlinesAssumption DEF MarkInit, ExamRow, ExamStatuses
  <2>2. DOMAIN papers \subseteq Papers /\ \A p \in DOMAIN papers : papers[p] \in PaperForms
    BY DEF MarkInit
  <2>3. office \in [Office -> OfficeRequest] /\ \A u \in Office : CarriesItsForm(office[u])
    BY QuietIsARequest DEF MarkInit
  <2> QED BY <2>1, <2>2, <2>3 DEF ExamShape
<1>2. SheetShape
  BY PlacesAssumption, MarkBoundsAssumption DEF MarkInit, SheetShape
<1>3. Alone /\ (\A u \in Office : OfficeFound(office[u])) /\ \A r \in Markers : MarkerFound(marker[r])
  BY RestIsIdle DEF MarkInit, Alone, InFlight, OfficeFound
<1>4. \A p \in Papers : ~HasSheet(p)
  BY DEF MarkInit, HasSheet
<1>5. MarksOnSheets /\ SheetMeansMarking /\ MarksFitPaper
  BY <1>1, <1>4 DEF MarkInit, MarksOnSheets, SheetMeansMarking, MarksFitPaper, ExamShape
<1> QED BY <1>1, <1>2, <1>3, <1>5 DEF MarkOrder

LEMMA MarkOrderIsKept == Serial /\ MarkOrder /\ [MarkNext]_allMarkVars => MarkOrder'
<1> SUFFICES ASSUME Serial, MarkOrder, [MarkNext]_allMarkVars PROVE MarkOrder'
  OBVIOUS
<1>1. CASE UNCHANGED allMarkVars
  <2>1. UNCHANGED <<exam, papers, sheets, office, told, today, enrolled, marks, marker>>
    BY <1>1 DEF allMarkVars, examVars, markVars
  <2>2. ExamShape' /\ SheetShape' /\ Alone'
    BY <2>1 DEF MarkOrder, ExamShape, CarriesItsForm, SheetShape, Alone, InFlight
  <2>3. (\A u \in Office : OfficeFound(office[u])') /\ \A r \in Markers : MarkerFound(marker[r])'
    BY <2>1 DEF MarkOrder, OfficeFound, MarkerFound, Roster, OnSheet
  <2>4. MarksOnSheets' /\ SheetMeansMarking' /\ MarksFitPaper'
    BY <2>1 DEF MarkOrder, MarksOnSheets, SheetMeansMarking, MarksFitPaper, HasSheet
  <2> QED BY <2>2, <2>3, <2>4 DEF MarkOrder
<1>2. CASE MarkNext
  <2>1. Alone' /\ (InFlight # {} => enrolled' = enrolled)
    BY <1>2 DEF MarkNext, Alone
  <2>2. ASSUME NEW u \in Office, OfficeStep(u), UNCHANGED markVars PROVE MarkOrder'
    BY <2>1, <2>2, OfficeStepInOrder
  <2>3. ASSUME NEW r \in Markers, MarkerStep(r) PROVE MarkOrder'
    BY <2>1, <2>3, MarkerBeginningsKeep, MarkRefusedKeeps, SaveMarksKeeps, SubmitKeeps, OpenSheetKeeps
       DEF MarkerStep
  <2>4. ASSUME NEW s \in Students, NEW c \in Sections \cup {NoSection}, Move(s, c) PROVE MarkOrder'
    <3>1. enrolled' # enrolled
      BY <2>4 DEF Move, MarkOrder, SheetShape
    <3> QED BY <2>1, <2>4, <3>1, MoveKeeps
  <2> QED BY <1>2, <2>2, <2>3, <2>4, TickKeeps DEF MarkNext
<1> QED BY <1>1, <1>2

---------------------------------------------------------------------------
\* One request at a time: an exam with a mark sheet is in marks entry, or finished, so
\* that the office can no longer withdraw its date sheet (openMarkSheet,
\* marks.service.ts:581; unpublishExam and the other writes of exams.service.ts look
\* for it before they write).
THEOREM SheetMeansMarkingHolds == Serial /\ MarkSpec => []SheetMeansMarking
<1> SUFFICES ASSUME Serial PROVE MarkSpec => []SheetMeansMarking
  OBVIOUS
<1>0. MarkOrder /\ [MarkNext]_allMarkVars => MarkOrder'
  BY MarkOrderIsKept
<1>1. MarkOrder => SheetMeansMarking
  BY DEF MarkOrder
<1> QED BY <1>0, <1>1, MarkOrderAtFirst, PTL DEF MarkSpec

\* One request at a time: every stored mark is one its status and its paper's maximum
\* allow, on a sheet that exists, for any papers, sections, students and forms
\* (normaliseRows of marks.service.ts; updateExamPaper lowers a maximum only while no
\* sheet exists).
THEOREM MarksFitSheetHolds == Serial /\ MarkSpec => []MarksFitSheet
<1> SUFFICES ASSUME Serial PROVE MarkSpec => []MarksFitSheet
  OBVIOUS
<1>0. MarkOrder /\ [MarkNext]_allMarkVars => MarkOrder'
  BY MarkOrderIsKept
<1>1. MarkOrder => MarksFitSheet
  <2> SUFFICES ASSUME MarkOrder PROVE MarksFitSheet
    OBVIOUS
  <2>1. ExamTypeOK
    BY ShapeMeansTypes DEF MarkOrder
  <2>2. /\ \A p \in Papers, c \in Sections : sheets[p][c] = NoSheet \/ sheets[p][c] \in SheetRows
        /\ today \in 0 .. LastDay /\ enrolled \in [Students -> Sections \cup {NoSection}]
    BY DEF MarkOrder, SheetShape
  <2>3. \A p \in Papers, s \in Students :
          marks[p][s] # NoMark =>
            marks[p][s] \in MarkRows /\ sheets[p][marks[p][s].section] # NoSheet
    BY SheetMarkOnIsARow DEF MarkOrder, MarksOnSheets
  <2>4. \A r \in Markers : marker[r].at \in {"idle", "open", "save", "submit", "reopen"}
    BY DEF MarkOrder, MarkerFound
  <2> QED BY <2>1, <2>2, <2>3, <2>4 DEF MarksFitSheet, MarkTypeOK, MarkOrder
<1> QED BY <1>0, <1>1, MarkOrderAtFirst, PTL DEF MarkSpec

\* A sheet that a step submits.
WholeWhenSubmitted ==
  \A p \in Papers, c \in Sections :
    sheets[p][c] # NoSheet /\ sheets[p][c].status = "DRAFT" /\ sheets'[p][c].status = "SUBMITTED"
      => \A s \in Roster(c) : s \in OnSheet(p, c) /\ marks[p][s].status # "PENDING"

\* Only the submission of a sheet changes the status of one that is there.
LEMMA SubmissionsAreWhole ==
  ASSUME MarkOrder, [MarkNext]_allMarkVars
  PROVE  WholeWhenSubmitted
<1> SUFFICES ASSUME NEW p \in Papers, NEW c \in Sections, sheets[p][c] # NoSheet,
                    sheets[p][c].status = "DRAFT", sheets'[p][c].status = "SUBMITTED"
             PROVE  \A s \in Roster(c) : s \in OnSheet(p, c) /\ marks[p][s].status # "PENDING"
  BY DEF WholeWhenSubmitted
<1>0. sheets \in [Papers -> [Sections -> SheetRows \cup {NoSheet}]]
  BY DEF MarkOrder, SheetShape
<1>1. PICK r \in Markers : OpenSheet(r) \/ SaveMarks(r) \/ Submit(r) \/ Reopen(r)
  <2>1. sheets' # sheets
    OBVIOUS
  <2>2. CASE \E u \in Office : OfficeStep(u)
    <3>1. UNCHANGED sheets
      BY <2>2 DEF OfficeStep, Begin, StartUpdate, StartDeadline, StartCancel, StartRestore,
            StartPublish, StartWithdraw, StartDelete, StartPaper, StartEdit, StartRemove,
            CheckConflict, SaveDates, SaveDeadline, SetStatus, SavePaper, RemovePaper,
            DeleteExam, TellClasses, LoseAnnouncement, Refused
    <3> QED BY <2>1, <3>1
  <2>3. CASE ~ \E u \in Office : OfficeStep(u)
    <3>1. PICK r \in Markers : MarkerStep(r)
      BY <2>1, <2>3 DEF MarkNext, allMarkVars, examVars, markVars, Tick, Move
    <3>2. ASSUME NEW q \in Papers, NEW d \in Sections,
                 \/ StartOpen(r, q, d) \/ StartSubmit(r, q, d)
                 \/ \E rows \in Forms, expected \in NoStamp .. MaxStamp : StartSave(r, q, d, rows, expected)
                 \/ \E until \in 0 .. LastDay : StartReopen(r, q, d, until)
          PROVE  FALSE
      BY <2>1, <3>2 DEF StartOpen, StartSubmit, StartSave, StartReopen, Request, examVars
    <3>3. ~MarkRefused(r)
      BY <2>1 DEF MarkRefused, examVars
    <3> QED BY <3>1, <3>2, <3>3 DEF MarkerStep
  <2> QED BY <2>2, <2>3
<1>2. PICK t : t = marker[r] /\ MarkerFound(t)
  BY DEF MarkOrder
<1>3. t.paper \in Papers /\ t.section \in Sections
  BY <1>1, <1>2 DEF MarkerFound, MarkOrder, ExamShape, OpenSheet, SaveMarks, Submit, Reopen
<1>4. ASSUME NEW row, sheets' = [sheets EXCEPT ![t.paper][t.section] = row]
      PROVE  sheets'[p][c] = IF p = t.paper /\ c = t.section THEN row ELSE sheets[p][c]
  BY <1>0, <1>3, <1>4
<1>5. p = t.paper /\ c = t.section
  <2>1. PICK row : sheets' = [sheets EXCEPT ![t.paper][t.section] = row]
    <3>1. CASE OpenSheet(r)
      BY <1>2, <3>1 DEF OpenSheet
    <3>2. CASE SaveMarks(r)
      BY <1>2, <3>2 DEF SaveMarks
    <3>3. CASE Submit(r)
      BY <1>2, <3>3 DEF Submit
    <3>4. CASE Reopen(r)
      BY <1>2, <3>4 DEF Reopen
    <3> QED BY <1>1, <3>1, <3>2, <3>3, <3>4
  <2> QED BY <1>4, <2>1
<1>6. sheets[p][c] \in SheetRows
  BY <1>0
<1>7. CASE Submit(r)
  <2>1. t.at = "submit"
    BY <1>2, <1>7 DEF Submit
  <2> QED BY <1>2, <1>5, <2>1 DEF MarkerFound
<1>8. ~OpenSheet(r)
  BY <1>2, <1>5 DEF OpenSheet, Openable
<1>9. CASE SaveMarks(r) \/ Reopen(r)
  <2>1. Touched(sheets[p][c]).status = "DRAFT" /\ Touched(sheets[p][c]) \in SheetRows
    BY <1>6 DEF Touched, SheetRows
  <2>2. CASE SaveMarks(r)
    <3>1. sheets' = [sheets EXCEPT ![t.paper][t.section] = Touched(sheets[p][c])]
      BY <1>2, <1>5, <2>2 DEF SaveMarks
    <3> QED BY <1>4, <1>5, <2>1, <3>1
  <2>3. CASE Reopen(r)
    <3>1. sheets' = [sheets EXCEPT ![t.paper][t.section] =
                                [Touched(sheets[p][c]) EXCEPT !.reopened = t.until]]
      BY <1>2, <1>5, <2>3 DEF Reopen
    <3>2. [Touched(sheets[p][c]) EXCEPT !.reopened = t.until].status = "DRAFT"
      BY <2>1 DEF SheetRows
    <3> QED BY <1>4, <1>5, <3>1, <3>2
  <2> QED BY <1>9, <2>2, <2>3
<1> QED BY <1>1, <1>7, <1>8, <1>9

\* One request at a time: a sheet is submitted only when every student then enrolled
\* in the section is on it, entered or absent (submitMarkSheet, marks.service.ts:1075).
THEOREM SubmittedIsWholeHolds == Serial /\ MarkSpec => SubmittedIsWhole
<1> SUFFICES ASSUME Serial PROVE MarkSpec => SubmittedIsWhole
  OBVIOUS
<1>0. MarkOrder /\ [MarkNext]_allMarkVars => MarkOrder'
  BY MarkOrderIsKept
<1>1. MarkOrder /\ [MarkNext]_allMarkVars => [WholeWhenSubmitted]_allMarkVars
  BY SubmissionsAreWhole
<1> QED BY <1>0, <1>1, MarkOrderAtFirst, PTL DEF MarkSpec, SubmittedIsWhole, WholeWhenSubmitted

---------------------------------------------------------------------------
\* The results made from the marks.

\* What a request in flight has worked out, and what the table holds.
IsResult(x) ==
  /\ x = [current |-> x.current, status |-> x.status, outcome |-> x.outcome, total |-> x.total, of |-> x.of]
  /\ x.current \in BOOLEAN

WorkedOut(t) ==
  t.at = "generate" =>
    \A s \in DOMAIN t.rows : IsResult(t.rows[s]) /\ t.rows[s].current /\ t.rows[s].status = "DRAFT"

ResultShape ==
  /\ results = [k \in DOMAIN results |-> results[k]]
  /\ \A k \in DOMAIN results : IsResult(results[k])
  /\ registrar = [g \in Registrars |-> registrar[g]]
  /\ \A g \in Registrars : WorkedOut(registrar[g])

OldOnesStand ==
  \A k \in DOMAIN results \ Current : k \in DOMAIN results' /\ results'[k] = results[k]
---------------------------------------------------------------------------
LEMMA NewRowIsAResult ==
  ASSUME NEW s PROVE IsResult(NewRow(s)) /\ NewRow(s).current /\ NewRow(s).status = "DRAFT"
<1>1. PICK a, b, c : NewRow(s) = [current |-> TRUE, status |-> "DRAFT", outcome |-> a, total |-> b, of |-> c]
  <2>1. PICK r : r = G!CalculateResult(SubjectsOf(s), Bands)
    OBVIOUS
  <2>2. NewRow(s) = [current |-> TRUE, status |-> "DRAFT", outcome |-> r.outcome, total |-> r.totalObtained,
                     of |-> r.totalMax]
    BY <2>1, Zenon DEF NewRow
  <2> QED BY <2>2, Zenon
<1> QED BY <1>1 DEF IsResult

LEMMA SupersededRow ==
  ASSUME NEW x, IsResult(x)
  PROVE  /\ IsResult([x EXCEPT !.current = FALSE]) /\ ~[x EXCEPT !.current = FALSE].current
         /\ ~x.current => [x EXCEPT !.current = FALSE] = x
<1>1. PICK a, b, c, d, e :
          a \in BOOLEAN /\ x = [current |-> a, status |-> b, outcome |-> c, total |-> d, of |-> e]
  BY DEF IsResult
<1>2. x \in [current : BOOLEAN, status : {b}, outcome : {c}, total : {d}, of : {e}] /\ x.current = a
  BY <1>1
<1>3. PICK y : y = [x EXCEPT !.current = FALSE]
  OBVIOUS
<1>4. y \in [current : {FALSE}, status : {b}, outcome : {c}, total : {d}, of : {e}]
  BY <1>2, <1>3
<1>5. y.current = FALSE /\ y = [current |-> y.current, status |-> y.status, outcome |-> y.outcome,
                               total |-> y.total, of |-> y.of]
  BY <1>4
<1>6. ASSUME ~x.current PROVE y = x
  <2>1. x \in [current : {FALSE}, status : {b}, outcome : {c}, total : {d}, of : {e}]
    <3>1. a = FALSE
      BY <1>1, <1>2, <1>6
    <3> QED BY <1>1, <3>1
  <2>2. x = [current |-> FALSE, status |-> b, outcome |-> c, total |-> d, of |-> e]
    BY <2>1
  <2>3. y = [current |-> FALSE, status |-> b, outcome |-> c, total |-> d, of |-> e]
    BY <1>4
  <2> QED BY <2>2, <2>3
<1> QED BY <1>3, <1>5, <1>6 DEF IsResult

LEMMA StatusSet ==
  ASSUME NEW x, IsResult(x), NEW st
  PROVE  /\ IsResult([x EXCEPT !.status = st]) /\ [x EXCEPT !.status = st].current = x.current
         /\ [x EXCEPT !.status = st].status = st
<1>1. PICK a, b, c, d, e :
          a \in BOOLEAN /\ x = [current |-> a, status |-> b, outcome |-> c, total |-> d, of |-> e]
  BY DEF IsResult
<1> QED BY <1>1 DEF IsResult

LEMMA AtRestWorkedOut == WorkedOut(AtRest) /\ AtRest.at = "idle"
BY DEF WorkedOut, AtRest

\* The rows a generation stores, and what becomes of the old ones.
LEMMA GenerateStores ==
  ASSUME ResultShape, NEW g \in Registrars, Generate(g), NEW t, t = registrar[g]
  PROVE  /\ DOMAIN results' = DOMAIN results \cup ((DOMAIN t.rows) \X {t.version})
         /\ \A k \in DOMAIN results :
              /\ results'[k] = IF t.had THEN [results[k] EXCEPT !.current = FALSE] ELSE results[k]
              /\ k[1] \in DOMAIN t.rows => k[2] # t.version /\ ~results'[k].current
         /\ \A k \in DOMAIN results' \ DOMAIN results :
              k[1] \in DOMAIN t.rows /\ k[2] = t.version /\ results'[k] = t.rows[k[1]]
         /\ t.at = "generate" /\ WorkedOut(t)
<1>1. PICK old : old = Superseded(t)
  OBVIOUS
<1>2. DOMAIN old = DOMAIN results
      /\ \A k \in DOMAIN results :
           old[k] = IF t.had THEN [results[k] EXCEPT !.current = FALSE] ELSE results[k]
  BY <1>1 DEF Superseded
<1>3. results' = [k \in DOMAIN results \cup ((DOMAIN t.rows) \X {t.version}) |->
                    IF k \in DOMAIN results THEN old[k] ELSE t.rows[k[1]]]
  BY <1>1, <1>2 DEF Generate
<1>4. t.at = "generate" /\ Storable(t) /\ WorkedOut(t)
  BY DEF Generate, ResultShape
<1>5. \A k \in DOMAIN results : results'[k] = old[k]
  BY <1>3
<1>6. \A k \in DOMAIN results : k[1] \in DOMAIN t.rows => k[2] # t.version /\ ~results'[k].current
  BY <1>1, <1>4, <1>5 DEF Storable
<1>7. \A k \in DOMAIN results' \ DOMAIN results :
        k[1] \in DOMAIN t.rows /\ k[2] = t.version /\ results'[k] = t.rows[k[1]]
  BY <1>3
<1> QED BY <1>2, <1>3, <1>4, <1>5, <1>6, <1>7

\* A request that is replaced by one that has worked out what it holds.
LEMMA RegistrarKept ==
  ASSUME ResultShape, NEW g \in Registrars, NEW t, WorkedOut(t), registrar' = [registrar EXCEPT ![g] = t]
  PROVE  /\ registrar' = [h \in Registrars |-> registrar'[h]]
         /\ \A h \in Registrars : WorkedOut(registrar[h])'
<1>1. \A h \in Registrars : registrar'[h] \in {registrar[h], t}
  BY DEF ResultShape
<1>2. \A h \in Registrars : WorkedOut(registrar'[h])
  BY <1>1 DEF ResultShape
<1>3. registrar' = [h \in Registrars |-> registrar'[h]]
  BY DEF ResultShape
<1> QED BY <1>2, <1>3 DEF WorkedOut

LEMMA RegistrarStepStands ==
  ASSUME ResultShape, NEW g \in Registrars, RegistrarStep(g)
  PROVE  ResultShape' /\ OldOnesStand
<1>1. ASSUME UNCHANGED results, NEW t, WorkedOut(t), registrar' = [registrar EXCEPT ![g] = t]
      PROVE  ResultShape' /\ OldOnesStand
  <2>1. OldOnesStand
    BY <1>1 DEF OldOnesStand
  <2>2. results' = [k \in DOMAIN results' |-> results'[k]] /\ \A k \in DOMAIN results' : IsResult(results'[k])
    BY <1>1 DEF ResultShape
  <2> QED BY <1>1, <2>1, <2>2, RegistrarKept DEF ResultShape, IsResult
<1>2. ASSUME NEW regenerate \in BOOLEAN, StartGenerate(g, regenerate) PROVE ResultShape' /\ OldOnesStand
  <2>1. PICK rows : rows = [s \in Eligible |-> NewRow(s)]
    OBVIOUS
  <2>2. PICK t : t = [at |-> "generate", had |-> Current # {}, version |-> NextVersion, rows |-> rows]
    OBVIOUS
  <2>3. t.at = "generate" /\ t.rows = rows /\ Receive(g, t)
    BY <1>2, <2>1, <2>2 DEF StartGenerate
  <2>4. WorkedOut(t)
    BY <2>1, <2>3, NewRowIsAResult DEF WorkedOut
  <2> QED BY <1>1, <2>3, <2>4 DEF Receive
<1>3. ASSUME NEW at \in {"publish", "unpublish"}, StartSetPublished(g, at) PROVE ResultShape' /\ OldOnesStand
  <2>1. PICK t : t = [AtRest EXCEPT !.at = at] /\ t.at = at
    <3>1. [AtRest EXCEPT !.at = at].at = at
      BY DEF AtRest
    <3> QED BY <3>1
  <2>2. WorkedOut(t) /\ Receive(g, t)
    BY <1>3, <2>1 DEF WorkedOut, StartSetPublished
  <2> QED BY <1>1, <2>2 DEF Receive
<1>4. CASE Generate(g)
  <2>1. PICK t : t = registrar[g]
    OBVIOUS
  <2>2. \A k \in DOMAIN results' : IsResult(results'[k])
    <3>1. ASSUME NEW k \in DOMAIN results PROVE IsResult(results'[k])
      <4>1. results'[k] \in {results[k], [results[k] EXCEPT !.current = FALSE]}
        BY <1>4, <2>1, GenerateStores
      <4> QED BY <4>1, SupersededRow DEF ResultShape
    <3>2. ASSUME NEW k \in DOMAIN results' \ DOMAIN results PROVE IsResult(results'[k])
      <4>1. k[1] \in DOMAIN t.rows /\ results'[k] = t.rows[k[1]] /\ t.at = "generate" /\ WorkedOut(t)
        BY <1>4, <2>1, GenerateStores
      <4> QED BY <4>1 DEF WorkedOut
    <3> QED BY <3>1, <3>2
  <2>3. OldOnesStand
    <3> SUFFICES ASSUME NEW k \in DOMAIN results, ~results[k].current
                 PROVE  k \in DOMAIN results' /\ results'[k] = results[k]
      BY DEF OldOnesStand, Current
    <3>1. k \in DOMAIN results' /\ results'[k] \in {results[k], [results[k] EXCEPT !.current = FALSE]}
      BY <1>4, <2>1, GenerateStores
    <3>2. [results[k] EXCEPT !.current = FALSE] = results[k]
      BY SupersededRow DEF ResultShape
    <3> QED BY <3>1, <3>2
  <2>4. results' = [k \in DOMAIN results' |-> results'[k]]
    BY <1>4 DEF Generate
  <2>5. registrar' = [registrar EXCEPT ![g] = AtRest]
    BY <1>4 DEF Generate, Done
  <2> QED BY <2>2, <2>3, <2>4, <2>5, AtRestWorkedOut, RegistrarKept DEF ResultShape, IsResult
<1>5. CASE GenerateRefused(g) \/ TellStudents(g) \/ TellFails(g)
  <2>1. UNCHANGED results /\ registrar' = [registrar EXCEPT ![g] = AtRest]
    BY <1>5 DEF GenerateRefused, TellStudents, TellFails, Done
  <2> QED BY <1>1, <2>1, AtRestWorkedOut
<1>6. CASE SetPublished(g)
  <2>1. PICK st : st = Target(registrar[g].at)
    OBVIOUS
  <2>2. results' = [k \in DOMAIN results |->
                      IF k \in Current THEN [results[k] EXCEPT !.status = st] ELSE results[k]]
    BY <1>6, <2>1 DEF SetPublished, Affected
  <2>3. \A k \in DOMAIN results : results'[k] \in {results[k], [results[k] EXCEPT !.status = st]}
    BY <2>2
  <2>4. \A k \in DOMAIN results' : IsResult(results'[k])
    BY <2>2, <2>3, StatusSet DEF ResultShape
  <2>5. OldOnesStand
    BY <2>2 DEF OldOnesStand
  <2>6. PICK t : t.at # "generate" /\ registrar' = [registrar EXCEPT ![g] = t]
    <3>1. [AtRest EXCEPT !.at = "tell"].at = "tell"
      BY DEF AtRest
    <3> QED BY <1>6, <3>1, AtRestWorkedOut DEF SetPublished, Done
  <2>7. WorkedOut(t) /\ results' = [k \in DOMAIN results' |-> results'[k]]
    BY <2>2, <2>6 DEF WorkedOut
  <2> QED BY <2>4, <2>5, <2>6, <2>7, RegistrarKept DEF ResultShape, IsResult
<1> QED BY <1>2, <1>3, <1>4, <1>5, <1>6 DEF RegistrarStep

LEMMA ResultsAtFirst == ResultInit => ResultShape
<1> SUFFICES ASSUME ResultInit PROVE ResultShape
  OBVIOUS
<1>1. DOMAIN results = {} /\ results = [k \in DOMAIN results |-> results[k]]
  BY DEF ResultInit
<1>2. registrar = [g \in Registrars |-> registrar[g]] /\ \A g \in Registrars : registrar[g] = AtRest
  BY DEF ResultInit
<1> QED BY <1>1, <1>2, AtRestWorkedOut DEF ResultShape

LEMMA ResultsStand == ResultShape /\ [ResultNext]_allVars => ResultShape' /\ OldOnesStand
<1> SUFFICES ASSUME ResultShape, [ResultNext]_allVars PROVE ResultShape' /\ OldOnesStand
  OBVIOUS
<1>1. CASE UNCHANGED resultVars
  BY <1>1 DEF resultVars, ResultShape, OldOnesStand, WorkedOut, IsResult
<1>2. ASSUME NEW g \in Registrars, RegistrarStep(g) PROVE ResultShape' /\ OldOnesStand
  BY <1>2, RegistrarStepStands
<1> QED BY <1>1, <1>2 DEF ResultNext, allVars

\* A result that is not current any more never changes again, nor does it become
\* current or go, however generations and publications overlap (generateResults
\* supersedes and never overwrites, setResultsPublished reaches current rows only).
THEOREM SupersededStandsHolds == ResultSpec => SupersededStands
<1>1. ResultShape /\ [ResultNext]_allVars => [OldOnesStand]_allVars
  BY ResultsStand
<1> QED BY <1>1, ResultsAtFirst, ResultsStand, PTL DEF ResultSpec, SupersededStands, OldOnesStand

---------------------------------------------------------------------------
\* One generation at a time is current. Nothing in the table says so of students who have
\* no result in common: that is why somebody has to be in all of them.

OneOut == AllOutOrNone /\ OneGenerationCurrent

\* A student who is in every generation, whatever else changes.
InAll(s) ==
  /\ Current # {} => \E k \in Current : k[1] = s
  /\ \A g \in Registrars : registrar[g].at = "generate" => s \in DOMAIN registrar[g].rows

LEMMA GenerateReplaces ==
  ASSUME ResultShape, NEW s, InAll(s), NEW g \in Registrars, Generate(g), NEW t, t = registrar[g]
  PROVE  /\ \A k \in Current' : /\ k[1] \in DOMAIN t.rows /\ k[2] = t.version
                                /\ results'[k].status = "DRAFT"
         /\ \E k \in Current' : k[1] = s
<1>1. t.at = "generate" /\ s \in DOMAIN t.rows
  BY GenerateStores DEF InAll
<1>2. ASSUME NEW k \in DOMAIN results PROVE ~results'[k].current
  <2>1. CASE t.had
    <3>1. results'[k] = [results[k] EXCEPT !.current = FALSE]
      <4>1. results'[k] = IF t.had THEN [results[k] EXCEPT !.current = FALSE] ELSE results[k]
        BY GenerateStores, Zenon
      <4> QED BY <2>1, <4>1, Zenon
    <3>2. ~[results[k] EXCEPT !.current = FALSE].current
      BY SupersededRow DEF ResultShape
    <3> QED BY <3>1, <3>2
  <2>2. CASE ~t.had /\ results[k].current
    <3>1. PICK j \in Current : j[1] = s
      BY <2>2 DEF InAll, Current
    <3>2. j \in DOMAIN results /\ results[j].current
      BY <3>1 DEF Current
    <3>3. /\ results'[j] = IF t.had THEN [results[j] EXCEPT !.current = FALSE] ELSE results[j]
          /\ j[1] \in DOMAIN t.rows => ~results'[j].current
      BY <3>2, GenerateStores, Zenon
    <3>4. results'[j] = results[j] /\ ~results'[j].current
      BY <1>1, <2>2, <3>1, <3>3
    <3> QED BY <3>2, <3>4
  <2>3. CASE ~t.had /\ ~results[k].current
    BY <2>3, GenerateStores
  <2> QED BY <2>1, <2>2, <2>3
<1>3. ASSUME NEW k \in DOMAIN results' \ DOMAIN results
      PROVE  k[1] \in DOMAIN t.rows /\ k[2] = t.version /\ results'[k].status = "DRAFT" /\ results'[k].current
  <2>1. k[1] \in DOMAIN t.rows /\ k[2] = t.version /\ results'[k] = t.rows[k[1]] /\ WorkedOut(t)
    BY GenerateStores
  <2> QED BY <1>1, <2>1 DEF WorkedOut
<1>4. <<s, t.version>> \in DOMAIN results' \ DOMAIN results
  <2>1. <<s, t.version>> \in DOMAIN results'
    BY <1>1, GenerateStores
  <2>2. <<s, t.version>> \notin DOMAIN results
    BY <1>1, GenerateStores
  <2> QED BY <2>1, <2>2
<1> QED BY <1>2, <1>3, <1>4 DEF Current

LEMMA RegistrarStepKeepsOneGeneration ==
  ASSUME ResultShape, OneOut, NEW s, InAll(s), s \in Eligible, NEW g \in Registrars, RegistrarStep(g)
  PROVE  OneOut' /\ InAll(s)'
<1>1. ASSUME UNCHANGED results, NEW t, t.at = "generate" => s \in DOMAIN t.rows,
             registrar' = [registrar EXCEPT ![g] = t]
      PROVE  OneOut' /\ InAll(s)'
  <2>1. \A h \in Registrars : registrar'[h] \in {registrar[h], t}
    BY <1>1 DEF ResultShape
  <2>2. UNCHANGED Current
    BY <1>1 DEF Current
  <2> QED BY <1>1, <2>1, <2>2 DEF InAll, OneOut, AllOutOrNone, OneGenerationCurrent
<1>2. ASSUME NEW regenerate \in BOOLEAN, StartGenerate(g, regenerate) PROVE OneOut' /\ InAll(s)'
  <2>1. PICK rows : rows = [x \in Eligible |-> NewRow(x)]
    OBVIOUS
  <2>2. PICK t : t = [at |-> "generate", had |-> Current # {}, version |-> NextVersion, rows |-> rows]
    OBVIOUS
  <2>3. s \in DOMAIN t.rows /\ Receive(g, t)
    BY <1>2, <2>1, <2>2 DEF StartGenerate
  <2> QED BY <1>1, <2>3 DEF Receive
<1>3. ASSUME NEW at \in {"publish", "unpublish"}, StartSetPublished(g, at) PROVE OneOut' /\ InAll(s)'
  <2>1. PICK t : t = [AtRest EXCEPT !.at = at] /\ t.at = at
    <3>1. [AtRest EXCEPT !.at = at].at = at
      BY DEF AtRest
    <3> QED BY <3>1
  <2>2. Receive(g, t)
    BY <1>3, <2>1 DEF StartSetPublished
  <2> QED BY <1>1, <2>1, <2>2 DEF Receive
<1>4. CASE Generate(g)
  <2>1. PICK t : t = registrar[g]
    OBVIOUS
  <2>2. /\ \A k \in Current' : k[2] = t.version /\ results'[k].status = "DRAFT"
        /\ \E k \in Current' : k[1] = s
    BY <1>4, <2>1, GenerateReplaces
  <2>3. \A h \in Registrars : registrar'[h] \in {registrar[h], AtRest}
    BY <1>4 DEF Generate, Done, ResultShape
  <2> QED BY <2>2, <2>3, AtRestWorkedOut DEF InAll, OneOut, AllOutOrNone, OneGenerationCurrent
<1>5. CASE GenerateRefused(g) \/ TellStudents(g) \/ TellFails(g)
  <2>1. UNCHANGED results /\ registrar' = [registrar EXCEPT ![g] = AtRest]
    BY <1>5 DEF GenerateRefused, TellStudents, TellFails, Done
  <2> QED BY <1>1, <2>1, AtRestWorkedOut
<1>6. CASE SetPublished(g)
  <2>1. PICK st : st = Target(registrar[g].at)
    OBVIOUS
  <2>2. results' = [k \in DOMAIN results |->
                      IF k \in Current THEN [results[k] EXCEPT !.status = st] ELSE results[k]]
    BY <1>6, <2>1 DEF SetPublished, Affected
  <2>3. \A k \in DOMAIN results : results'[k].current = results[k].current
    BY <2>2, StatusSet DEF ResultShape
  <2>4. Current' = Current
    BY <2>2, <2>3 DEF Current
  <2>5. \A k \in Current : results'[k].status = st
    BY <2>2, StatusSet DEF ResultShape, Current
  <2>6. PICK t : t.at # "generate" /\ registrar' = [registrar EXCEPT ![g] = t]
    <3>1. [AtRest EXCEPT !.at = "tell"].at = "tell"
      BY DEF AtRest
    <3> QED BY <1>6, <3>1, AtRestWorkedOut DEF SetPublished, Done
  <2>7. \A h \in Registrars : registrar'[h] \in {registrar[h], t}
    BY <2>6 DEF ResultShape
  <2> QED BY <2>4, <2>5, <2>6, <2>7 DEF InAll, OneOut, AllOutOrNone, OneGenerationCurrent
<1> QED BY <1>2, <1>3, <1>4, <1>5, <1>6 DEF RegistrarStep

---------------------------------------------------------------------------
\* What the columns hold.
\* What a row is by the CHECKs of the table, and what a request holds that will be one.
Outcomes == {"PASS", "FAIL", "INCOMPLETE"}

IsRow(x) == x.outcome \in Outcomes /\ x.status \in {"DRAFT", "PUBLISHED"} /\ 0 <= x.total /\ x.total <= x.of

InBounds(t) ==
  /\ t.at = "generate" =>
       /\ t.version \in Int /\ t.version <= MaxVersion /\ DOMAIN t.rows \subseteq Students
       /\ \A s \in DOMAIN t.rows : t.rows[s].outcome \in Outcomes

ResultBounds ==
  /\ DOMAIN results \subseteq Students \X (1 .. MaxVersion)
  /\ \A k \in DOMAIN results : IsRow(results[k])
  /\ announced \subseteq Students
  /\ \A g \in Registrars : InBounds(registrar[g])

LEMMA OutcomeOfAResult ==
  ASSUME NEW subjects, NEW bands PROVE G!CalculateResult(subjects, bands).outcome \in Outcomes
BY DEF G!CalculateResult, Outcomes

LEMMA NewRowOutcome == ASSUME NEW s PROVE NewRow(s).outcome \in Outcomes
<1>1. PICK r : r = G!CalculateResult(SubjectsOf(s), Bands)
  OBVIOUS
<1>2. r.outcome \in Outcomes
  BY <1>1, OutcomeOfAResult, Zenon
<1>3. NewRow(s) = [current |-> TRUE, status |-> "DRAFT", outcome |-> r.outcome, total |-> r.totalObtained,
                   of |-> r.totalMax]
  BY <1>1, Zenon DEF NewRow
<1> QED BY <1>2, <1>3

LEMMA AtRestInBounds == InBounds(AtRest)
BY DEF InBounds, AtRest

\* One generation at most is current, so there is a highest version.
LEMMA NextVersionBounds ==
  ASSUME ResultBounds, OneGenerationCurrent
  PROVE  NextVersion \in Int /\ NextVersion - 1 \in 0 .. MaxVersion
<1>1. Versions \subseteq 1 .. MaxVersion
  BY DEF Versions, Current, ResultBounds
<1>2. \A v, w \in Versions : v = w
  BY DEF Versions, OneGenerationCurrent
<1>3. \E v \in {0} \cup Versions : \A w \in Versions : w <= v
  <2>1. CASE Versions = {}
    BY <2>1
  <2>2. ASSUME NEW v \in Versions PROVE \A w \in Versions : w <= v
    BY <1>1, <1>2
  <2> QED BY <2>1, <2>2
<1>4. PICK m : m = CHOOSE v \in {0} \cup Versions : \A w \in Versions : w <= v
  OBVIOUS
<1>5. m \in {0} \cup Versions
  BY <1>3, <1>4, Zenon
<1>6. m \in 0 .. MaxVersion
  BY <1>1, <1>5, ResultsAssumption
<1>7. NextVersion = 1 + m
  BY <1>4, Zenon DEF NextVersion
<1> QED BY <1>6, <1>7, ResultsAssumption

LEMMA RowOnceSuperseded == ASSUME NEW x, IsResult(x), IsRow(x) PROVE IsRow([x EXCEPT !.current = FALSE])
<1>1. PICK a, b, c, d, e :
          a \in BOOLEAN /\ x = [current |-> a, status |-> b, outcome |-> c, total |-> d, of |-> e]
  BY DEF IsResult
<1> QED BY <1>1 DEF IsRow

LEMMA RowOnceSet ==
  ASSUME NEW x, IsResult(x), IsRow(x), NEW st \in {"DRAFT", "PUBLISHED"} PROVE IsRow([x EXCEPT !.status = st])
<1>1. PICK a, b, c, d, e :
          a \in BOOLEAN /\ x = [current |-> a, status |-> b, outcome |-> c, total |-> d, of |-> e]
  BY DEF IsResult
<1> QED BY <1>1 DEF IsRow

LEMMA BoundsAtFirst == ResultInit => ResultBounds
<1> SUFFICES ASSUME ResultInit PROVE ResultBounds
  OBVIOUS
<1>1. DOMAIN results = {} /\ \A g \in Registrars : registrar[g] = AtRest
  BY DEF ResultInit
<1>2. announced \subseteq Students
  BY DEF ResultInit
<1> QED BY <1>1, <1>2, AtRestInBounds DEF ResultBounds

LEMMA RegistrarStepBounds ==
  ASSUME ResultShape, ResultBounds, OneGenerationCurrent, NEW g \in Registrars, RegistrarStep(g)
  PROVE  ResultBounds'
<1>1. ASSUME NEW t, InBounds(t), registrar' = [registrar EXCEPT ![g] = t]
      PROVE  \A h \in Registrars : InBounds(registrar[h])'
  <2>1. \A h \in Registrars : registrar'[h] \in {registrar[h], t}
    BY <1>1 DEF ResultShape
  <2>2. \A h \in Registrars : InBounds(registrar'[h])
    BY <1>1, <2>1 DEF ResultBounds
  <2> QED BY <2>2 DEF InBounds
<1>2. ASSUME UNCHANGED <<results, announced>>, NEW t, InBounds(t), registrar' = [registrar EXCEPT ![g] = t]
      PROVE  ResultBounds'
  <2>1. \A h \in Registrars : InBounds(registrar[h])'
    BY <1>1, <1>2
  <2> QED BY <1>2, <2>1 DEF ResultBounds, IsRow
<1>3. ASSUME NEW regenerate \in BOOLEAN, StartGenerate(g, regenerate) PROVE ResultBounds'
  <2>1. PICK rows : rows = [s \in Eligible |-> NewRow(s)]
    OBVIOUS
  <2>2. PICK n : n = NextVersion
    OBVIOUS
  <2>3. PICK t : t = [at |-> "generate", had |-> Current # {}, version |-> n, rows |-> rows]
    OBVIOUS
  <2>4. t.at = "generate" /\ t.rows = rows /\ t.version = n /\ Receive(g, t) /\ n <= MaxVersion
    BY <1>3, <2>1, <2>2, <2>3 DEF StartGenerate
  <2>5. n \in Int
    BY <2>2, NextVersionBounds
  <2>6. DOMAIN rows \subseteq Students /\ \A s \in DOMAIN rows : rows[s].outcome \in Outcomes
    BY <2>1, NewRowOutcome DEF Eligible
  <2> QED BY <1>2, <2>4, <2>5, <2>6 DEF Receive, InBounds
<1>4. ASSUME NEW at \in {"publish", "unpublish"}, StartSetPublished(g, at) PROVE ResultBounds'
  <2>1. PICK t : t = [AtRest EXCEPT !.at = at] /\ t.at = at
    <3>1. [AtRest EXCEPT !.at = at].at = at
      BY DEF AtRest
    <3> QED BY <3>1
  <2>2. InBounds(t) /\ Receive(g, t)
    BY <1>4, <2>1 DEF InBounds, StartSetPublished
  <2> QED BY <1>2, <2>2 DEF Receive
<1>5. CASE Generate(g)
  <2>1. PICK t : t = registrar[g]
    OBVIOUS
  <2>2. Storable(t) /\ UNCHANGED announced /\ registrar' = [registrar EXCEPT ![g] = AtRest]
    BY <1>5, <2>1 DEF Generate, Done
  <2>3. Sane(t) /\ InBounds(t) /\ t.at = "generate" /\ WorkedOut(t)
    BY <1>5, <2>1, <2>2, GenerateStores DEF Storable, ResultBounds
  <2>4. t.version \in 1 .. MaxVersion
    BY <2>3, ResultsAssumption DEF Sane, InBounds
  <2>5. DOMAIN results' \subseteq Students \X (1 .. MaxVersion)
    <3>1. DOMAIN results' = DOMAIN results \cup ((DOMAIN t.rows) \X {t.version})
      BY <1>5, <2>1, GenerateStores
    <3> QED BY <2>3, <2>4, <3>1 DEF ResultBounds, InBounds
  <2>6. ASSUME NEW k \in DOMAIN results PROVE IsRow(results'[k])
    <3>1. results'[k] \in {results[k], [results[k] EXCEPT !.current = FALSE]}
      BY <1>5, <2>1, GenerateStores
    <3> QED BY <3>1, RowOnceSuperseded DEF ResultShape, ResultBounds
  <2>7. ASSUME NEW k \in DOMAIN results' \ DOMAIN results PROVE IsRow(results'[k])
    <3>1. k[1] \in DOMAIN t.rows /\ results'[k] = t.rows[k[1]]
      BY <1>5, <2>1, GenerateStores
    <3> QED BY <2>3, <3>1 DEF IsRow, Sane, InBounds, WorkedOut
  <2>8. \A k \in DOMAIN results' : IsRow(results'[k])
    BY <2>6, <2>7
  <2>9. \A h \in Registrars : InBounds(registrar[h])'
    BY <1>1, <2>2, AtRestInBounds
  <2> QED BY <2>2, <2>5, <2>8, <2>9 DEF ResultBounds, IsRow
<1>6. CASE GenerateRefused(g)
  <2>1. UNCHANGED <<results, announced>> /\ registrar' = [registrar EXCEPT ![g] = AtRest]
    BY <1>6 DEF GenerateRefused, Done
  <2> QED BY <1>2, <2>1, AtRestInBounds
<1>7. CASE SetPublished(g)
  <2>1. PICK st \in {"DRAFT", "PUBLISHED"} : st = Target(registrar[g].at)
    BY DEF Target
  <2>2. results' = [k \in DOMAIN results |->
                      IF k \in Current THEN [results[k] EXCEPT !.status = st] ELSE results[k]]
    BY <1>7, <2>1 DEF SetPublished, Affected
  <2>3. \A k \in DOMAIN results : results'[k] \in {results[k], [results[k] EXCEPT !.status = st]}
    BY <2>2
  <2>4. \A k \in DOMAIN results' : IsRow(results'[k])
    BY <2>2, <2>3, RowOnceSet DEF ResultShape, ResultBounds
  <2>6. PICK t : t = [AtRest EXCEPT !.at = "tell"]
    OBVIOUS
  <2>7. InBounds(t)
    <3>1. t.at = "tell"
      BY <2>6 DEF AtRest
    <3> QED BY <3>1 DEF InBounds
  <2>8. PICK u \in {t, AtRest} : registrar' = [registrar EXCEPT ![g] = u]
    BY <1>7, <2>6 DEF SetPublished, Done
  <2>9. \A h \in Registrars : InBounds(registrar[h])'
    BY <1>1, <2>7, <2>8, AtRestInBounds
  <2>10. UNCHANGED announced /\ DOMAIN results' = DOMAIN results
    BY <1>7, <2>2 DEF SetPublished
  <2> QED BY <2>4, <2>9, <2>10 DEF ResultBounds, IsRow
<1>8. CASE TellStudents(g) \/ TellFails(g)
  <2>1. UNCHANGED results /\ registrar' = [registrar EXCEPT ![g] = AtRest]
    BY <1>8 DEF TellStudents, TellFails, Done
  <2>3. announced' \subseteq Students
    BY <1>8 DEF TellStudents, TellFails, ResultBounds
  <2>4. \A h \in Registrars : InBounds(registrar[h])'
    BY <1>1, <2>1, AtRestInBounds
  <2> QED BY <2>1, <2>3, <2>4 DEF ResultBounds, IsRow
<1> QED BY <1>3, <1>4, <1>5, <1>6, <1>7, <1>8 DEF RegistrarStep

LEMMA BoundsStand ==
  ResultShape /\ ResultBounds /\ OneGenerationCurrent /\ [ResultNext]_allVars => ResultBounds'
<1> SUFFICES ASSUME ResultShape, ResultBounds, OneGenerationCurrent, [ResultNext]_allVars PROVE ResultBounds'
  OBVIOUS
<1>1. CASE UNCHANGED resultVars
  BY <1>1 DEF resultVars, ResultBounds, InBounds, IsRow
<1>2. ASSUME NEW g \in Registrars, RegistrarStep(g) PROVE ResultBounds'
  BY <1>2, RegistrarStepBounds
<1> QED BY <1>1, <1>2 DEF ResultNext, allVars

LEMMA BoundsAreTypes == ResultShape /\ ResultBounds => ResultTypeOK
BY DEF ResultShape, ResultBounds, IsResult, IsRow, Outcomes, ResultTypeOK

---------------------------------------------------------------------------
\* As long as one student of the exam stays on: the results that are current are one
\* generation's, and all of them are out or none is, however generations, publications,
\* marks and moves overlap (generateResults over the index of one current result per
\* student, results.service.ts:713; setResultsPublished, results.service.ts:932). And every
\* row is one the table can hold, of a version that was to be had.
THEOREM OneGenerationOutHolds ==
  ASSUME NEW s \in Students
  PROVE  ResultSpec /\ [](s \in Eligible) => []OneGenerationOut
<1>1. ResultInit => OneOut /\ InAll(s)
  <2> SUFFICES ASSUME ResultInit PROVE OneOut /\ InAll(s)
    OBVIOUS
  <2>1. Current = {} /\ \A g \in Registrars : registrar[g] = AtRest
    BY DEF ResultInit, Current
  <2> QED BY <2>1, AtRestWorkedOut DEF InAll, OneOut, AllOutOrNone, OneGenerationCurrent
<1>2. ResultShape /\ OneOut /\ InAll(s) /\ s \in Eligible /\ [ResultNext]_allVars
        => OneOut' /\ InAll(s)'
  <2> SUFFICES ASSUME ResultShape, OneOut, InAll(s), s \in Eligible, [ResultNext]_allVars
               PROVE  OneOut' /\ InAll(s)'
    OBVIOUS
  <2>1. CASE UNCHANGED resultVars
    BY <2>1 DEF resultVars, InAll, OneOut, AllOutOrNone, OneGenerationCurrent, Current
  <2>2. ASSUME NEW g \in Registrars, RegistrarStep(g) PROVE OneOut' /\ InAll(s)'
    BY <2>2, RegistrarStepKeepsOneGeneration
  <2> QED BY <2>1, <2>2 DEF ResultNext, allVars
<1>3. ResultBounds /\ ResultShape /\ OneOut => OneGenerationOut
  BY BoundsAreTypes DEF OneOut, OneGenerationOut
<1>4. ResultBounds /\ ResultShape /\ OneOut /\ [ResultNext]_allVars => ResultBounds'
  BY BoundsStand DEF OneOut
<1> QED BY <1>1, <1>2, <1>3, <1>4, ResultsAtFirst, ResultsStand, BoundsAtFirst, PTL DEF ResultSpec
==============================================================================
