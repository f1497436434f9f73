--------------------------- MODULE TeachingProofs ----------------------------
(***************************************************************************)
(* For any sections, lecturers, rooms, days, lessons, years and requests:  *)
(* the timetable stands, the day's register is kept, and academic years    *)
(* hold together. The inductive invariants say of a request in flight that *)
(* nothing overtook what its check has found: no clash, and for an update  *)
(* a lesson that is still on; that the register may be opened or           *)
(* corrected; that the year it deletes is not the current one. Whatever    *)
(* changes makes every other request in flight late.                       *)
(***************************************************************************)
EXTENDS Timetable, AttendanceRegisters, AcademicSessions, StaffRegister,
        FiniteSetTheorems, TLAPS

LessonRows ==
  [over : SUBSET Classes, subject : Subjects, staff : Lecturers, room : Rooms, day : Days,
   rows : SUBSET Classes, active : BOOLEAN]

\* The requests a planner may have in flight.
Creates == [op : {"create"}, p : Entries, late : BOOLEAN]
Updates == [op : {"update"}, l : Periods, p : Entries, late : BOOLEAN]
Removes == [op : {"remove"}, l : Periods, late : BOOLEAN]
Clears == [op : {"clear"}, gone : SUBSET Periods, todo : SUBSET Entries, late : BOOLEAN]
Copies == [op : {"copy"}, todo : SUBSET Entries, late : BOOLEAN]
Places == [op : {"place"}, p : Entries, todo : SUBSET Entries, late : BOOLEAN]
Plans == {NoPlan} \cup Creates \cup Updates \cup Removes \cup Clears \cup Copies \cup Places

\* The lessons are what somebody wanted, on some day.
LessonShape ==
  /\ DOMAIN lessons \subseteq Periods /\ lessons \in [DOMAIN lessons -> LessonRows]
  /\ \A l \in DOMAIN lessons : Entry(lessons[l], lessons[l].day) \in Entries

PlanShape ==
  /\ plan \in [Planners -> Plans] /\ assigned \subseteq Needed
  /\ refusal \in BOOLEAN /\ overrun \in BOOLEAN

\* A lesson that is on has all its rows; one that is off has none, as long as
\* nobody has written over another.
RowsOfTheActive == \A l \in Active : lessons[l].rows = lessons[l].over
NoRowsOfTheRest == \A l \in DOMAIN lessons \ Active : lessons[l].rows = {}

\* What a request that is not late has found is still so.
PlansKnow ==
  \A r \in Planners :
    LET t == plan[r]
    IN  /\ t.op = "update" => t.l \in DOMAIN lessons
        /\ t.op \in {"create", "place"} /\ ~t.late => Clashes(t.p, "new") = {}
        /\ t.op = "update" /\ ~t.late => t.l \in Active /\ Clashes(t.p, t.l) = {}

LessonsStand == LessonShape /\ RowsOfTheActive /\ NobodyInTwoPlaces

WeekInvariant ==
  /\ LessonsStand /\ PlanShape /\ PlansKnow
  /\ ~overrun => NoRowsOfTheRest /\ ~refusal

---------------------------------------------------------------------------
\* What a lesson's row says of it.
LEMMA EntryFields ==
  ASSUME NEW p \in Entries
  PROVE  /\ p.over \in SUBSET Classes /\ p.subject \in Subjects /\ p.staff \in Lecturers
         /\ p.room \in Rooms /\ p.day \in Days
         /\ Entry(p, p.day) = p
         /\ \A d \in Days : Entry(p, d) \in Entries
BY PlannerAssumption DEF Entries, Entry

LEMMA LessonOfShape ==
  ASSUME NEW p \in Entries, NEW a \in BOOLEAN
  PROVE  LET x == LessonOf(p, a)
         IN  /\ x \in LessonRows /\ Entry(x, x.day) = p
             /\ x.over = p.over /\ x.rows = p.over /\ x.subject = p.subject /\ x.staff = p.staff
             /\ x.room = p.room /\ x.day = p.day /\ x.active = a
BY EntryFields DEF LessonOf, LessonRows, Entry

\* A lesson taken off is the same lesson, without rows.
LEMMA OffShape ==
  ASSUME NEW x \in LessonRows
  PROVE  LET y == [x EXCEPT !.active = FALSE, !.rows = {}]
         IN  /\ y \in LessonRows /\ y.rows = {} /\ y.active = FALSE
             /\ y.day = x.day /\ Entry(y, y.day) = Entry(x, x.day)
BY DEF LessonRows, Entry

\* A request becomes late, and stays what it is.
LEMMA LateStays ==
  ASSUME NEW t \in Plans, t # NoPlan
  PROVE  LET u == [t EXCEPT !.late = TRUE]
         IN  u \in Plans /\ u.late /\ u.op = t.op /\ (u.op = "update" => u.l = t.l)
<1> DEFINE Fine(t_) ==
      LET u == [t_ EXCEPT !.late = TRUE]
      IN  u \in Plans /\ u.late /\ u.op = t_.op /\ (u.op = "update" => u.l = t_.l)
<1>1. \A x \in Creates : Fine(x)
  BY DEF Creates, Plans
<1>2. \A x \in Updates : Fine(x)
  BY DEF Updates, Plans
<1>3. \A x \in Removes : Fine(x)
  BY DEF Removes, Plans
<1>4. \A x \in Clears : Fine(x)
  BY DEF Clears, Plans
<1>5. \A x \in Copies : Fine(x)
  BY DEF Copies, Plans
<1>6. \A x \in Places : Fine(x)
  BY DEF Places, Plans
<1>7. Fine(t)
  <2> HIDE DEF Fine
  <2> QED BY <1>1, <1>2, <1>3, <1>4, <1>5, <1>6 DEF Plans
<1> QED BY <1>7

\* The kind of a request is told by its name.
LEMMA PlanKinds ==
  ASSUME NEW t \in Plans
  PROVE  /\ t.op = "create" => t \in Creates
         /\ t.op = "update" => t \in Updates
         /\ t.op = "remove" => t \in Removes
         /\ t.op = "clear" => t \in Clears
         /\ t.op = "copy" => t \in Copies
         /\ t.op = "place" => t \in Places
         /\ t.op # "none" => t # NoPlan /\ t.late \in BOOLEAN
BY DEF Plans, NoPlan, Creates, Updates, Removes, Clears, Copies, Places

---------------------------------------------------------------------------
\* A write leaves every other request late.
LEMMA SavedMakesLate ==
  ASSUME PlanShape, NEW r \in Planners, NEW t \in Plans, Saved(r, t)
  PROVE  /\ plan' \in [Planners -> Plans] /\ plan'[r] = t
         /\ \A s \in Planners \ {r} :
              /\ plan'[s].op = plan[s].op
              /\ plan'[s].op = "update" => plan'[s].l = plan[s].l
              /\ plan'[s].op # "none" => plan'[s].late
<1> DEFINE Late(s) == [plan[s] EXCEPT !.late = TRUE]
<1>1. \A s \in Planners : plan[s] # NoPlan =>
        /\ Late(s) \in Plans /\ Late(s).late /\ Late(s).op = plan[s].op
        /\ Late(s).op = "update" => Late(s).l = plan[s].l
  <2> SUFFICES ASSUME NEW s \in Planners, plan[s] # NoPlan
               PROVE  /\ Late(s) \in Plans /\ Late(s).late /\ Late(s).op = plan[s].op
                      /\ Late(s).op = "update" => Late(s).l = plan[s].l
    OBVIOUS
  <2>1. plan[s] \in Plans
    BY DEF PlanShape
  <2> QED BY <2>1, LateStays
<1>2. plan' = [s \in Planners |-> IF s = r THEN t ELSE IF plan[s] = NoPlan THEN NoPlan ELSE Late(s)]
  BY Zenon DEF Saved, Passed
<1> HIDE DEF Late
<1>3. NoPlan \in Plans /\ NoPlan.op = "none"
  BY DEF Plans, NoPlan
<1> QED BY <1>1, <1>2, <1>3

\* A write that leaves the lessons standing, by a request that has nothing more
\* to go by, leaves everything standing.
LEMMA WriteKeeps ==
  ASSUME WeekInvariant, NEW r \in Planners, NEW t \in Plans, Saved(r, t),
         t.op \in {"none", "copy"}, plan[r] # NoPlan,
         LessonsStand', DOMAIN lessons \subseteq DOMAIN lessons',
         ~overrun /\ ~plan[r].late => NoRowsOfTheRest'
  PROVE  WeekInvariant'
<1>1. /\ plan' \in [Planners -> Plans] /\ plan'[r] = t
      /\ \A s \in Planners \ {r} :
           /\ plan'[s].op = plan[s].op
           /\ plan'[s].op = "update" => plan'[s].l = plan[s].l
           /\ plan'[s].op # "none" => plan'[s].late
  BY SavedMakesLate DEF WeekInvariant
<1>2. overrun' = (overrun \/ plan[r].late) /\ UNCHANGED <<assigned, refusal>>
  BY DEF Saved
<1>3. plan[r].late \in BOOLEAN
  <2>1. plan[r] \in Plans
    BY DEF WeekInvariant, PlanShape
  <2> QED BY <2>1 DEF Plans, NoPlan, Creates, Updates, Removes, Clears, Copies, Places
<1>4. PlanShape'
  BY <1>1, <1>2, <1>3 DEF WeekInvariant, PlanShape
<1>5. PlansKnow'
  BY <1>1 DEF WeekInvariant, PlansKnow
<1> QED BY <1>2, <1>4, <1>5 DEF WeekInvariant

\* A request that was refused is over, and it had been overtaken.
LEMMA FailureKeeps ==
  ASSUME WeekInvariant, NEW r \in Planners, Failed(r), plan[r].op # "none",
         overrun \/ plan[r].late
  PROVE  WeekInvariant'
<1>1. /\ plan' = [plan EXCEPT ![r] = NoPlan] /\ overrun' /\ overrun' \in BOOLEAN /\ refusal' = TRUE
      /\ UNCHANGED <<lessons, assigned>>
  BY DEF Failed, WeekInvariant, PlanShape
<1>2. NoPlan \in Plans /\ NoPlan.op = "none"
  BY DEF Plans, NoPlan
<1>3. PlanShape' /\ PlansKnow'
  BY <1>1, <1>2 DEF WeekInvariant, PlanShape, PlansKnow, Clashes, Active, SectionClash, TeacherClash, RoomClash
<1>4. LessonsStand'
  BY <1>1 DEF WeekInvariant, LessonsStand, LessonShape, RowsOfTheActive, NobodyInTwoPlaces, Active,
              SectionClash, TeacherClash, RoomClash
<1> QED BY <1>1, <1>3, <1>4 DEF WeekInvariant

\* A request that moves on without a write, knowing what it has to know.
LEMMA PlanningKeeps ==
  ASSUME WeekInvariant, NEW r \in Planners, NEW t \in Plans,
         plan' = [plan EXCEPT ![r] = t], UNCHANGED <<lessons, assigned, refusal, overrun>>,
         t.op = "update" => t.l \in DOMAIN lessons,
         t.op \in {"create", "place"} /\ ~t.late => Clashes(t.p, "new") = {},
         t.op = "update" /\ ~t.late => t.l \in Active /\ Clashes(t.p, t.l) = {}
  PROVE  WeekInvariant'
<1>1. PlanShape'
  BY DEF WeekInvariant, PlanShape
<1>2. PlansKnow'
  BY DEF WeekInvariant, PlanShape, PlansKnow, Clashes, Active, SectionClash, TeacherClash, RoomClash
<1>3. LessonsStand' /\ (NoRowsOfTheRest' <=> NoRowsOfTheRest)
  BY DEF WeekInvariant, LessonsStand, LessonShape, RowsOfTheActive, NoRowsOfTheRest, NobodyInTwoPlaces,
         Active, SectionClash, TeacherClash, RoomClash
<1> QED BY <1>1, <1>2, <1>3 DEF WeekInvariant

---------------------------------------------------------------------------
\* Where nobody has left rows behind, the indexes allow what the check allowed.
LEMMA IndexAllowsChecked ==
  ASSUME NoRowsOfTheRest, NEW p, NEW but, NEW a \in BOOLEAN, Clashes(p, but) = {}
  PROVE  IndexAllows(p, but, a)
<1> SUFFICES ASSUME NEW l \in DOMAIN lessons \ {but}, lessons[l].day = p.day
             PROVE  /\ ~SectionClash(p, l)
                    /\ a /\ lessons[l].active => ~TeacherClash(p, l) /\ ~RoomClash(p, l)
  BY DEF IndexAllows
<1>1. CASE l \in Active
  BY <1>1 DEF Clashes
<1>2. CASE l \notin Active
  BY <1>2 DEF NoRowsOfTheRest, SectionClash, Active
<1> QED BY <1>1, <1>2

\* A lesson written where the indexes allow it stands beside the others.
LEMMA PutKeeps ==
  ASSUME LessonsStand, NEW p \in Entries, NEW a \in BOOLEAN, NEW l \in Periods, NEW but,
         but = l \/ (but \notin Periods /\ l \notin DOMAIN lessons), IndexAllows(p, but, a),
         lessons' = [k \in DOMAIN lessons \cup {l} |-> IF k = l THEN LessonOf(p, a) ELSE lessons[k]]
  PROVE  /\ LessonsStand' /\ DOMAIN lessons \subseteq DOMAIN lessons'
         /\ NoRowsOfTheRest /\ a => NoRowsOfTheRest'
<1> DEFINE x == LessonOf(p, a)
<1>1. /\ x \in LessonRows /\ Entry(x, x.day) = p
      /\ x.over = p.over /\ x.rows = p.over /\ x.subject = p.subject /\ x.staff = p.staff
      /\ x.room = p.room /\ x.day = p.day /\ x.active = a
  BY LessonOfShape
<1> HIDE DEF x
<1>2. /\ DOMAIN lessons' = DOMAIN lessons \cup {l} /\ lessons'[l] = x
      /\ \A k \in DOMAIN lessons \ {l} : lessons'[k] = lessons[k]
  BY DEF x
<1>3. LessonShape'
  <2>1. lessons' \in [DOMAIN lessons' -> LessonRows]
    BY <1>1 DEF LessonsStand, LessonShape, x
  <2>2. DOMAIN lessons' \subseteq Periods
    BY <1>2 DEF LessonsStand, LessonShape
  <2>3. \A k \in DOMAIN lessons' : Entry(lessons'[k], lessons'[k].day) \in Entries
    BY <1>1, <1>2, Zenon DEF LessonsStand, LessonShape
  <2> QED BY <2>1, <2>2, <2>3 DEF LessonShape
<1>4. /\ Active' \ {l} = Active \ {l} /\ (l \in Active' <=> a)
  BY <1>1, <1>2 DEF Active
<1>5. RowsOfTheActive'
  BY <1>1, <1>2, <1>4 DEF LessonsStand, RowsOfTheActive, Active
<1>6. NobodyInTwoPlaces'
  <2> DEFINE Apart(u, v) ==
        u.day = v.day =>
          /\ v.staff # u.staff /\ ~(u.room # NoRoom /\ v.room = u.room)
          /\ ~(v.subject = u.subject /\ v.rows \cap u.over # {})
  <2>1. \A j, k \in Active : j # k => Apart(lessons[j], lessons[k])
    BY DEF LessonsStand, NobodyInTwoPlaces, SectionClash, TeacherClash, RoomClash
  <2>2. ASSUME NEW k \in Active \ {l}, a
        PROVE  Apart(x, lessons[k]) /\ Apart(lessons[k], x)
    <3>1. k \in DOMAIN lessons \ {but} /\ lessons[k].active
      BY DEF Active, LessonsStand, LessonShape
    <3>2. lessons[k].day = p.day => ~SectionClash(p, k) /\ ~TeacherClash(p, k) /\ ~RoomClash(p, k)
      BY <2>2, <3>1 DEF IndexAllows
    <3>3. lessons[k].rows = lessons[k].over
      BY DEF LessonsStand, RowsOfTheActive
    <3> QED BY <1>1, <3>2, <3>3 DEF SectionClash, TeacherClash, RoomClash
  <2>3. \A j, k \in Active' : j # k => Apart(lessons'[j], lessons'[k])
    <3> SUFFICES ASSUME NEW j \in Active', NEW k \in Active', j # k
                 PROVE  Apart(lessons'[j], lessons'[k])
      OBVIOUS
    <3>1. Active' \ {l} \subseteq DOMAIN lessons \ {l}
      BY <1>4 DEF Active
    <3> HIDE DEF Apart
    <3>2. CASE j = l
      BY <3>1, <3>2, <1>2, <1>4, <2>2
    <3>3. CASE k = l
      BY <3>1, <3>3, <1>2, <1>4, <2>2
    <3>4. CASE j # l /\ k # l
      BY <3>1, <3>4, <1>2, <1>4, <2>1
    <3> QED BY <3>2, <3>3, <3>4
  <2> QED BY <2>3 DEF NobodyInTwoPlaces, SectionClash, TeacherClash, RoomClash
<1>7. NoRowsOfTheRest /\ a => NoRowsOfTheRest'
  BY <1>1, <1>2, <1>4 DEF NoRowsOfTheRest
<1> QED BY <1>2, <1>3, <1>5, <1>6, <1>7 DEF LessonsStand

\* Lessons taken off leave the others as they stand.
LEMMA DeactivatedKeeps ==
  ASSUME LessonsStand, NEW gone, lessons' = Deactivated(gone)
  PROVE  /\ LessonsStand' /\ DOMAIN lessons \subseteq DOMAIN lessons'
         /\ NoRowsOfTheRest => NoRowsOfTheRest'
<1> DEFINE Off(l) == [lessons[l] EXCEPT !.active = FALSE, !.rows = {}]
<1>1. \A l \in DOMAIN lessons :
        /\ Off(l) \in LessonRows /\ Off(l).rows = {} /\ Off(l).active = FALSE
        /\ Off(l).day = lessons[l].day /\ Entry(Off(l), Off(l).day) = Entry(lessons[l], lessons[l].day)
  <2> SUFFICES ASSUME NEW l \in DOMAIN lessons
               PROVE  /\ Off(l) \in LessonRows /\ Off(l).rows = {} /\ Off(l).active = FALSE
                      /\ Off(l).day = lessons[l].day
                      /\ Entry(Off(l), Off(l).day) = Entry(lessons[l], lessons[l].day)
    OBVIOUS
  <2>1. lessons[l] \in LessonRows
    BY DEF LessonsStand, LessonShape
  <2> QED BY <2>1, OffShape
<1>2. lessons' = [l \in DOMAIN lessons |-> IF l \in gone THEN Off(l) ELSE lessons[l]]
  BY Zenon DEF Deactivated
<1> HIDE DEF Off
<1>3. DOMAIN lessons' = DOMAIN lessons
  BY <1>2
<1>4. Active' = Active \ gone /\ \A l \in Active' : lessons'[l] = lessons[l]
  BY <1>1, <1>2, <1>3 DEF Active
<1>5. LessonShape'
  <2>1. lessons' \in [DOMAIN lessons' -> LessonRows]
    BY <1>1, <1>2 DEF LessonsStand, LessonShape
  <2>2. \A l \in DOMAIN lessons' : Entry(lessons'[l], lessons'[l].day) \in Entries
    BY <1>1, <1>2, <1>3, Zenon DEF LessonsStand, LessonShape
  <2> QED BY <1>3, <2>1, <2>2 DEF LessonsStand, LessonShape
<1>6. RowsOfTheActive' /\ NobodyInTwoPlaces'
  BY <1>4 DEF LessonsStand, RowsOfTheActive, NobodyInTwoPlaces, SectionClash, TeacherClash, RoomClash
<1>7. NoRowsOfTheRest => NoRowsOfTheRest'
  BY <1>1, <1>2, <1>3, <1>4 DEF NoRowsOfTheRest
<1> QED BY <1>3, <1>5, <1>6, <1>7 DEF LessonsStand

---------------------------------------------------------------------------
\* A new lesson finds a free id of its own.
LEMMA SlotKeeps ==
  ASSUME LessonsStand, NEW p \in Entries, IndexAllows(p, "new", TRUE), Slot(p)
  PROVE  /\ LessonsStand' /\ DOMAIN lessons \subseteq DOMAIN lessons'
         /\ NoRowsOfTheRest => NoRowsOfTheRest'
<1>1. PICK l \in Periods \ DOMAIN lessons :
        lessons' = [k \in DOMAIN lessons \cup {l} |-> IF k = l THEN LessonOf(p, TRUE) ELSE lessons[k]]
  BY DEF Slot
<1>2. "new" \notin Periods
  BY PlannerAssumption
<1> DEFINE but == "new"
<1>3. but \notin Periods /\ IndexAllows(p, but, TRUE)
  BY <1>2
<1> HIDE DEF but
<1> QED BY <1>1, <1>3, PutKeeps

\* createTimetableSlot, when it writes.
LEMMA CreateKeeps ==
  ASSUME WeekInvariant, NEW r \in Planners, CreateLesson(r)
  PROVE  WeekInvariant'
<1> DEFINE t == plan[r]
<1>1. t \in Creates /\ t.op = "create" /\ t # NoPlan
  BY PlanKinds DEF CreateLesson, WeekInvariant, PlanShape
<1>2. t.p \in Entries /\ t.late \in BOOLEAN
  BY <1>1 DEF Creates
<1>3. CASE IndexAllows(t.p, "new", TRUE) /\ Slot(t.p) /\ Saved(r, NoPlan)
  <2>1. NoPlan \in Plans /\ NoPlan.op = "none"
    BY DEF Plans, NoPlan
  <2>2. /\ LessonsStand' /\ DOMAIN lessons \subseteq DOMAIN lessons'
        /\ NoRowsOfTheRest => NoRowsOfTheRest'
    BY <1>2, <1>3, SlotKeeps DEF WeekInvariant
  <2> QED BY <1>1, <1>3, <2>1, <2>2, WriteKeeps DEF WeekInvariant
<1>4. CASE ~IndexAllows(t.p, "new", TRUE) /\ Failed(r)
  <2>1. overrun \/ t.late
    BY <1>1, <1>2, <1>4, IndexAllowsChecked DEF WeekInvariant, PlansKnow
  <2> QED BY <1>1, <1>4, <2>1, FailureKeeps
<1> QED BY <1>3, <1>4 DEF CreateLesson

\* copyTimetableDay, when it writes a lesson.
LEMMA PlaceKeeps ==
  ASSUME WeekInvariant, NEW r \in Planners, PlaceCopy(r)
  PROVE  WeekInvariant'
<1> DEFINE t == plan[r]
           next == [op |-> "copy", todo |-> t.todo, late |-> FALSE]
<1>1. t \in Places /\ t.op = "place" /\ t # NoPlan
  BY PlanKinds DEF PlaceCopy, WeekInvariant, PlanShape
<1>2. t.p \in Entries /\ t.todo \in SUBSET Entries /\ t.late \in BOOLEAN
  BY <1>1 DEF Places
<1>3. next \in Plans /\ next.op = "copy"
  BY <1>2 DEF Plans, Copies
<1>4. \/ IndexAllows(t.p, "new", TRUE) /\ Slot(t.p) /\ Saved(r, next)
      \/ ~IndexAllows(t.p, "new", TRUE) /\ Failed(r)
  BY DEF PlaceCopy
<1> HIDE DEF next
<1>5. CASE IndexAllows(t.p, "new", TRUE) /\ Slot(t.p) /\ Saved(r, next)
  <2>1. /\ LessonsStand' /\ DOMAIN lessons \subseteq DOMAIN lessons'
        /\ NoRowsOfTheRest => NoRowsOfTheRest'
    BY <1>2, <1>5, SlotKeeps DEF WeekInvariant
  <2> QED BY <1>1, <1>3, <1>5, <2>1, WriteKeeps DEF WeekInvariant
<1>6. CASE ~IndexAllows(t.p, "new", TRUE) /\ Failed(r)
  <2>1. overrun \/ t.late
    BY <1>1, <1>2, <1>6, IndexAllowsChecked DEF WeekInvariant, PlansKnow
  <2> QED BY <1>1, <1>6, <2>1, FailureKeeps
<1> QED BY <1>4, <1>5, <1>6

\* updateTimetableSlot, when it writes: only a late one finds the lesson off.
LEMMA UpdateKeeps ==
  ASSUME WeekInvariant, NEW r \in Planners, UpdateLesson(r)
  PROVE  WeekInvariant'
<1> DEFINE t == plan[r]
           a == lessons[t.l].active
<1>1. t \in Updates /\ t.op = "update" /\ t # NoPlan
  BY PlanKinds DEF UpdateLesson, WeekInvariant, PlanShape
<1>2. t.p \in Entries /\ t.l \in Periods /\ t.late \in BOOLEAN
  BY <1>1 DEF Updates
<1>3. t.l \in DOMAIN lessons /\ (~t.late => t.l \in Active /\ Clashes(t.p, t.l) = {})
  BY <1>1 DEF WeekInvariant, PlansKnow
<1>4. a \in BOOLEAN /\ (~t.late => a)
  <2>1. lessons[t.l] \in LessonRows
    BY <1>3 DEF WeekInvariant, LessonsStand, LessonShape
  <2> QED BY <1>3, <2>1 DEF LessonRows, Active
<1>5. CASE IndexAllows(t.p, t.l, a) /\ lessons' = [lessons EXCEPT ![t.l] = LessonOf(t.p, a)] /\ Saved(r, NoPlan)
  <2>1. NoPlan \in Plans /\ NoPlan.op = "none"
    BY DEF Plans, NoPlan
  <2>2. lessons' = [k \in DOMAIN lessons \cup {t.l} |-> IF k = t.l THEN LessonOf(t.p, a) ELSE lessons[k]]
    <3> DEFINE x == LessonOf(t.p, a)
    <3>1. lessons' = [lessons EXCEPT ![t.l] = x]
      BY <1>5
    <3> HIDE DEF x
    <3>2. DOMAIN lessons \cup {t.l} = DOMAIN lessons
      BY <1>3
    <3>3. lessons' = [k \in DOMAIN lessons |-> IF k = t.l THEN x ELSE lessons[k]]
      BY <3>1
    <3> QED BY <3>2, <3>3 DEF x
  <2>3. /\ LessonsStand' /\ DOMAIN lessons \subseteq DOMAIN lessons'
        /\ NoRowsOfTheRest /\ a => NoRowsOfTheRest'
    <3>1. PICK p, l, b : p = t.p /\ l = t.l /\ b = a
      OBVIOUS
    <3>2. /\ LessonsStand /\ p \in Entries /\ b \in BOOLEAN /\ l \in Periods /\ IndexAllows(p, l, b)
          /\ lessons' = [k \in DOMAIN lessons \cup {l} |-> IF k = l THEN LessonOf(p, b) ELSE lessons[k]]
      BY <1>2, <1>4, <1>5, <2>2, <3>1 DEF WeekInvariant
    <3> HIDE DEF a, t
    <3>3. /\ LessonsStand' /\ DOMAIN lessons \subseteq DOMAIN lessons'
          /\ NoRowsOfTheRest /\ b => NoRowsOfTheRest'
      BY <3>2, PutKeeps
    <3> QED BY <3>1, <3>3
  <2> QED BY <1>1, <1>4, <1>5, <2>1, <2>3, WriteKeeps DEF WeekInvariant
<1>6. CASE ~IndexAllows(t.p, t.l, a) /\ Failed(r)
  <2>1. overrun \/ t.late
    BY <1>2, <1>3, <1>4, <1>6, IndexAllowsChecked DEF WeekInvariant
  <2> QED BY <1>1, <1>6, <2>1, FailureKeeps
<1> QED BY <1>5, <1>6 DEF UpdateLesson

\* deactivateTimetableSlot, and the clearing of a day.
LEMMA RemoveKeeps ==
  ASSUME WeekInvariant, NEW r \in Planners, Remove(r) \/ Clear(r)
  PROVE  WeekInvariant'
<1> DEFINE t == plan[r]
           next == [op |-> "copy", todo |-> t.todo, late |-> t.late]
<1>1. ASSUME Remove(r) PROVE WeekInvariant'
  <2>1. /\ t.op = "remove" /\ t # NoPlan /\ Saved(r, NoPlan) /\ lessons' = Deactivated({t.l})
    BY <1>1 DEF Remove, NoPlan
  <2>2. NoPlan \in Plans /\ NoPlan.op = "none"
    BY DEF Plans, NoPlan
  <2>3. /\ LessonsStand' /\ DOMAIN lessons \subseteq DOMAIN lessons'
        /\ NoRowsOfTheRest => NoRowsOfTheRest'
    BY <2>1, DeactivatedKeeps DEF WeekInvariant
  <2> QED BY <2>1, <2>2, <2>3, WriteKeeps DEF WeekInvariant
<1>2. ASSUME Clear(r) PROVE WeekInvariant'
  <2>1. /\ t.op = "clear" /\ t # NoPlan
        /\ \/ lessons' = Deactivated(t.gone) /\ Saved(r, next)
           \/ plan' = [plan EXCEPT ![r] = next] /\ UNCHANGED <<lessons, assigned, refusal, overrun>>
    BY <1>2 DEF Clear, NoPlan
  <2>2. t \in Clears
    BY <2>1, PlanKinds DEF WeekInvariant, PlanShape
  <2>3. next \in Plans /\ next.op = "copy"
    BY <2>2 DEF Clears, Plans, Copies
  <2> HIDE DEF next
  <2>4. CASE lessons' = Deactivated(t.gone) /\ Saved(r, next)
    <3>1. /\ LessonsStand' /\ DOMAIN lessons \subseteq DOMAIN lessons'
          /\ NoRowsOfTheRest => NoRowsOfTheRest'
      BY <2>4, DeactivatedKeeps DEF WeekInvariant
    <3> QED BY <2>1, <2>3, <2>4, <3>1, WriteKeeps DEF WeekInvariant
  <2>5. CASE plan' = [plan EXCEPT ![r] = next] /\ UNCHANGED <<lessons, assigned, refusal, overrun>>
    BY <2>3, <2>5, PlanningKeeps
  <2> QED BY <2>1, <2>4, <2>5
<1> QED BY <1>1, <1>2

\* copyTimetableDay between its writes.
LEMMA CopyKeeps ==
  ASSUME WeekInvariant, NEW r \in Planners,
         EndCopy(r) \/ \E p \in Entries : CheckCopy(r, p)
  PROVE  WeekInvariant'
<1> DEFINE t == plan[r]
<1>1. ASSUME EndCopy(r) PROVE WeekInvariant'
  <2>1. NoPlan \in Plans /\ NoPlan.op = "none"
    BY DEF Plans, NoPlan
  <2>2. plan' = [plan EXCEPT ![r] = NoPlan] /\ UNCHANGED <<lessons, assigned, refusal, overrun>>
    BY <1>1 DEF EndCopy
  <2> QED BY <2>1, <2>2, PlanningKeeps
<1>2. ASSUME NEW p \in Entries, CheckCopy(r, p) PROVE WeekInvariant'
  <2> DEFINE placed == [op |-> "place", p |-> p, todo |-> t.todo \ {p}, late |-> FALSE]
             skipped == [t EXCEPT !.todo = @ \ {p}]
  <2>1. t.op = "copy" /\ UNCHANGED <<lessons, assigned, refusal, overrun>>
    BY <1>2 DEF CheckCopy
  <2>2. \/ LessonIsAllowed(p, "new") /\ plan' = [plan EXCEPT ![r] = placed]
        \/ plan' = [plan EXCEPT ![r] = skipped]
    BY <1>2, Zenon DEF CheckCopy
  <2>3. t \in Copies
    BY <2>1, PlanKinds DEF WeekInvariant, PlanShape
  <2>4. /\ placed \in Plans /\ placed.op = "place" /\ placed.p = p
        /\ LessonIsAllowed(p, "new") => Clashes(p, "new") = {}
    BY <2>3 DEF Copies, Places, Plans, LessonIsAllowed
  <2>5. skipped \in Plans /\ skipped.op = "copy"
    BY <2>3 DEF Copies, Plans
  <2> HIDE DEF placed, skipped
  <2>6. CASE LessonIsAllowed(p, "new") /\ plan' = [plan EXCEPT ![r] = placed]
    BY <2>1, <2>4, <2>6, PlanningKeeps
  <2>7. CASE plan' = [plan EXCEPT ![r] = skipped]
    BY <2>1, <2>5, <2>7, PlanningKeeps
  <2> QED BY <2>2, <2>6, <2>7
<1> QED BY <1>1, <1>2

\* What each handler has looked at before it writes.
LEMMA StartKeeps ==
  ASSUME WeekInvariant, NEW r \in Planners,
         \/ \E p \in Entries : StartCreateLesson(r, p) \/ \E l \in DOMAIN lessons : StartUpdateLesson(r, l, p)
         \/ \E l \in DOMAIN lessons : StartDeactivate(r, l)
         \/ \E c \in Classes, from \in Days : \E to \in Days \ {from}, replace \in BOOLEAN :
              StartCopy(r, c, from, to, replace)
  PROVE  WeekInvariant'
<1>0. DOMAIN lessons \subseteq Periods
  BY DEF WeekInvariant, LessonsStand, LessonShape
<1>1. ASSUME NEW p \in Entries, StartCreateLesson(r, p) PROVE WeekInvariant'
  <2> DEFINE t == [op |-> "create", p |-> p, late |-> FALSE]
  <2>1. /\ plan' = [plan EXCEPT ![r] = t] /\ UNCHANGED <<lessons, assigned, refusal, overrun>>
        /\ Clashes(p, "new") = {}
    BY <1>1 DEF StartCreateLesson, Planned, LessonIsAllowed
  <2>2. t \in Plans /\ t.op = "create" /\ t.p = p
    BY DEF Plans, Creates
  <2> HIDE DEF t
  <2> QED BY <2>1, <2>2, PlanningKeeps
<1>2. ASSUME NEW p \in Entries, NEW l \in DOMAIN lessons, StartUpdateLesson(r, l, p) PROVE WeekInvariant'
  <2> DEFINE t == [op |-> "update", l |-> l, p |-> p, late |-> FALSE]
  <2>1. /\ plan' = [plan EXCEPT ![r] = t] /\ UNCHANGED <<lessons, assigned, refusal, overrun>>
        /\ l \in Active /\ Clashes(p, l) = {}
    BY <1>2 DEF StartUpdateLesson, Planned, LessonIsAllowed
  <2>2. t \in Plans /\ t.op = "update" /\ t.p = p /\ t.l = l
    BY <1>0 DEF Plans, Updates
  <2> HIDE DEF t
  <2> QED BY <2>1, <2>2, PlanningKeeps
<1>3. ASSUME NEW l \in DOMAIN lessons, StartDeactivate(r, l) PROVE WeekInvariant'
  <2> DEFINE t == [op |-> "remove", l |-> l, late |-> FALSE]
  <2>1. plan' = [plan EXCEPT ![r] = t] /\ UNCHANGED <<lessons, assigned, refusal, overrun>>
    BY <1>3 DEF StartDeactivate, Planned
  <2>2. t \in Plans /\ t.op = "remove"
    BY <1>0 DEF Plans, Removes
  <2> HIDE DEF t
  <2> QED BY <2>1, <2>2, PlanningKeeps
<1>4. ASSUME NEW c \in Classes, NEW from \in Days, NEW to \in Days, NEW replace,
             StartCopy(r, c, from, to, replace)
      PROVE  WeekInvariant'
  <2> DEFINE todo == {Entry(lessons[l], to) : l \in On(from, c)}
             t == [op |-> "clear", gone |-> On(to, c), todo |-> todo, late |-> FALSE]
  <2>1. plan' = [plan EXCEPT ![r] = t] /\ UNCHANGED <<lessons, assigned, refusal, overrun>>
    BY <1>4 DEF StartCopy, Planned
  <2>2. \A l \in DOMAIN lessons : Entry(lessons[l], to) \in Entries
    <3> SUFFICES ASSUME NEW l \in DOMAIN lessons PROVE Entry(lessons[l], to) \in Entries
      OBVIOUS
    <3>1. PICK p \in Entries : p = Entry(lessons[l], lessons[l].day)
      BY DEF WeekInvariant, LessonsStand, LessonShape
    <3>2. Entry(p, to) \in Entries
      BY EntryFields
    <3>3. Entry(lessons[l], to) = Entry(p, to)
      BY <3>1 DEF Entry
    <3> QED BY <3>2, <3>3
  <2>3. todo \in SUBSET Entries /\ On(to, c) \in SUBSET Periods
    BY <1>0, <2>2 DEF On, Active
  <2> HIDE DEF todo
  <2>4. t \in Plans /\ t.op = "clear"
    BY <2>3 DEF Plans, Clears
  <2> HIDE DEF t
  <2> QED BY <2>1, <2>4, PlanningKeeps
<1> QED BY <1>1, <1>2, <1>3, <1>4

\* closeAssignment and its opposite touch no lesson.
LEMMA ReassignKeeps ==
  ASSUME WeekInvariant, NEW a \in Needed, Reassign(a)
  PROVE  WeekInvariant'
<1>1. assigned' \subseteq Needed /\ UNCHANGED <<lessons, plan, refusal, overrun>>
  BY DEF Reassign, WeekInvariant, PlanShape
<1> QED BY <1>1 DEF WeekInvariant, LessonsStand, LessonShape, PlanShape, PlansKnow, RowsOfTheActive,
                    NoRowsOfTheRest, NobodyInTwoPlaces, Clashes, Active, SectionClash, TeacherClash, RoomClash

---------------------------------------------------------------------------
LEMMA WeekInitHolds == TimetableInit => WeekInvariant
<1> SUFFICES ASSUME TimetableInit PROVE WeekInvariant
  OBVIOUS
<1> USE DEF TimetableInit
<1>1. DOMAIN lessons = {}
  OBVIOUS
<1>2. LessonsStand /\ NoRowsOfTheRest
  BY <1>1 DEF LessonsStand, LessonShape, RowsOfTheActive, NoRowsOfTheRest, NobodyInTwoPlaces, Active
<1>3. NoPlan \in Plans /\ NoPlan.op = "none"
  BY DEF Plans, NoPlan
<1>4. PlanShape /\ PlansKnow
  BY <1>3 DEF PlanShape, PlansKnow
<1> QED BY <1>2, <1>4 DEF WeekInvariant

LEMMA WeekStepHolds == WeekInvariant /\ [TimetableNext]_timetableVars => WeekInvariant'
<1> SUFFICES ASSUME WeekInvariant, [TimetableNext]_timetableVars PROVE WeekInvariant'
  OBVIOUS
<1>1. CASE UNCHANGED timetableVars
  BY <1>1 DEF timetableVars, WeekInvariant, LessonsStand, LessonShape, PlanShape, PlansKnow, RowsOfTheActive,
              NoRowsOfTheRest, NobodyInTwoPlaces, Clashes, Active, SectionClash, TeacherClash, RoomClash
<1>2. ASSUME NEW r \in Planners,
             CreateLesson(r) \/ UpdateLesson(r) \/ Remove(r) \/ Clear(r) \/ PlaceCopy(r) \/ EndCopy(r)
               \/ \E p \in Entries : CheckCopy(r, p)
      PROVE  WeekInvariant'
  BY <1>2, CreateKeeps, UpdateKeeps, RemoveKeeps, PlaceKeeps, CopyKeeps
<1> QED BY <1>1, <1>2, StartKeeps, ReassignKeeps DEF TimetableNext

\* For every college: no lecturer, room or section is in two lessons of one period
\* on one day, through any overlap of the requests of timetable.service.ts; and as
\* long as none wrote on what had changed, no index ever stopped a request and the
\* rows of a section are those of the lessons that are on.
THEOREM TimetableStandsHolds == TimetableSpec => []TimetableStands
<1>1. WeekInvariant => TimetableStands
  <2> SUFFICES ASSUME WeekInvariant PROVE TimetableStands
    OBVIOUS
  <2>1. TimetableTypeOK
    <3>1. \A l \in DOMAIN lessons : lessons[l] \in LessonRows
      BY DEF WeekInvariant, LessonsStand, LessonShape
    <3> QED BY <3>1 DEF WeekInvariant, LessonsStand, LessonShape, PlanShape, TimetableTypeOK, LessonRows
  <2>2. RowsFollowTheirLesson
    BY DEF WeekInvariant, LessonsStand, RowsOfTheActive, NoRowsOfTheRest, RowsFollowTheirLesson, Active
  <2> QED BY <2>1, <2>2 DEF TimetableStands, WeekInvariant, LessonsStand, CheckSeesWhatTheIndexSees
<1> QED BY <1>1, WeekInitHolds, WeekStepHolds, PTL DEF TimetableSpec

---------------------------------------------------------------------------
\* The day's register.

MarkLists == UNION {[S -> Marks] : S \in SUBSET Roster}
Sheets == [status : {"DRAFT", "SUBMITTED", "CANCELLED"}, marks : MarkLists, handedIn : Nat]

\* The requests a marker may have in flight.
Openings == [op : {"create"}, who : Offered, marks : MarkLists, stale : BOOLEAN]
Corrections == [op : {"mark"}, who : Offered, s : Roster, v : Marks, stale : BOOLEAN]
Turns == [op : {"submit", "cancel"}, who : Offered, stale : BOOLEAN]
Markings == {NoMarking} \cup Openings \cup Corrections \cup Turns

RegisterShape ==
  /\ enrolled \subseteq Roster /\ joined \subseteq Roster /\ today \in 0..LastDay
  /\ first \in Teachers \cup {Nobody} /\ incharge \in Teachers \cup {Nobody}
  /\ sheet \in {NoRegister} \cup Sheets /\ (sheet # NoRegister => sheet.handedIn <= today)
  /\ marking \in [Markers -> Markings] /\ hasty \in BOOLEAN

\* A register once opened keeps its rows, so a correction finds the one it is for.
RowsAreThere ==
  \A m \in Markers : LET t == marking[m] IN
    /\ t.op \in {"mark", "submit", "cancel"} => sheet # NoRegister
    /\ t.op = "mark" => t.s \in DOMAIN sheet.marks

\* What a request that is not stale was decided on.
DecidedOnThis(t) ==
  /\ t.op = "create" => DayAllows(t.who) /\ MayMark(t.who)
  /\ t.op \in {"mark", "submit"} => MayEdit(t.who)
  /\ t.op = "cancel" => MayCancel(t.who)
  /\ t.op = "submit" => sheet.status = "DRAFT" /\ enrolled \subseteq DOMAIN sheet.marks

FreshStand == \A m \in Markers : marking[m] # NoMarking /\ ~marking[m].stale => DecidedOnThis(marking[m])

RegisterInvariant == RegisterShape /\ RowsAreThere /\ FreshStand /\ NobodyIsMissing

\* What one step may do to the register.
InTime ==
  \E m \in Markers : marking[m].op # "none" /\ marking'[m].op = "none" /\
    LET who == marking[m].who
    IN  who # "office" =>
          /\ who = first \/ (who = incharge /\ first = Nobody)
          /\ sheet = NoRegister => today = SheetDay
          /\ sheet.status = "SUBMITTED" /\ sheet'.status # "CANCELLED"
               => today - sheet.handedIn <= CorrectionDays

StepIsInOrder ==
  ~hasty' /\ sheet' # sheet => sheet.status # "CANCELLED" /\ InTime

---------------------------------------------------------------------------
LEMMA MarkingKinds ==
  ASSUME NEW t \in Markings
  PROVE  /\ t # NoMarking <=> t.op # "none"
         /\ t.op = "create" => t \in Openings
         /\ t.op = "mark" => t \in Corrections
         /\ t.op \in {"submit", "cancel"} => t \in Turns
         /\ t # NoMarking => t.stale \in BOOLEAN /\ t.who \in Offered
BY DEF Markings, NoMarking, Openings, Corrections, Turns

\* A request becomes stale, and stays what it is.
LEMMA StaleStays ==
  ASSUME NEW t \in Markings, t # NoMarking
  PROVE  LET u == [t EXCEPT !.stale = TRUE]
         IN  u \in Markings /\ u.stale /\ u.op = t.op /\ (u.op = "mark" => u.s = t.s)
<1> DEFINE Fine(t_) ==
      LET u == [t_ EXCEPT !.stale = TRUE]
      IN  u \in Markings /\ u.stale /\ u.op = t_.op /\ (u.op = "mark" => u.s = t_.s)
<1>1. \A x \in Openings : Fine(x)
  BY DEF Openings, Markings
<1>2. \A x \in Corrections : Fine(x)
  BY DEF Corrections, Markings
<1>3. \A x \in Turns : Fine(x)
  BY DEF Turns, Markings
<1>4. Fine(t)
  <2> HIDE DEF Fine
  <2> QED BY <1>1, <1>2, <1>3 DEF Markings
<1> QED BY <1>4

LEMMA OvertakeMakesStale ==
  ASSUME marking \in [Markers -> Markings], NEW but, Overtake(but)
  PROVE  /\ marking' \in [Markers -> Markings]
         /\ but \in Markers => marking'[but] = NoMarking
         /\ \A m \in Markers : marking'[m] # NoMarking =>
              /\ marking'[m].stale /\ marking'[m].op = marking[m].op
              /\ marking'[m].op = "mark" => marking'[m].s = marking[m].s
<1> DEFINE Stale(m) == [marking[m] EXCEPT !.stale = TRUE]
<1>1. \A m \in Markers : marking[m] # NoMarking =>
        /\ Stale(m) \in Markings /\ Stale(m).stale /\ Stale(m).op = marking[m].op
        /\ Stale(m).op = "mark" => Stale(m).s = marking[m].s
  <2> SUFFICES ASSUME NEW m \in Markers, marking[m] # NoMarking
               PROVE  /\ Stale(m) \in Markings /\ Stale(m).stale /\ Stale(m).op = marking[m].op
                      /\ Stale(m).op = "mark" => Stale(m).s = marking[m].s
    OBVIOUS
  <2>1. marking[m] \in Markings
    OBVIOUS
  <2> QED BY <2>1, StaleStays
<1>2. marking' = [m \in Markers |->
        IF m = but THEN NoMarking ELSE IF marking[m] = NoMarking THEN NoMarking ELSE Stale(m)]
  BY Zenon DEF Overtake
<1> HIDE DEF Stale
<1>3. NoMarking \in Markings
  BY DEF Markings
<1> QED BY <1>1, <1>2, <1>3

\* After a change, with rows where they were, nobody in flight relies on anything.
LEMMA OvertakenRelyOnNothing ==
  ASSUME RegisterShape, RowsAreThere, NEW but, Overtake(but),
         sheet # NoRegister => sheet' # NoRegister /\ DOMAIN sheet'.marks = DOMAIN sheet.marks
  PROVE  marking' \in [Markers -> Markings] /\ RowsAreThere' /\ FreshStand'
<1>1. /\ marking' \in [Markers -> Markings]
      /\ \A m \in Markers : marking'[m] # NoMarking =>
           /\ marking'[m].stale /\ marking'[m].op = marking[m].op
           /\ marking'[m].op = "mark" => marking'[m].s = marking[m].s
  BY OvertakeMakesStale DEF RegisterShape
<1>2. NoMarking.op = "none"
  BY DEF NoMarking
<1>3. FreshStand'
  BY <1>1 DEF FreshStand
<1>4. RowsAreThere'
  BY <1>1, <1>2 DEF RowsAreThere
<1> QED BY <1>1, <1>3, <1>4

---------------------------------------------------------------------------
LEMMA RegisterInitHolds == RegisterInit => RegisterInvariant
<1> SUFFICES ASSUME RegisterInit PROVE RegisterInvariant
  OBVIOUS
<1>1. NoMarking \in Markings /\ NoMarking.op = "none" /\ NoRegister.status = "NONE"
  BY DEF Markings, NoMarking, NoRegister
<1>2. RegisterShape
  <2>1. 0 \in 0..LastDay
    <3>1. LastDay \in {SheetDay, LastDay, CorrectionDays}
      OBVIOUS
    <3>2. LastDay \in Nat
      BY <3>1, RegisterAssumption
    <3> QED BY <3>2
  <2>2. marking \in [Markers -> Markings]
    BY <1>1 DEF RegisterInit
  <2> QED BY <2>1, <2>2 DEF RegisterInit, RegisterShape
<1> QED BY <1>1, <1>2 DEF RegisterInit, RegisterInvariant, RowsAreThere, FreshStand, NobodyIsMissing

\* A handler as far as its decision.
LEMMA RequestKeeps ==
  ASSUME RegisterInvariant, NEW m \in Markers, NEW t \in Markings, Requested(m, t), DecidedOnThis(t),
         t.op \in {"mark", "submit", "cancel"} => sheet # NoRegister,
         t.op = "mark" => t.s \in DOMAIN sheet.marks
  PROVE  RegisterInvariant' /\ UNCHANGED sheet
<1>1. /\ marking' = [marking EXCEPT ![m] = t]
      /\ UNCHANGED <<sheet, enrolled, first, incharge, today, joined, hasty>>
  BY DEF Requested
<1>2. RegisterShape' /\ NobodyIsMissing'
  BY <1>1 DEF RegisterInvariant, RegisterShape, NobodyIsMissing
<1>3. RowsAreThere'
  BY <1>1 DEF RegisterInvariant, RegisterShape, RowsAreThere
<1>4. FreshStand'
  BY <1>1 DEF RegisterInvariant, RegisterShape, FreshStand, DecidedOnThis, DayAllows, MayMark, MayEdit, MayCancel
<1> QED BY <1>1, <1>2, <1>3, <1>4 DEF RegisterInvariant

\* What there may be of marks once a section's students are all present.
LEMMA RegisterRows ==
  ASSUME RegisterInvariant, sheet # NoRegister
  PROVE  sheet \in Sheets /\ sheet.marks \in MarkLists /\ DOMAIN sheet.marks \subseteq Roster
BY DEF RegisterInvariant, RegisterShape, Sheets, MarkLists

LEMMA MarkingStartKeeps ==
  ASSUME RegisterInvariant, NEW m \in Markers, NEW who \in Offered,
         \/ StartOpenSheet(m, who)
         \/ \E s \in Roster, v \in Marks : StartMark(m, who, s, v)
         \/ StartSubmitSheet(m, who) \/ StartCancelSheet(m, who)
  PROVE  RegisterInvariant' /\ UNCHANGED sheet
<1>0. MayEdit(who) \/ MayCancel(who) => sheet # NoRegister
  BY DEF MayEdit, MayCancel, NoRegister
<1>1. CASE StartOpenSheet(m, who)
  <2> DEFINE all == [s \in enrolled |-> "PRESENT"]
             t == [op |-> "create", who |-> who, marks |-> all, stale |-> FALSE]
  <2>1. all \in MarkLists
    BY DEF MarkLists, Marks, RegisterInvariant, RegisterShape
  <2>2. Requested(m, t) /\ DayAllows(who) /\ MayMark(who)
    BY <1>1 DEF StartOpenSheet
  <2> HIDE DEF all
  <2>3. t \in Markings /\ t.op = "create" /\ DecidedOnThis(t)
    BY <2>1, <2>2 DEF Markings, Openings, DecidedOnThis
  <2> HIDE DEF t
  <2> QED BY <2>2, <2>3, RequestKeeps
<1>2. ASSUME NEW s \in Roster, NEW v \in Marks, StartMark(m, who, s, v)
      PROVE  RegisterInvariant' /\ UNCHANGED sheet
  <2> DEFINE t == [op |-> "mark", who |-> who, s |-> s, v |-> v, stale |-> FALSE]
  <2>1. Requested(m, t) /\ MayEdit(who) /\ s \in DOMAIN sheet.marks
    BY <1>2 DEF StartMark
  <2>2. t \in Markings /\ t.op = "mark" /\ t.s = s /\ DecidedOnThis(t)
    BY <2>1 DEF Markings, Corrections, DecidedOnThis
  <2> HIDE DEF t
  <2> QED BY <1>0, <2>1, <2>2, RequestKeeps
<1>3. CASE StartSubmitSheet(m, who)
  <2> DEFINE t == Task("submit", who)
  <2>1. /\ Requested(m, t) /\ MayEdit(who)
        /\ sheet.status = "DRAFT" /\ enrolled \subseteq DOMAIN sheet.marks
    BY <1>3 DEF StartSubmitSheet, Complete
  <2>2. t \in Markings /\ t.op = "submit" /\ DecidedOnThis(t)
    BY <2>1 DEF Task, Markings, Turns, DecidedOnThis
  <2> HIDE DEF t
  <2> QED BY <1>0, <2>1, <2>2, RequestKeeps
<1>4. CASE StartCancelSheet(m, who)
  <2> DEFINE t == Task("cancel", who)
  <2>1. Requested(m, t) /\ MayCancel(who)
    BY <1>4 DEF StartCancelSheet
  <2>2. t \in Markings /\ t.op = "cancel" /\ DecidedOnThis(t)
    BY <2>1 DEF Task, Markings, Turns, DecidedOnThis
  <2> HIDE DEF t
  <2> QED BY <1>0, <2>1, <2>2, RequestKeeps
<1> QED BY <1>1, <1>2, <1>3, <1>4

---------------------------------------------------------------------------
\* Whoever writes, not having been overtaken, is entitled to at that moment.
LEMMA WriterInOrder ==
  ASSUME RegisterInvariant, NEW m \in Markers, marking[m] # NoMarking, WroteSheet(m),
         marking[m].op = "create" => sheet = NoRegister,
         marking[m].op = "cancel" => sheet'.status = "CANCELLED"
  PROVE  StepIsInOrder
<1> SUFFICES ASSUME ~hasty' PROVE sheet.status # "CANCELLED" /\ InTime
  BY DEF StepIsInOrder
<1> DEFINE t == marking[m]
<1>1. t \in Markings /\ marking'[m] = NoMarking /\ ~t.stale
  BY OvertakeMakesStale DEF WroteSheet, RegisterInvariant, RegisterShape
<1>2. DecidedOnThis(t) /\ t.op \in {"create", "mark", "submit", "cancel"}
  BY <1>1, MarkingKinds DEF RegisterInvariant, FreshStand, Markings, Openings, Corrections, Turns
<1>3. t.op # "none" /\ marking'[m].op = "none"
  BY <1>1, <1>2 DEF NoMarking
<1>4. MayMark(t.who)
  BY <1>2 DEF DecidedOnThis, MayEdit, MayCancel
<1>5. sheet = NoRegister => DayAllows(t.who)
  BY <1>2 DEF DecidedOnThis, MayEdit, MayCancel, NoRegister
<1>6. sheet # NoRegister => MayEdit(t.who) \/ (t.op = "cancel" /\ MayCancel(t.who))
  BY <1>2 DEF DecidedOnThis
<1>7. sheet.status # "CANCELLED"
  BY <1>6 DEF MayEdit, MayCancel, NoRegister
<1>8. sheet.status = "SUBMITTED" /\ sheet'.status # "CANCELLED" /\ t.who # "office"
        => today - sheet.handedIn <= CorrectionDays
  <2> SUFFICES ASSUME sheet.status = "SUBMITTED", sheet'.status # "CANCELLED", t.who # "office"
               PROVE  today - sheet.handedIn <= CorrectionDays
    OBVIOUS
  <2>1. sheet # NoRegister
    BY DEF NoRegister
  <2>2. sheet.handedIn \in Nat /\ today \in Nat /\ CorrectionDays \in Nat
    BY <2>1, RegisterAssumption DEF RegisterInvariant, RegisterShape, Sheets
  <2>3. today <= sheet.handedIn + CorrectionDays
    BY <1>6, <2>1 DEF MayEdit
  <2> QED BY <2>2, <2>3
<1> QED BY <1>3, <1>4, <1>5, <1>7, <1>8 DEF InTime, MayMark, DayAllows

LEMMA OpenKeeps ==
  ASSUME RegisterInvariant, NEW m \in Markers, OpenSheet(m)
  PROVE  RegisterInvariant' /\ StepIsInOrder
<1> DEFINE t == marking[m]
<1>1. t.op = "create" /\ t \in Openings /\ t # NoMarking /\ sheet = NoRegister /\ WroteSheet(m)
  BY MarkingKinds DEF OpenSheet, RegisterInvariant, RegisterShape, NoMarking
<1>2. sheet' = [status |-> "DRAFT", marks |-> t.marks, handedIn |-> 0] /\ UNCHANGED joined
  BY DEF OpenSheet
<1>3. sheet' \in Sheets /\ sheet'.status = "DRAFT" /\ sheet'.handedIn = 0 /\ t.stale \in BOOLEAN
  BY <1>1, <1>2 DEF Openings, Sheets
<1>4. marking' \in [Markers -> Markings] /\ RowsAreThere' /\ FreshStand'
  BY <1>1, OvertakenRelyOnNothing DEF RegisterInvariant, WroteSheet
<1>5. RegisterShape' /\ NobodyIsMissing'
  BY <1>1, <1>2, <1>3, <1>4 DEF RegisterInvariant, RegisterShape, NobodyIsMissing, WroteSheet
<1>6. StepIsInOrder
  BY <1>1, WriterInOrder
<1> QED BY <1>4, <1>5, <1>6 DEF RegisterInvariant

LEMMA MarkKeeps ==
  ASSUME RegisterInvariant, NEW m \in Markers, Mark(m)
  PROVE  RegisterInvariant' /\ StepIsInOrder
<1> DEFINE t == marking[m]
           list == [sheet.marks EXCEPT ![t.s] = t.v]
<1>1. t.op = "mark" /\ t \in Corrections /\ t # NoMarking /\ WroteSheet(m) /\ UNCHANGED joined
  BY MarkingKinds DEF Mark, RegisterInvariant, RegisterShape, NoMarking
<1>2. sheet # NoRegister /\ sheet \in Sheets /\ t.s \in DOMAIN sheet.marks /\ t.v \in Marks /\ t.stale \in BOOLEAN
  BY <1>1, RegisterRows DEF RegisterInvariant, RowsAreThere, Corrections
<1>3. list \in MarkLists /\ DOMAIN list = DOMAIN sheet.marks
  BY <1>2 DEF Sheets, MarkLists
<1>4. sheet' = [sheet EXCEPT !.marks = list]
  BY DEF Mark
<1> HIDE DEF list
<1>5. /\ sheet' \in Sheets /\ sheet'.marks = list /\ sheet'.status = sheet.status
      /\ sheet'.handedIn = sheet.handedIn
  BY <1>2, <1>3, <1>4 DEF Sheets
<1>6. sheet' # NoRegister
  BY <1>5 DEF Sheets, NoRegister
<1>7. marking' \in [Markers -> Markings] /\ RowsAreThere' /\ FreshStand'
  BY <1>1, <1>3, <1>5, <1>6, OvertakenRelyOnNothing DEF RegisterInvariant, WroteSheet
<1>8. RegisterShape' /\ NobodyIsMissing'
  BY <1>1, <1>2, <1>3, <1>5, <1>7 DEF RegisterInvariant, RegisterShape, NobodyIsMissing, WroteSheet
<1>9. StepIsInOrder
  BY <1>1, WriterInOrder
<1> QED BY <1>7, <1>8, <1>9 DEF RegisterInvariant

\* Only who has counted the section, and was not overtaken, hands a register in.
LEMMA TurnKeeps ==
  ASSUME RegisterInvariant, NEW m \in Markers, SubmitSheet(m) \/ Cancel(m)
  PROVE  RegisterInvariant' /\ StepIsInOrder
<1> DEFINE t == marking[m]
<1>1. t.op \in {"submit", "cancel"} /\ t \in Turns /\ t # NoMarking /\ WroteSheet(m) /\ joined' = {}
  BY MarkingKinds DEF SubmitSheet, Cancel, RegisterInvariant, RegisterShape, NoMarking
<1>2. sheet # NoRegister /\ sheet \in Sheets /\ t.stale \in BOOLEAN /\ today \in Nat /\ sheet.handedIn <= today
  BY <1>1, RegisterRows DEF RegisterInvariant, RegisterShape, RowsAreThere, Turns
<1>3. /\ sheet' \in Sheets /\ sheet'.marks = sheet.marks /\ sheet'.handedIn <= today
      /\ sheet'.status = "SUBMITTED" => t.op = "submit"
      /\ t.op = "cancel" => sheet'.status = "CANCELLED"
  <2>1. CASE SubmitSheet(m)
    <3>1. t.op = "submit" /\ sheet' = [sheet EXCEPT !.status = "SUBMITTED", !.handedIn = today]
      BY <2>1 DEF SubmitSheet
    <3>2. sheet' = [status |-> "SUBMITTED", marks |-> sheet.marks, handedIn |-> today]
      BY <1>2, <3>1 DEF Sheets
    <3> QED BY <1>2, <3>1, <3>2 DEF Sheets
  <2>2. CASE Cancel(m)
    <3>1. sheet' = [sheet EXCEPT !.status = "CANCELLED"]
      BY <2>2 DEF Cancel
    <3>2. sheet' = [status |-> "CANCELLED", marks |-> sheet.marks, handedIn |-> sheet.handedIn]
      BY <1>2, <3>1 DEF Sheets
    <3> QED BY <1>2, <3>2 DEF Sheets
  <2> QED BY <2>1, <2>2
<1>4. sheet' # NoRegister
  BY <1>3 DEF Sheets, NoRegister
<1>5. marking' \in [Markers -> Markings] /\ RowsAreThere' /\ FreshStand'
  BY <1>1, <1>3, <1>4, OvertakenRelyOnNothing DEF RegisterInvariant, WroteSheet
<1>6. RegisterShape'
  BY <1>1, <1>2, <1>3, <1>5 DEF RegisterInvariant, RegisterShape, WroteSheet
<1>7. NobodyIsMissing'
  <2> SUFFICES ASSUME ~hasty', sheet'.status = "SUBMITTED"
               PROVE  enrolled' \ joined' \subseteq DOMAIN sheet'.marks
    BY DEF NobodyIsMissing
  <2>1. ~t.stale /\ t.op = "submit" /\ enrolled' = enrolled
    BY <1>1, <1>3 DEF WroteSheet
  <2>2. enrolled \subseteq DOMAIN sheet.marks
    BY <1>1, <2>1 DEF RegisterInvariant, FreshStand, DecidedOnThis
  <2> QED BY <1>3, <2>1, <2>2
<1>8. StepIsInOrder
  BY <1>1, <1>3, WriterInOrder
<1> QED BY <1>5, <1>6, <1>7, <1>8 DEF RegisterInvariant

\* Around the register nothing touches it; who joins a section whose register is
\* handed in is known to have joined later.
LEMMA AroundKeeps ==
  ASSUME RegisterInvariant,
         \/ \E s \in Roster : Enrol(s)
         \/ \E who \in Teachers \cup {Nobody} : Timetable(who) \/ Appoint(who)
         \/ NextDay
  PROVE  RegisterInvariant' /\ UNCHANGED sheet
<1>1. Overtake("nobody") /\ UNCHANGED <<sheet, hasty>>
  BY DEF Enrol, Timetable, Appoint, NextDay
<1>2. marking' \in [Markers -> Markings] /\ RowsAreThere' /\ FreshStand'
  <2> DEFINE but == "nobody"
  <2>1. Overtake(but)
    BY <1>1
  <2> HIDE DEF but
  <2> QED BY <1>1, <2>1, OvertakenRelyOnNothing DEF RegisterInvariant
<1>3. RegisterShape'
  <2>1. /\ enrolled' \subseteq Roster /\ joined' \subseteq Roster
        /\ first' \in Teachers \cup {Nobody} /\ incharge' \in Teachers \cup {Nobody}
    BY DEF Enrol, Timetable, Appoint, NextDay, RegisterInvariant, RegisterShape
  <2>2. today' \in 0..LastDay /\ today \in Nat /\ today <= today' /\ today' \in Nat
    BY RegisterAssumption DEF Enrol, Timetable, Appoint, NextDay, RegisterInvariant, RegisterShape
  <2>3. sheet' # NoRegister => sheet'.handedIn <= today'
    BY <1>1, <2>2, RegisterRows DEF RegisterInvariant, RegisterShape, Sheets
  <2> QED BY <1>1, <1>2, <2>1, <2>2, <2>3 DEF RegisterInvariant, RegisterShape
<1>4. NobodyIsMissing'
  BY <1>1 DEF Enrol, Timetable, Appoint, NextDay, RegisterInvariant, NobodyIsMissing
<1> QED BY <1>1, <1>2, <1>3, <1>4 DEF RegisterInvariant

LEMMA ExistsKeeps ==
  ASSUME RegisterInvariant, NEW m \in Markers, SheetExists(m)
  PROVE  RegisterInvariant' /\ UNCHANGED sheet
<1>1. NoMarking \in Markings /\ NoMarking.op = "none"
  BY DEF Markings, NoMarking
<1>2. /\ marking' = [marking EXCEPT ![m] = NoMarking]
      /\ UNCHANGED <<sheet, enrolled, first, incharge, today, joined, hasty>>
  BY DEF SheetExists
<1>3. RegisterShape' /\ RowsAreThere' /\ NobodyIsMissing'
  BY <1>1, <1>2 DEF RegisterInvariant, RegisterShape, RowsAreThere, NobodyIsMissing
<1>4. FreshStand'
  BY <1>1, <1>2 DEF RegisterInvariant, RegisterShape, FreshStand, DecidedOnThis, DayAllows, MayMark, MayEdit, MayCancel
<1> QED BY <1>2, <1>3, <1>4 DEF RegisterInvariant

LEMMA RegisterStepHolds ==
  ASSUME RegisterInvariant, [RegisterNext]_registerVars
  PROVE  RegisterInvariant' /\ StepIsInOrder
<1>1. CASE UNCHANGED registerVars
  BY <1>1 DEF registerVars, RegisterInvariant, RegisterShape, RowsAreThere, FreshStand, NobodyIsMissing,
              DecidedOnThis, DayAllows, MayMark, MayEdit, MayCancel, StepIsInOrder
<1>2. UNCHANGED sheet => StepIsInOrder
  BY DEF StepIsInOrder
<1> QED BY <1>1, <1>2, MarkingStartKeeps, OpenKeeps, ExistsKeeps, MarkKeeps, TurnKeeps, AroundKeeps DEF RegisterNext

\* For any section and any overlap of requests, unless one wrote on what had changed:
\* everybody of the section is on a register that counts, a cancelled one is closed to
\* everyone, and a teacher opens it and corrects its rows in their time.
THEOREM RegisterIsKeptHolds == RegisterSpec => RegisterIsKept
<1> DEFINE Kept == RegisterTypeOK /\ NobodyIsMissing
           Closed == sheet.status = "CANCELLED" /\ ~hasty' => sheet' = sheet
           Timely == ~hasty' /\ sheet' # sheet => InTime
<1>1. RegisterInvariant => Kept
  <2> SUFFICES ASSUME RegisterInvariant PROVE RegisterTypeOK
    BY DEF RegisterInvariant
  <2>1. sheet # NoRegister =>
          /\ sheet.status \in {"DRAFT", "SUBMITTED", "CANCELLED"}
          /\ DOMAIN sheet.marks \subseteq Roster /\ \A s \in DOMAIN sheet.marks : sheet.marks[s] \in Marks
          /\ sheet.handedIn \in 0..today
    BY RegisterRows DEF RegisterInvariant, RegisterShape, Sheets, MarkLists
  <2> QED BY <2>1 DEF RegisterInvariant, RegisterShape, RegisterTypeOK
<1>2. RegisterInvariant /\ [RegisterNext]_registerVars => RegisterInvariant'
  BY RegisterStepHolds
<1>3. RegisterInvariant /\ [RegisterNext]_registerVars => [Closed]_registerVars /\ [Timely]_registerVars
  BY RegisterStepHolds DEF StepIsInOrder
<1>4. RegisterInit => RegisterInvariant
  BY RegisterInitHolds
<1> QED BY <1>1, <1>2, <1>3, <1>4, PTL
        DEF RegisterSpec, RegisterIsKept, CancelledIsClosed, TeachersInTheirTime, InTime

---------------------------------------------------------------------------
\* Academic years, their groups, sections and subjects.

GroupRows == Years \X Combos
ClassRows == Years \X Combos \X Names

\* The requests a dean may have in flight.
Reforms ==
  {NoReform}
    \cup [op : {"current", "delete"}, year : Years, late : BOOLEAN]
    \cup [op : {"groups"}, year : Years, combos : SUBSET Combos, topics : SUBSET Years,
          wanted : SUBSET ClassRows, late : BOOLEAN]
    \cup [op : {"drop"}, sections : SUBSET ClassRows, gone : SUBSET GroupRows, late : BOOLEAN]
    \cup [op : {"curriculum"}, year : Years, cut : SUBSET Topics, add : SUBSET Topics, late : BOOLEAN]

\* The groups a request makes are those of the sections it makes, and no others.
WantsItsGroups(t) ==
  t.op = "groups" =>
    /\ \A s \in t.wanted : s[1] = t.year /\ s[2] \in t.combos
    /\ \A c \in t.combos : \E s \in t.wanted : s[2] = c

AcademicShape ==
  /\ DOMAIN years \subseteq Years
  /\ \A y \in DOMAIN years : years[y] \in BOOLEAN
  /\ groups \subseteq GroupRows /\ DOMAIN classes \subseteq ClassRows
  /\ syllabus \subseteq Years \X Topics
  /\ reform \in [Deans -> Reforms] /\ \A d \in Deans : WantsItsGroups(reform[d])
  /\ {chosen, undercut} \subseteq BOOLEAN

\* A year about to be deleted by a request nobody overtook is not the current one.
DeletersKnow ==
  \A d \in Deans : reform[d].op = "delete" /\ ~reform[d].late /\ reform[d].year \in DOMAIN years
                     => ~years[reform[d].year]

AtMostOneCurrent == \A y, z \in DOMAIN years : years[y] /\ years[z] => y = z
OneOnceChosen == chosen /\ ~undercut => \E y \in DOMAIN years : years[y]

AcademicInvariant ==
  AcademicShape /\ DeletersKnow /\ AtMostOneCurrent /\ OneOnceChosen /\ StructureHoldsTogether

\* What GroupsComeWithASection says of a step.
GroupsCameWithASection ==
  \A g \in groups' \ groups : \E s \in DOMAIN classes' : <<s[1], s[2]>> = g

---------------------------------------------------------------------------
LEMMA LateReform ==
  ASSUME NEW t \in Reforms, t # NoReform
  PROVE  /\ [t EXCEPT !.late = TRUE] \in Reforms /\ [t EXCEPT !.late = TRUE].late
         /\ [t EXCEPT !.late = TRUE].op = t.op
         /\ WantsItsGroups(t) => WantsItsGroups([t EXCEPT !.late = TRUE])
<1>1. CASE t \in [op : {"current", "delete"}, year : Years, late : BOOLEAN]
  BY <1>1 DEF Reforms, WantsItsGroups
<1>2. CASE t \in [op : {"groups"}, year : Years, combos : SUBSET Combos, topics : SUBSET Years,
                  wanted : SUBSET ClassRows, late : BOOLEAN]
  BY <1>2 DEF Reforms, WantsItsGroups
<1>3. CASE t \in [op : {"drop"}, sections : SUBSET ClassRows, gone : SUBSET GroupRows, late : BOOLEAN]
  BY <1>3 DEF Reforms, WantsItsGroups
<1>4. CASE t \in [op : {"curriculum"}, year : Years, cut : SUBSET Topics, add : SUBSET Topics, late : BOOLEAN]
  BY <1>4 DEF Reforms, WantsItsGroups
<1> QED BY <1>1, <1>2, <1>3, <1>4, Zenon DEF Reforms

LEMMA NoReformWants == NoReform \in Reforms /\ WantsItsGroups(NoReform) /\ NoReform.op = "none"
BY DEF Reforms, WantsItsGroups, NoReform

\* A write makes every other request late, so that none has to know anything.
LEMMA OutrunKeeps ==
  ASSUME reform \in [Deans -> Reforms], \A d \in Deans : WantsItsGroups(reform[d]), NEW d,
         reform' = Outrun(d, NoReform)
  PROVE  /\ reform' \in [Deans -> Reforms] /\ \A e \in Deans : WantsItsGroups(reform'[e])
         /\ \A e \in Deans : reform'[e] = NoReform \/ reform'[e].late
<1> DEFINE Marked(e) == [reform[e] EXCEPT !.late = TRUE]
<1>1. \A e \in Deans : reform[e] # NoReform =>
        /\ Marked(e) \in Reforms /\ Marked(e).late
        /\ WantsItsGroups(reform[e]) => WantsItsGroups(Marked(e))
  BY LateReform, Zenon
<1>2. reform' = [e \in Deans |-> IF e = d THEN NoReform ELSE IF reform[e] = NoReform THEN NoReform ELSE Marked(e)]
  BY Zenon DEF Outrun
<1> HIDE DEF Marked
<1> QED BY <1>1, <1>2, NoReformWants

LEMMA AcademicInitHolds == AcademicInit => AcademicInvariant
<1> SUFFICES ASSUME AcademicInit PROVE AcademicInvariant
  OBVIOUS
<1>1. DOMAIN years = {} /\ groups = {} /\ DOMAIN classes = {} /\ syllabus = {}
      /\ reform = [d \in Deans |-> NoReform] /\ chosen = FALSE /\ undercut = FALSE /\ years = <<>>
  BY DEF AcademicInit
<1>2. AcademicShape
  BY <1>1, NoReformWants DEF AcademicShape
<1> QED BY <1>1, <1>2, NoReformWants
        DEF AcademicInvariant, DeletersKnow, AtMostOneCurrent, OneOnceChosen, StructureHoldsTogether

\* A write, whatever it writes: the requests it leaves know what they need to.
LEMMA WritesLeaveRequests ==
  ASSUME AcademicShape, NEW d, reform' = Outrun(d, NoReform)
  PROVE  reform' \in [Deans -> Reforms] /\ (\A e \in Deans : WantsItsGroups(reform'[e])) /\ DeletersKnow'
<1>1. /\ reform' \in [Deans -> Reforms] /\ \A e \in Deans : WantsItsGroups(reform'[e])
      /\ \A e \in Deans : reform'[e] = NoReform \/ reform'[e].late
  BY OutrunKeeps DEF AcademicShape
<1>2. DeletersKnow'
  BY <1>1, NoReformWants DEF DeletersKnow
<1> QED BY <1>1, <1>2

\* What a write does besides.
LEMMA WroteLeavesRequests ==
  ASSUME AcademicShape, NEW d, Wrote(d)
  PROVE  /\ reform' \in [Deans -> Reforms] /\ (\A e \in Deans : WantsItsGroups(reform'[e])) /\ DeletersKnow'
         /\ UNCHANGED undercut
BY WritesLeaveRequests DEF Wrote

---------------------------------------------------------------------------
\* A request that has read what it needs changes nothing but that it is there.
LEMMA PreparedKeeps ==
  ASSUME AcademicInvariant, NEW d \in Deans, NEW t \in Reforms, Prepared(d, t), WantsItsGroups(t),
         t.op = "delete" /\ t.year \in DOMAIN years => ~years[t.year]
  PROVE  AcademicInvariant' /\ GroupsCameWithASection
<1> USE DEF AcademicInvariant
<1>1. UNCHANGED <<years, groups, classes, syllabus, chosen, undercut>> /\ reform' = [reform EXCEPT ![d] = t]
  BY DEF Prepared
<1>2. reform' \in [Deans -> Reforms] /\ \A e \in Deans : reform'[e] \in {reform[e], t} /\ (e # d => reform'[e] = reform[e])
  BY <1>1 DEF AcademicShape
<1>3. AcademicShape'
  BY <1>1, <1>2 DEF AcademicShape, WantsItsGroups
<1>4. DeletersKnow'
  BY <1>1, <1>2 DEF DeletersKnow
<1> QED BY <1>1, <1>3, <1>4 DEF AtMostOneCurrent, OneOnceChosen, StructureHoldsTogether, GroupsCameWithASection

LEMMA StartsPrepare ==
  ASSUME AcademicInvariant, NEW d \in Deans, NEW y \in DOMAIN years,
         \/ StartCurrent(d, y) \/ StartDeleteYear(d, y)
         \/ \E cs \in SUBSET Combos, n \in Names : StartGroups(d, y, cs, n)
         \/ \E z \in DOMAIN years, topics \in SUBSET {y} : StartCopyYear(d, y, z, topics)
  PROVE  AcademicInvariant' /\ GroupsCameWithASection
<1>0. y \in Years
  BY DEF AcademicInvariant, AcademicShape
<1>1. CASE StartCurrent(d, y)
  <2> DEFINE t == [op |-> "current", year |-> y, late |-> FALSE]
  <2>1. t \in Reforms /\ WantsItsGroups(t) /\ t.op # "delete"
    BY <1>0 DEF Reforms, WantsItsGroups
  <2> QED BY <1>1, <2>1, PreparedKeeps DEF StartCurrent
<1>2. CASE StartDeleteYear(d, y)
  <2> DEFINE t == [op |-> "delete", year |-> y, late |-> FALSE]
  <2>1. t \in Reforms /\ WantsItsGroups(t) /\ t.year = y
    BY <1>0 DEF Reforms, WantsItsGroups
  <2>2. ~years[y]
    BY <1>2 DEF StartDeleteYear, MayDeleteYear
  <2> QED BY <1>2, <2>1, <2>2, PreparedKeeps DEF StartDeleteYear
<1>3. ASSUME NEW z \in Years, NEW cs \in SUBSET Combos, NEW topics \in SUBSET Years, NEW wanted \in SUBSET ClassRows,
             \A s \in wanted : s[1] = z /\ s[2] \in cs, \A c \in cs : \E s \in wanted : s[2] = c,
             Prepared(d, [op |-> "groups", year |-> z, combos |-> cs, topics |-> topics,
                          wanted |-> wanted, late |-> FALSE])
      PROVE  AcademicInvariant' /\ GroupsCameWithASection
  <2> DEFINE t == [op |-> "groups", year |-> z, combos |-> cs, topics |-> topics,
                   wanted |-> wanted, late |-> FALSE]
  <2>1. t \in Reforms /\ WantsItsGroups(t) /\ t.op # "delete"
    BY <1>3 DEF Reforms, WantsItsGroups
  <2> QED BY <1>3, <2>1, PreparedKeeps
<1>4. ASSUME NEW cs \in SUBSET Combos, NEW n \in Names, StartGroups(d, y, cs, n)
      PROVE  AcademicInvariant' /\ GroupsCameWithASection
  <2> DEFINE new == cs \ CombosIn(y)
             wanted == {<<y, c, n>> : c \in new}
  <2>1. wanted \in SUBSET ClassRows /\ \A s \in wanted : s[1] = y /\ s[2] \in new
    BY <1>0 DEF ClassRows
  <2>2. \A c \in new : \E s \in wanted : s[2] = c
    <3> TAKE c \in new
    <3>1. <<y, c, n>> \in wanted
      OBVIOUS
    <3> WITNESS <<y, c, n>> \in wanted
    <3> QED OBVIOUS
  <2>3. Prepared(d, [op |-> "groups", year |-> y, combos |-> new, topics |-> {},
                     wanted |-> wanted, late |-> FALSE])
    BY <1>4 DEF StartGroups
  <2>4. new \in SUBSET Combos
    OBVIOUS
  <2> HIDE DEF new, wanted
  <2> QED BY <1>0, <1>3, <2>1, <2>2, <2>3, <2>4
<1>5. ASSUME NEW z \in DOMAIN years, NEW topics \in SUBSET {y}, StartCopyYear(d, y, z, topics)
      PROVE  AcademicInvariant' /\ GroupsCameWithASection
  <2>0. z \in Years
    BY DEF AcademicInvariant, AcademicShape
  <2> DEFINE new == CombosIn(y) \ CombosIn(z)
             wanted == UNION {{<<z, c, n>> : n \in NamesToCopy(y, c)} : c \in new}
  <2>1. \A c : NamesToCopy(y, c) \subseteq Names /\ NamesToCopy(y, c) # {}
    BY YearAssumption DEF NamesToCopy, NamesActive
  <2>2. new \in SUBSET Combos
    BY DEF CombosIn
  <2>3. wanted \in SUBSET ClassRows /\ \A s \in wanted : s[1] = z /\ s[2] \in new
    <3> SUFFICES ASSUME NEW s \in wanted PROVE s \in ClassRows /\ s[1] = z /\ s[2] \in new
      OBVIOUS
    <3>1. PICK c \in new : s \in {<<z, c, n>> : n \in NamesToCopy(y, c)}
      OBVIOUS
    <3>2. PICK n \in NamesToCopy(y, c) : s = <<z, c, n>>
      BY <3>1
    <3> QED BY <2>0, <2>1, <2>2, <3>2 DEF ClassRows
  <2>4. \A c \in new : \E s \in wanted : s[2] = c
    <3> TAKE c \in new
    <3>1. PICK n : n \in NamesToCopy(y, c)
      BY <2>1
    <3>2. <<z, c, n>> \in wanted
      BY <3>1
    <3> WITNESS <<z, c, n>> \in wanted
    <3> QED OBVIOUS
  <2>5. Prepared(d, [op |-> "groups", year |-> z, combos |-> new, topics |-> topics,
                     wanted |-> wanted, late |-> FALSE])
    BY <1>5 DEF StartCopyYear
  <2>6. topics \in SUBSET Years
    BY <1>0
  <2> HIDE DEF new, wanted
  <2> QED BY <1>3, <2>0, <2>2, <2>3, <2>4, <2>5, <2>6
<1> QED BY <1>1, <1>2, <1>4, <1>5

LEMMA DropStarts ==
  ASSUME AcademicInvariant, NEW d \in Deans, NEW sections \in SUBSET DOMAIN classes, NEW gone \in SUBSET groups,
         StartDrop(d, sections, gone)
  PROVE  AcademicInvariant' /\ GroupsCameWithASection
<1> DEFINE t == [op |-> "drop", sections |-> sections, gone |-> gone, late |-> FALSE]
<1>1. sections \in SUBSET ClassRows /\ gone \in SUBSET GroupRows
  BY DEF AcademicInvariant, AcademicShape
<1>2. t \in Reforms /\ WantsItsGroups(t) /\ t.op # "delete"
  BY <1>1 DEF Reforms, WantsItsGroups
<1> QED BY <1>2, PreparedKeeps DEF StartDrop

---------------------------------------------------------------------------
\* Writes.

LEMMA CreatingYearKeeps ==
  ASSUME AcademicInvariant, NEW y \in Years, CreateYear(y)
  PROVE  AcademicInvariant' /\ GroupsCameWithASection
<1> USE DEF AcademicInvariant
<1>1. /\ y \notin DOMAIN years /\ years' = [z \in DOMAIN years \cup {y} |-> z # y /\ years[z]]
      /\ UNCHANGED <<groups, classes, syllabus, chosen, undercut>> /\ Wrote("nobody")
  BY DEF CreateYear, AtOnce, Wrote
<1>2. DOMAIN years' = DOMAIN years \cup {y} /\ ~years'[y] /\ \A z \in DOMAIN years : years'[z] = years[z]
  BY <1>1 DEF AcademicShape
<1>3. AcademicShape' /\ DeletersKnow'
  BY <1>1, <1>2, WroteLeavesRequests DEF AcademicShape
<1>4. AtMostOneCurrent' /\ OneOnceChosen'
  BY <1>1, <1>2 DEF AtMostOneCurrent, OneOnceChosen
<1>5. StructureHoldsTogether' /\ GroupsCameWithASection
  BY <1>1, <1>2 DEF StructureHoldsTogether, GroupsCameWithASection
<1> QED BY <1>3, <1>4, <1>5

LEMMA CurrentKeeps ==
  ASSUME AcademicInvariant, NEW d \in Deans, SetCurrent(d)
  PROVE  AcademicInvariant' /\ GroupsCameWithASection
<1> USE DEF AcademicInvariant
<1>1. UNCHANGED <<groups, classes, syllabus>> /\ Wrote(d)
  BY DEF SetCurrent
<1>2. \/ UNCHANGED <<years, chosen>>
      \/ /\ reform[d].year \in DOMAIN years /\ chosen' = TRUE
         /\ years' = [z \in DOMAIN years |-> z = reform[d].year]
  BY DEF SetCurrent, WithCurrent
<1>3. AcademicShape' /\ DeletersKnow'
  BY <1>1, <1>2, WroteLeavesRequests DEF AcademicShape
<1>4. UNCHANGED undercut
  BY <1>1, WroteLeavesRequests
<1>5. AtMostOneCurrent' /\ OneOnceChosen'
  <2>1. CASE UNCHANGED <<years, chosen>>
    BY <1>4, <2>1 DEF AtMostOneCurrent, OneOnceChosen
  <2>2. CASE /\ reform[d].year \in DOMAIN years
             /\ years' = [z \in DOMAIN years |-> z = reform[d].year]
    <3>1. DOMAIN years' = DOMAIN years /\ \A z \in DOMAIN years : years'[z] <=> z = reform[d].year
      BY <2>2, Zenon
    <3> QED BY <2>2, <3>1 DEF AtMostOneCurrent, OneOnceChosen
  <2> QED BY <1>2, <2>1, <2>2
<1>6. StructureHoldsTogether' /\ GroupsCameWithASection
  BY <1>1, <1>2 DEF StructureHoldsTogether, GroupsCameWithASection
<1> QED BY <1>3, <1>5, <1>6

\* The year that goes has nothing in it; unless the request was overtaken it is not
\* the current one.
LEMMA DeletingYearKeeps ==
  ASSUME AcademicInvariant, NEW d \in Deans, DeleteYear(d)
  PROVE  AcademicInvariant' /\ GroupsCameWithASection
<1> USE DEF AcademicInvariant
<1> DEFINE y == reform[d].year
<1>1. /\ UNCHANGED <<groups, classes, syllabus, chosen>> /\ reform' = Outrun(d, NoReform)
      /\ undercut' = (undercut \/ (reform[d].late /\ years' # years))
  BY DEF DeleteYear
<1>2. \/ years' = years
      \/ /\ CombosIn(y) = {} /\ \A k \in syllabus : k[1] # y
         /\ years' = [z \in DOMAIN years \ {y} |-> years[z]]
  BY DEF DeleteYear
<1>3. CASE years' = years
  <2>1. AcademicShape' /\ DeletersKnow'
    BY <1>1, <1>3, WritesLeaveRequests DEF AcademicShape
  <2>2. undercut => undercut'
    BY <1>1
  <2> QED BY <1>1, <1>3, <2>1, <2>2
          DEF AtMostOneCurrent, OneOnceChosen, StructureHoldsTogether, GroupsCameWithASection
<1>4. CASE /\ CombosIn(y) = {} /\ \A k \in syllabus : k[1] # y
           /\ years' = [z \in DOMAIN years \ {y} |-> years[z]]
  <2>1. DOMAIN years' = DOMAIN years \ {y} /\ \A z \in DOMAIN years' : years'[z] = years[z]
    BY <1>4
  <2>2. AcademicShape' /\ DeletersKnow'
    BY <1>1, <2>1, WritesLeaveRequests DEF AcademicShape
  <2>3. AtMostOneCurrent'
    BY <2>1 DEF AtMostOneCurrent
  <2>4. OneOnceChosen'
    <3>1. ~reform[d].late /\ y \in DOMAIN years => ~years[y]
      BY DEF DeletersKnow, DeleteYear
    <3>2. reform[d].late \in BOOLEAN
      <4>1. reform[d] \in Reforms /\ reform[d].op = "delete"
        BY DEF AcademicShape, DeleteYear
      <4> QED BY <4>1, NoReformWants DEF Reforms
    <3>3. years' = years \/ (undercut' = (undercut \/ reform[d].late))
      BY <1>1
    <3> QED BY <1>1, <2>1, <3>1, <3>2, <3>3 DEF OneOnceChosen, AcademicShape
  <2>5. StructureHoldsTogether'
    <3>1. \A g \in groups : g[1] # y
      <4> SUFFICES ASSUME NEW g \in groups, g[1] = y PROVE FALSE
        OBVIOUS
      <4>1. g[2] \in Combos /\ g = <<y, g[2]>>
        BY DEF AcademicShape, GroupRows
      <4> QED BY <1>4, <4>1 DEF CombosIn
    <3> QED BY <1>1, <1>4, <2>1, <3>1 DEF StructureHoldsTogether
  <2> QED BY <1>1, <2>2, <2>3, <2>4, <2>5 DEF GroupsCameWithASection
<1> QED BY <1>2, <1>3, <1>4

\* Groups come with their sections, into a year that is there.
LEMMA WritingGroupsKeeps ==
  ASSUME AcademicInvariant, NEW d \in Deans, WriteGroups(d)
  PROVE  AcademicInvariant' /\ GroupsCameWithASection
<1> USE DEF AcademicInvariant
<1>1. PICK t : t = reform[d]
  OBVIOUS
<1>2. UNCHANGED <<years, chosen>> /\ Wrote(d)
  BY DEF WriteGroups
<1>3. DeletersKnow' /\ AtMostOneCurrent' /\ OneOnceChosen'
  BY <1>2, WroteLeavesRequests DEF AtMostOneCurrent, OneOnceChosen
<1> DEFINE made == {<<t.year, c>> : c \in t.combos}
           topics == {k \in Topics : \E z \in t.topics : <<z, k>> \in syllabus}
<1>4. \/ UNCHANGED <<groups, classes, syllabus>>
      \/ /\ t.year \in DOMAIN years /\ groups' = groups \cup made
         /\ classes' = WithSections(t.wanted)
         /\ syllabus' = syllabus \cup {<<t.year, k>> : k \in topics}
  BY <1>1 DEF WriteGroups
<1>5. CASE UNCHANGED <<groups, classes, syllabus>>
  <2>1. AcademicShape'
    BY <1>2, <1>5, WroteLeavesRequests DEF AcademicShape
  <2> QED BY <1>2, <1>3, <1>5, <2>1 DEF StructureHoldsTogether, GroupsCameWithASection
<1>6. CASE /\ t.year \in DOMAIN years /\ groups' = groups \cup made
           /\ classes' = WithSections(t.wanted)
           /\ syllabus' = syllabus \cup {<<t.year, k>> : k \in topics}
  <2>1. /\ t.year \in Years /\ t.combos \subseteq Combos /\ t.wanted \subseteq ClassRows
        /\ \A s \in t.wanted : s[1] = t.year /\ s[2] \in t.combos
        /\ \A c \in t.combos : \E s \in t.wanted : s[2] = c
    <3>1. t \in Reforms /\ t.op = "groups" /\ WantsItsGroups(t)
      BY <1>1 DEF AcademicShape, WriteGroups
    <3>2. t \in [op : {"groups"}, year : Years, combos : SUBSET Combos, topics : SUBSET Years,
                 wanted : SUBSET ClassRows, late : BOOLEAN]
      BY <3>1, NoReformWants DEF Reforms
    <3> QED BY <3>1, <3>2 DEF WantsItsGroups
  <2>2. DOMAIN classes' = DOMAIN classes \cup t.wanted
    BY <1>6 DEF WithSections
  <2>3. made \subseteq GroupRows
    BY <2>1 DEF GroupRows
  <2>4. \A g \in made : g[1] = t.year /\ \E s \in t.wanted : <<s[1], s[2]>> = g
    <3> SUFFICES ASSUME NEW g \in made PROVE g[1] = t.year /\ \E s \in t.wanted : <<s[1], s[2]>> = g
      OBVIOUS
    <3>1. PICK c \in t.combos : g = <<t.year, c>>
      OBVIOUS
    <3>2. PICK s \in t.wanted : s[2] = c
      BY <2>1
    <3> QED BY <2>1, <3>1, <3>2
  <2>5. \A s \in t.wanted : <<s[1], s[2]>> \in made
    BY <2>1
  <2>6. {<<t.year, k>> : k \in topics} \subseteq Years \X Topics /\ \A k \in {<<t.year, k>> : k \in topics} : k[1] = t.year
    BY <2>1
  <2> HIDE DEF made, topics
  <2>7. AcademicShape'
    BY <1>2, <1>6, <2>1, <2>2, <2>3, <2>6, WroteLeavesRequests DEF AcademicShape
  <2>8. StructureHoldsTogether'
    BY <1>2, <1>6, <2>2, <2>4, <2>5, <2>6 DEF StructureHoldsTogether
  <2>9. GroupsCameWithASection
    BY <1>6, <2>2, <2>4 DEF GroupsCameWithASection
  <2> QED BY <1>3, <2>7, <2>8, <2>9
<1> QED BY <1>4, <1>5, <1>6

\* The sections of a group that goes, go with it.
LEMMA DroppingKeeps ==
  ASSUME AcademicInvariant, NEW d \in Deans, DropSections(d)
  PROVE  AcademicInvariant' /\ GroupsCameWithASection
<1> USE DEF AcademicInvariant
<1>1. PICK gone : gone = reform[d].gone
  OBVIOUS
<1>2. PICK going : going = {s \in DOMAIN classes : s \in reform[d].sections \/ <<s[1], s[2]>> \in gone}
  OBVIOUS
<1>3. UNCHANGED <<years, syllabus, chosen>> /\ Wrote(d)
  BY DEF DropSections
<1>4. \/ UNCHANGED <<groups, classes>>
      \/ classes' = [s \in DOMAIN classes \ going |-> classes[s]] /\ groups' = groups \ gone
  BY <1>1, <1>2 DEF DropSections
<1>5. DOMAIN classes' \subseteq DOMAIN classes /\ groups' \subseteq groups
  BY <1>4
<1>6. AcademicShape'
  BY <1>3, <1>5, WroteLeavesRequests DEF AcademicShape
<1>7. DeletersKnow' /\ AtMostOneCurrent' /\ OneOnceChosen'
  BY <1>3, WroteLeavesRequests DEF AtMostOneCurrent, OneOnceChosen
<1>8. \A s \in DOMAIN classes' : <<s[1], s[2]>> \in groups'
  BY <1>2, <1>4 DEF StructureHoldsTogether
<1>9. StructureHoldsTogether' /\ GroupsCameWithASection
  BY <1>3, <1>5, <1>8 DEF StructureHoldsTogether, GroupsCameWithASection
<1> QED BY <1>6, <1>7, <1>9

\* Handlers of one step.
LEMMA AtOnceKeeps ==
  ASSUME AcademicInvariant,
         \/ \E g \in groups, n \in Names, active \in BOOLEAN : SaveSection(g, n, active)
         \/ \E s \in DOMAIN classes : UseSection(s)
  PROVE  AcademicInvariant' /\ GroupsCameWithASection
<1> USE DEF AcademicInvariant
<1>1. UNCHANGED <<years, groups, syllabus, chosen>> /\ Wrote("nobody")
  BY DEF SaveSection, UseSection, AtOnce
<1>2. DeletersKnow' /\ AtMostOneCurrent' /\ OneOnceChosen'
  BY <1>1, WroteLeavesRequests DEF AtMostOneCurrent, OneOnceChosen
<1>3. \A s \in DOMAIN classes' : <<s[1], s[2]>> \in groups /\ s \in ClassRows
  <2>1. ASSUME NEW g \in groups, NEW n \in Names, NEW active, SaveSection(g, n, active), NEW s \in DOMAIN classes'
        PROVE  <<s[1], s[2]>> \in groups /\ s \in ClassRows
    <3>1. DOMAIN classes' = DOMAIN classes \cup {<<g[1], g[2], n>>}
      BY <2>1 DEF SaveSection
    <3>2. g = <<g[1], g[2]>> /\ g[1] \in Years /\ g[2] \in Combos
      BY DEF AcademicShape, GroupRows
    <3> QED BY <3>1, <3>2 DEF AcademicShape, StructureHoldsTogether, ClassRows
  <2>2. CASE \E s \in DOMAIN classes : UseSection(s)
    <3>1. DOMAIN classes' = DOMAIN classes
      BY <2>2 DEF UseSection
    <3> QED BY <3>1 DEF AcademicShape, StructureHoldsTogether
  <2> QED BY <2>1, <2>2
<1>4. AcademicShape'
  BY <1>1, <1>3, WroteLeavesRequests DEF AcademicShape
<1>5. StructureHoldsTogether' /\ GroupsCameWithASection
  BY <1>1, <1>3 DEF StructureHoldsTogether, GroupsCameWithASection
<1> QED BY <1>2, <1>4, <1>5

\* A curriculum saved over another: what comes, comes into a year that is there.
LEMMA CurriculumStarts ==
  ASSUME AcademicInvariant, NEW d \in Deans, NEW y \in DOMAIN years, NEW topics \in SUBSET Topics,
         StartCurriculum(d, y, topics)
  PROVE  AcademicInvariant' /\ GroupsCameWithASection
<1> DEFINE listed == {k[2] : k \in {k \in syllabus : k[1] = y}}
           t == [op |-> "curriculum", year |-> y, cut |-> listed \ topics,
                 add |-> topics \ listed, late |-> FALSE]
<1>1. y \in Years /\ listed \ topics \in SUBSET Topics /\ topics \ listed \in SUBSET Topics
  BY DEF AcademicInvariant, AcademicShape
<1>2. Prepared(d, t)
  BY DEF StartCurriculum
<1> HIDE DEF listed
<1>3. t \in Reforms /\ WantsItsGroups(t) /\ t.op # "delete"
  BY <1>1 DEF Reforms, WantsItsGroups
<1> QED BY <1>2, <1>3, PreparedKeeps

LEMMA CurriculumKeeps ==
  ASSUME AcademicInvariant, NEW d \in Deans, SetCurriculum(d)
  PROVE  AcademicInvariant' /\ GroupsCameWithASection
<1> USE DEF AcademicInvariant
<1>1. PICK t : t = reform[d]
  OBVIOUS
<1>2. UNCHANGED <<years, groups, classes, chosen>> /\ Wrote(d)
  BY DEF SetCurriculum
<1>3. t.year \in Years /\ t.add \subseteq Topics
  <2>1. t \in Reforms /\ t.op = "curriculum"
    BY <1>1 DEF AcademicShape, SetCurriculum
  <2> QED BY <2>1, NoReformWants DEF Reforms
<1>4. \/ syllabus' = syllabus
      \/ /\ t.year \in DOMAIN years
         /\ \A k \in syllabus' : k \in syllabus \/ \E a \in t.add : k = <<t.year, a>>
  BY <1>1 DEF SetCurriculum
<1>5. syllabus' \subseteq Years \X Topics /\ \A k \in syllabus' : k[1] \in DOMAIN years
  BY <1>3, <1>4 DEF AcademicShape, StructureHoldsTogether
<1>6. AcademicShape' /\ DeletersKnow' /\ AtMostOneCurrent' /\ OneOnceChosen'
  BY <1>2, <1>5, WroteLeavesRequests DEF AcademicShape, AtMostOneCurrent, OneOnceChosen
<1>7. StructureHoldsTogether' /\ GroupsCameWithASection
  BY <1>2, <1>5 DEF StructureHoldsTogether, GroupsCameWithASection
<1> QED BY <1>6, <1>7

---------------------------------------------------------------------------
LEMMA EveryAcademicStepKeeps ==
  AcademicInvariant /\ [AcademicNext]_academicVars => AcademicInvariant' /\ GroupsCameWithASection
<1> SUFFICES ASSUME AcademicInvariant, [AcademicNext]_academicVars
             PROVE  AcademicInvariant' /\ GroupsCameWithASection
  OBVIOUS
<1>1. CASE UNCHANGED academicVars
  BY <1>1 DEF academicVars, AcademicInvariant, AcademicShape, WantsItsGroups, DeletersKnow, AtMostOneCurrent,
              OneOnceChosen, StructureHoldsTogether, GroupsCameWithASection
<1>2. ASSUME NEW d \in Deans, NEW g \in groups, StartDrop(d, SectionsOf(g), {g})
      PROVE  AcademicInvariant' /\ GroupsCameWithASection
  <2>1. SectionsOf(g) \in SUBSET DOMAIN classes /\ {g} \in SUBSET groups
    BY DEF SectionsOf
  <2> QED BY <1>2, <2>1, DropStarts
<1>3. ASSUME NEW d \in Deans, NEW s \in DOMAIN classes, StartDrop(d, {s}, {})
      PROVE  AcademicInvariant' /\ GroupsCameWithASection
  <2>1. {s} \in SUBSET DOMAIN classes /\ {} \in SUBSET groups
    OBVIOUS
  <2> QED BY <1>3, <2>1, DropStarts
<1>4. CASE AcademicNext
  BY <1>2, <1>3, <1>4, CreatingYearKeeps, StartsPrepare, CurrentKeeps, DeletingYearKeeps, WritingGroupsKeeps,
     DroppingKeeps, AtOnceKeeps, CurriculumStarts, CurriculumKeeps DEF AcademicNext
<1> QED BY <1>1, <1>4

LEMMA AcademicInvariantSays == AcademicInvariant => OneYearIsCurrent /\ StructureHoldsTogether
<1> SUFFICES ASSUME AcademicInvariant PROVE OneYearIsCurrent
  BY DEF AcademicInvariant
<1> DEFINE current == {y \in DOMAIN years : years[y]}
<1>1. current = {} \/ \E y : current = {y}
  <2>1. \A y, z \in current : y = z
    BY DEF AcademicInvariant, AtMostOneCurrent
  <2> HIDE DEF current
  <2> QED BY <2>1
<1>2. Cardinality(current) <= 1
  <2> HIDE DEF current
  <2>1. Cardinality(current) \in {0, 1}
    BY <1>1, FS_EmptySet, FS_Singleton, Zenon
  <2> QED BY <2>1
<1>3. chosen /\ ~undercut => current # {}
  BY DEF AcademicInvariant, OneOnceChosen
<1> QED BY <1>2, <1>3 DEF OneYearIsCurrent

\* For any years, groups, names, subjects and requests: never two years are current,
\* none after one was chosen only where a year was deleted by a request overtaken; every section has its
\* group, every group and subject its year; no group comes without a section.
THEOREM YearsHoldTogetherHolds == AcademicSpec => YearsHoldTogether
<1>1. AcademicInvariant /\ [AcademicNext]_academicVars => [GroupsCameWithASection]_academicVars
  BY EveryAcademicStepKeeps
<1> QED BY <1>1, AcademicInitHolds, EveryAcademicStepKeeps, AcademicInvariantSays, PTL
        DEF AcademicSpec, YearsHoldTogether, GroupsComeWithASection, GroupsCameWithASection

---------------------------------------------------------------------------
\* The staff's own register of a day.

\* A save in progress is one of the forms, upserted no further than its end.
SavesAreOfForms ==
  /\ saved \in Seq(RegisterForms)
  /\ saving \in [Recorders -> {NoSave} \cup [form : RegisterForms, at : Nat]]
  /\ \A o \in Saving : saving[o].at <= Len(saving[o].form)

SavesInvariant == SavesAreOfForms /\ marks = Replay(saved)

\* A set of numbers that is not empty has a first one.
LEMMA LeastNatural ==
  ASSUME NEW T \in SUBSET Nat, T # {}
  PROVE  \E m \in T : \A k \in T : m <= k
<1> DEFINE R == OpToRel(<, Nat)
<1>1. IsWellFoundedOn(R, Nat)
  BY NatLessThanWellFounded
<1>2. \A x, y \in Nat : x < y => <<x, y>> \in R
  BY DEF OpToRel
<1> HIDE DEF R
<1>3. PICK m \in T : \A k \in T : ~(<<k, m>> \in R)
  BY <1>1, WFMin
<1>4. \A k \in T : ~(k < m)
  BY <1>2, <1>3
<1> QED BY <1>4

\* A set of numbers that is not empty and has an upper bound has a last one.
LEMMA LastIsLast ==
  ASSUME NEW n \in Nat, NEW is \in SUBSET (1..n), is # {}
  PROVE  Last(is) \in is /\ \A j \in is : j <= Last(is)
<1> DEFINE bounds == {m \in Nat : \A j \in is : j <= m}
<1>1. bounds \in SUBSET Nat /\ n \in bounds
  OBVIOUS
<1>2. PICK m \in bounds : \A k \in bounds : m <= k
  <2> HIDE DEF bounds
  <2> QED BY <1>1, LeastNatural
<1>3. m \in is
  <2>1. SUFFICES ASSUME m \notin is PROVE FALSE
    OBVIOUS
  <2>2. \A j \in is : j \in Nat /\ j > 0 /\ j <= m /\ j # m
    BY <1>2, <2>1
  <2>3. m > 0
    <3>1. PICK j \in is : TRUE
      OBVIOUS
    <3> QED BY <3>1, <2>2, <1>2
  <2>4. m - 1 \in bounds
    BY <2>2, <2>3, <1>2
  <2> QED BY <2>4, <1>2
<1>4. \E i \in is : \A j \in is : j <= i
  BY <1>2, <1>3
<1> QED BY <1>4 DEF Last

\* The commit of a form makes it the last one, of every colleague it names.
LEMMA CommitReplays ==
  ASSUME SavesInvariant, NEW o \in Recorders, CommitSave(o)
  PROVE  marks' = Replay(saved')
<1> DEFINE form == saving[o].form
           n == Len(saved)
           is(w) == {i \in 1..Len(form) : form[i].who = w}
<1>1. /\ n \in Nat /\ saved' = Append(saved, form) /\ form \in RegisterForms
      /\ saving[o].at = Len(form) /\ Len(form) \in Nat
  <2>1. o \in Saving /\ saving[o].at = Len(form) /\ saved' = Append(saved, form)
    BY DEF CommitSave, MayCommit, Whole
  <2>2. form \in RegisterForms /\ n \in Nat
    BY <2>1 DEF SavesInvariant, SavesAreOfForms, Saving
  <2> QED BY <2>1, <2>2, FormAssumption
<1>2. /\ Len(saved') = n + 1 /\ saved'[n + 1] = form
      /\ \A k \in 1..n : saved'[k] = saved[k]
  BY <1>1 DEF SavesInvariant, SavesAreOfForms
<1> HIDE DEF form, n
<1>3. SUFFICES ASSUME NEW w \in Colleagues PROVE marks'[w] = Replay(saved')[w]
  BY DEF CommitSave, Replay
<1>4. marks[w] = Replay(saved)[w]
  BY DEF SavesInvariant
<1>5. CASE is(w) = {}
  <2>1. marks'[w] = marks[w]
    BY <1>1, <1>5 DEF CommitSave, Locked, form
  <2> DEFINE T == FormsNaming(w, saved)
  <2>2. FormsNaming(w, saved') = T /\ T \in SUBSET (1..n)
    BY <1>1, <1>2, <1>5 DEF FormsNaming, n
  <2> HIDE DEF T
  <2>3. T # {} => Last(T) \in 1..n
    BY <2>2, <1>1, LastIsLast
  <2>4. T # {} => saved'[Last(T)] = saved[Last(T)]
    BY <2>3, <1>2
  <2> QED BY <2>1, <2>2, <2>4, <1>4 DEF Replay, T
<1>6. CASE is(w) # {}
  <2>1. marks'[w] = form[Last(is(w))].mark
    BY <1>1, <1>6 DEF CommitSave, Locked, WithEntries, form
  <2>2. PICK T : T = FormsNaming(w, saved')
    OBVIOUS
  <2>3. n + 1 \in T /\ T \in SUBSET (1..n + 1)
    BY <1>1, <1>2, <1>6, <2>2 DEF FormsNaming
  <2>4. Last(T) = n + 1
    <3>1. PICK k \in Nat : k = n + 1
      BY <1>1
    <3>2. k \in T /\ T \in SUBSET (1..k)
      BY <2>3, <3>1
    <3>3. Last(T) \in T /\ \A j \in T : j <= Last(T)
      BY <3>1, <3>2, LastIsLast
    <3>4. Last(T) \in 1..k /\ k <= Last(T)
      BY <3>2, <3>3
    <3> QED BY <3>1, <3>4
  <2> QED BY <2>1, <2>2, <2>3, <2>4, <1>2 DEF Replay
<1> QED BY <1>5, <1>6

\* As long as a save is open and the day takes more, some save can go on: one that
\* waits for nobody, or else they all wait, and they are a circle.
LEMMA SomeSaveCanGoOn ==
  Saving # {} /\ Len(saved) < MaxSaves
    => \E o \in Recorders : MayUpsert(o) \/ MayCommit(o) \/ Circle(o)
<1>1. SUFFICES ASSUME NEW o \in Saving, Len(saved) < MaxSaves,
                      \A q \in Recorders : ~MayUpsert(q) /\ ~MayCommit(q)
               PROVE  Circle(o)
  BY DEF Saving
<1>2. \A q \in Saving : ~Whole(q) /\ WaitsFor(q) # {}
  BY <1>1 DEF MayUpsert, MayCommit, Saving
<1>3. \A q \in Saving : WaitsFor(q) \subseteq Saving
  BY DEF WaitsFor
<1> QED BY <1>1, <1>2, <1>3 DEF Circle

LEMMA RegisterStepKeeps ==
  ASSUME SavesInvariant, [StaffRegisterNext]_staffRegisterVars
  PROVE  SavesInvariant'
<1>1. CASE UNCHANGED staffRegisterVars
  BY <1>1 DEF staffRegisterVars, SavesInvariant, SavesAreOfForms, Saving
<1>2. ASSUME NEW o \in Recorders, NEW f \in RegisterForms, StartSave(o, f) PROVE SavesInvariant'
  <2>1. SavesAreOfForms'
    BY <1>2, FormAssumption DEF StartSave, SavesInvariant, SavesAreOfForms, Saving
  <2> QED BY <2>1, <1>2 DEF StartSave, SavesInvariant
<1>3. ASSUME NEW o \in Recorders, UpsertMark(o) PROVE SavesInvariant'
  <2>1. PICK f \in RegisterForms, k \in Nat : saving[o] = [form |-> f, at |-> k]
    BY <1>3 DEF UpsertMark, MayUpsert, SavesInvariant, SavesAreOfForms, Saving
  <2>2. k < Len(f) /\ Len(f) \in Nat
    BY <1>3, <2>1, FormAssumption DEF UpsertMark, MayUpsert, Whole, SavesInvariant, SavesAreOfForms
  <2>3. saving' = [saving EXCEPT ![o] = [form |-> f, at |-> k + 1]] /\ UNCHANGED saved
    <3>1. [saving[o] EXCEPT !.at = saving[o].at + 1] = [form |-> f, at |-> k + 1]
      BY <2>1
    <3> QED BY <1>3, <3>1 DEF UpsertMark
  <2>4. SavesAreOfForms'
    BY <2>1, <2>2, <2>3 DEF SavesInvariant, SavesAreOfForms, Saving
  <2>5. NextOf(o) \in Locked(o)'
    BY <2>1, <2>2, <2>3 DEF NextOf, Locked, SavesInvariant, SavesAreOfForms
  <2>6. marks' = marks
    BY <1>3, <2>5 DEF UpsertMark
  <2> QED BY <2>3, <2>4, <2>6 DEF SavesInvariant
<1>4. ASSUME NEW o \in Recorders, CommitSave(o) PROVE SavesInvariant'
  <2>1. SavesAreOfForms'
    BY <1>4 DEF CommitSave, MayCommit, SavesInvariant, SavesAreOfForms, Saving, NoSave
  <2> QED BY <2>1, <1>4, CommitReplays DEF SavesInvariant
<1>5. ASSUME NEW o \in Recorders, UndoSave(o) PROVE SavesInvariant'
  <2>1. SavesAreOfForms'
    BY <1>5 DEF UndoSave, SavesInvariant, SavesAreOfForms, Saving, NoSave
  <2> QED BY <2>1, <1>5 DEF UndoSave, SavesInvariant
<1> QED BY <1>1, <1>2, <1>3, <1>4, <1>5 DEF StaffRegisterNext

\* For any staff, forms and offices, however their saves overlap and whichever the
\* database undoes: the day is what the saves that went through say, each whole, one
\* after the other; and no open save is left with nobody who can go on.
THEOREM DayIsTheSavesInOrderHolds == StaffRegisterSpec => []DayIsTheSavesInOrder
<1>1. StaffRegisterInit => SavesInvariant
  <2> SUFFICES ASSUME StaffRegisterInit PROVE SavesInvariant
    OBVIOUS
  <2>1. Saving = {} /\ saved = <<>> /\ saving \in [Recorders -> {NoSave}]
    BY DEF StaffRegisterInit, Saving
  <2>2. \A w \in Colleagues : FormsNaming(w, saved) = {}
    BY <2>1 DEF FormsNaming
  <2> QED BY <2>1, <2>2 DEF StaffRegisterInit, SavesInvariant, SavesAreOfForms, Replay
<1>2. SavesInvariant /\ [StaffRegisterNext]_staffRegisterVars => SavesInvariant'
  BY RegisterStepKeeps
<1>3. SavesInvariant => DayIsTheSavesInOrder
  BY SomeSaveCanGoOn DEF SavesInvariant, DayIsTheSavesInOrder
<1> QED BY <1>1, <1>2, <1>3, PTL DEF StaffRegisterSpec

==============================================================================
