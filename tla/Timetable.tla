------------------------------ MODULE Timetable ------------------------------
(***************************************************************************)
(* The week of one academic session: timetable.service.ts over             *)
(* timetable-policy.ts and the partial unique indexes of its two tables. A *)
(* lesson covers one or more sections and has a row for each, which may    *)
(* outlive it. Cells are days of one period of the grid. A handler checks  *)
(* the lesson against all others, then writes in one transaction; a copy   *)
(* of a day does that lesson after lesson.                                 *)
(***************************************************************************)
EXTENDS Naturals, FiniteSets

CONSTANTS Periods,    \* ids of lessons
          Classes,    \* the sections
          Subjects,
          Lecturers,  \* the teachers
          Rooms,      \* with NoRoom
          Days,       \* two of them are enough for a copy
          Planners,   \* bound: requests there may be at once
          Vacancies,  \* bound: assignments that may be closed at a time
          Wanted,     \* bound: the lessons the planners think of, each on any day
          NoRoom

ASSUME PlannerAssumption ==
  /\ NoRoom \in Rooms /\ Vacancies \in Nat /\ "new" \notin Periods
  /\ Wanted \subseteq [over : SUBSET Classes \ {{}}, subject : Subjects, staff : Lecturers, room : Rooms]

VARIABLES
  lessons,   \* id -> lesson
  assigned,  \* active teacher assignments <<lecturer, section, subject>>
  plan,      \* the request each planner has in flight
  refusal,   \* history: an index refused what the check had let through
  overrun    \* history: a write was decided before another one it did not see

timetableVars == <<lessons, assigned, plan, refusal, overrun>>

Entry(w, day) == [over |-> w.over, subject |-> w.subject, staff |-> w.staff, room |-> w.room, day |-> day]
Entries == {Entry(w, day) : w \in Wanted, day \in Days}
NoPlan == [op |-> "none"]
Needed == {<<x[1].staff, x[2], x[1].subject>> : x \in {y \in Wanted \X Classes : y[2] \in y[1].over}}

Active == {l \in DOMAIN lessons : lessons[l].active}
On(day, c) == {l \in Active : lessons[l].day = day /\ c \in lessons[l].over}

SectionClash(p, l) == lessons[l].subject = p.subject /\ lessons[l].rows \cap p.over # {}
TeacherClash(p, l) == lessons[l].staff = p.staff
RoomClash(p, l) == p.room # NoRoom /\ lessons[l].room = p.room

\* findTimetableClashes over the active lessons of the cell.
Clashes(p, but) ==
  {l \in Active \ {but} :
     lessons[l].day = p.day /\ (SectionClash(p, l) \/ TeacherClash(p, l) \/ RoomClash(p, l))}

\* Faulty variant of IndexAllows: no index on the teacher.
IndexAllowsTwice(p, but, active) ==
  \A l \in DOMAIN lessons \ {but} :
    lessons[l].day = p.day => ~SectionClash(p, l) /\ (active /\ lessons[l].active => ~RoomClash(p, l))

\* The indexes: on lessons that are active, and on section rows that are.
IndexAllows(p, but, active) ==
  \A l \in DOMAIN lessons \ {but} :
    lessons[l].day = p.day =>
      /\ ~SectionClash(p, l)
      /\ active /\ lessons[l].active => ~TeacherClash(p, l) /\ ~RoomClash(p, l)

Teachable(p) == \A c \in p.over : <<p.staff, c, p.subject>> \in assigned

\* assertLessonIsAllowed
LessonIsAllowed(p, but) == Teachable(p) /\ Clashes(p, but) = {}

---------------------------------------------------------------------------
TimetableInit ==
  /\ lessons = <<>> /\ assigned = Needed
  /\ plan = [r \in Planners |-> NoPlan] /\ refusal = FALSE /\ overrun = FALSE

Planned(r, t) ==
  /\ plan[r] = NoPlan /\ plan' = [plan EXCEPT ![r] = t]
  /\ UNCHANGED <<lessons, assigned, refusal, overrun>>

StartCreateLesson(r, p) == LessonIsAllowed(p, "new") /\ Planned(r, [op |-> "create", p |-> p, late |-> FALSE])

StartUpdateLesson(r, l, p) ==
  /\ l \in Active /\ p.day = lessons[l].day /\ LessonIsAllowed(p, l)
  /\ Planned(r, [op |-> "update", l |-> l, p |-> p, late |-> FALSE])

StartDeactivate(r, l) == l \in Active /\ Planned(r, [op |-> "remove", l |-> l, late |-> FALSE])

\* copyTimetableDay for one of its days, up to the clearing; a day that has
\* lessons is left alone unless they are to be replaced.
StartCopy(r, c, from, to, replace) ==
  /\ On(from, c) # {} /\ (On(to, c) # {} => replace)
  /\ Planned(r, [op |-> "clear", gone |-> On(to, c), todo |-> {Entry(lessons[l], to) : l \in On(from, c)},
                 late |-> FALSE])

---------------------------------------------------------------------------
\* Every other request has decided without seeing this write.
Passed(r, t) ==
  [s \in Planners |-> IF s = r THEN t
     ELSE IF plan[s] = NoPlan THEN NoPlan ELSE [plan[s] EXCEPT !.late = TRUE]]

Saved(r, t) ==
  /\ plan' = Passed(r, t) /\ overrun' = (overrun \/ plan[r].late)
  /\ UNCHANGED <<assigned, refusal>>

Failed(r) ==
  /\ plan' = [plan EXCEPT ![r] = NoPlan]
  /\ refusal' = TRUE /\ overrun' = (overrun \/ plan[r].late)
  /\ UNCHANGED <<lessons, assigned>>

\* The section rows are written anew from what the lesson says.
LessonOf(p, active) ==
  [over |-> p.over, subject |-> p.subject, staff |-> p.staff, room |-> p.room, day |-> p.day,
   rows |-> p.over, active |-> active]

Slot(p) ==
  \E l \in Periods \ DOMAIN lessons :
    lessons' = [k \in DOMAIN lessons \cup {l} |-> IF k = l THEN LessonOf(p, TRUE) ELSE lessons[k]]

CreateLesson(r) ==
  LET t == plan[r]
  IN  /\ t.op = "create"
      /\ \/ IndexAllows(t.p, "new", TRUE) /\ Slot(t.p) /\ Saved(r, NoPlan)
         \/ ~IndexAllows(t.p, "new", TRUE) /\ Failed(r)

\* The lesson is found again whether or not it is still active.
UpdateLesson(r) ==
  LET t == plan[r]
  IN  /\ t.op = "update"
      /\ \/ /\ IndexAllows(t.p, t.l, lessons[t.l].active)
            /\ lessons' = [lessons EXCEPT ![t.l] = LessonOf(t.p, lessons[t.l].active)]
            /\ Saved(r, NoPlan)
         \/ ~IndexAllows(t.p, t.l, lessons[t.l].active) /\ Failed(r)

\* The lessons and their section rows together.
Deactivated(gone) ==
  [l \in DOMAIN lessons |->
     IF l \in gone THEN [lessons[l] EXCEPT !.active = FALSE, !.rows = {}] ELSE lessons[l]]

Remove(r) ==
  /\ plan[r].op = "remove"
  /\ lessons' = Deactivated({plan[r].l}) /\ Saved(r, NoPlan)

Clear(r) ==
  LET t == plan[r]
      next == [op |-> "copy", todo |-> t.todo, late |-> t.late]
  IN  /\ t.op = "clear"
      /\ \/ t.gone # {} /\ lessons' = Deactivated(t.gone) /\ Saved(r, next)
         \/ t.gone = {} /\ plan' = [plan EXCEPT ![r] = next]
              /\ UNCHANGED <<lessons, assigned, refusal, overrun>>

\* Each lesson is checked by itself, and skipped if it may not be placed.
CheckCopy(r, p) ==
  LET t == plan[r]
  IN  /\ t.op = "copy" /\ p \in t.todo
      /\ plan' = [plan EXCEPT ![r] =
           IF LessonIsAllowed(p, "new") THEN [op |-> "place", p |-> p, todo |-> t.todo \ {p}, late |-> FALSE]
                                        ELSE [t EXCEPT !.todo = @ \ {p}]]
      /\ UNCHANGED <<lessons, assigned, refusal, overrun>>

\* An index's refusal is not caught here: it ends the copy.
PlaceCopy(r) ==
  LET t == plan[r]
  IN  /\ t.op = "place"
      /\ \/ /\ IndexAllows(t.p, "new", TRUE) /\ Slot(t.p)
            /\ Saved(r, [op |-> "copy", todo |-> t.todo, late |-> FALSE])
         \/ ~IndexAllows(t.p, "new", TRUE) /\ Failed(r)

EndCopy(r) ==
  /\ plan[r].op = "copy" /\ plan[r].todo = {}
  /\ plan' = [plan EXCEPT ![r] = NoPlan]
  /\ UNCHANGED <<lessons, assigned, refusal, overrun>>

\* staff.service.ts, beside it: assignments are closed and made; a lesson stays.
Reassign(a) ==
  /\ assigned' = IF a \in assigned THEN assigned \ {a} ELSE assigned \cup {a}
  /\ Cardinality(Needed \ assigned') <= Vacancies
  /\ UNCHANGED <<lessons, plan, refusal, overrun>>

TimetableNext ==
  \/ \E r \in Planners :
       \/ \E p \in Entries : StartCreateLesson(r, p) \/ \E l \in DOMAIN lessons : StartUpdateLesson(r, l, p)
       \/ \E l \in DOMAIN lessons : StartDeactivate(r, l)
       \/ \E c \in Classes, from \in Days : \E to \in Days \ {from}, replace \in BOOLEAN :
            StartCopy(r, c, from, to, replace)
       \/ CreateLesson(r) \/ UpdateLesson(r) \/ Remove(r) \/ Clear(r) \/ PlaceCopy(r) \/ EndCopy(r)
       \/ \E p \in Entries : CheckCopy(r, p)
  \/ \E a \in Needed : Reassign(a)

TimetableSpec == TimetableInit /\ [][TimetableNext]_timetableVars

---------------------------------------------------------------------------
\* Properties.

\* The lessons and their rows are of their types.
TimetableTypeOK ==
  /\ DOMAIN lessons \subseteq Periods /\ assigned \subseteq Needed
  /\ \A l \in DOMAIN lessons :
       Entry(lessons[l], lessons[l].day) \in Entries /\ lessons[l].rows \subseteq Classes /\ lessons[l].active \in BOOLEAN

\* "one teacher, one lesson, one period -- however many sections are sitting in
\* it" (migration 20260910120000), one room as well, and no section twice in a
\* subject, whoever plans at the same time and however a copy is cut off.
NobodyInTwoPlaces ==
  \A l, k \in Active : l # k /\ lessons[l].day = lessons[k].day =>
    ~TeacherClash(lessons[l], k) /\ ~RoomClash(lessons[l], k) /\ ~SectionClash(lessons[l], k)

\* "Leaving them behind would let a lesson nobody teaches any more hold its cell
\* for ever" (timetable.service.ts:1037): a lesson taken off holds no row, and one
\* that is on has a row for each of its sections, unless a save overran another.
RowsFollowTheirLesson ==
  ~overrun => \A l \in DOMAIN lessons :
    lessons[l].rows = IF lessons[l].active THEN lessons[l].over ELSE {}

\* "What this refuses and what the database refuses are the same set"
\* (timetable-policy.ts, findRoomClash): whoever plans alone is never stopped by
\* an index, so no copy of a day ends half way without a report.
CheckSeesWhatTheIndexSees == ~overrun => ~refusal

\* The timetable stands: nobody and no room twice, rows that follow their lesson,
\* and indexes that only ever stop what overlapped.
TimetableStands ==
  TimetableTypeOK /\ NobodyInTwoPlaces /\ RowsFollowTheirLesson /\ CheckSeesWhatTheIndexSees
=============================================================================
