------------------------- MODULE AttendanceRegisters -------------------------
(***************************************************************************)
(* The register of one section for one day: attendance.service.ts under    *)
(* the rules of attendance/access.ts and attendance-policy.ts. A handler   *)
(* reads the day, the timetable, the section's roster and the register,    *)
(* decides, and writes in a transaction that reads none of them again.     *)
(***************************************************************************)
EXTENDS Naturals, FiniteSets

CONSTANTS Roster,          \* the students who may be enrolled in the section
          Teachers,        \* staff with a teacher's default permissions
          Markers,         \* bound: requests there may be at once
          SheetDay,        \* the day of the register
          LastDay,         \* bound: the calendar ends here
          CorrectionDays,  \* attendance.teacher_correction_days
          Nobody

ASSUME RegisterAssumption ==
  /\ {SheetDay, LastDay, CorrectionDays} \subseteq Nat /\ Nobody \notin Teachers /\ "office" \notin Teachers

VARIABLES
  sheet,      \* the register, or its absence
  enrolled,   \* ACTIVE enrolments of the section
  first,      \* who takes the section's first lesson that day; Nobody: no lessons
  incharge,   \* the active in-charge
  today,
  marking,    \* the request each marker has decided on and not written yet
  joined,     \* history: pupils who joined after the register was handed in
  hasty       \* history: a write was decided on what had changed since

registerVars == <<sheet, enrolled, first, incharge, today, marking, joined, hasty>>

NoRegister == [status |-> "NONE"]
NoMarking == [op |-> "none"]
Marks == {"PRESENT", "ABSENT"}   \* what a pupil's row may say; LATE and LEAVE are alike here
Offered == Teachers \cup {"office"}

\* decideCanMarkAttendance
MayMark(who) == who = "office" \/ who = first \/ (first = Nobody /\ who = incharge)

\* checkAttendanceDate
DayAllows(who) == SheetDay <= today /\ (who # "office" => SheetDay = today)

\* Faulty variant of MayEdit: nobody asks when it was handed in.
MayEditAnytime(who) == sheet.status \in {"DRAFT", "SUBMITTED"} /\ MayMark(who)

\* decideCanEditSheet, asked with the office's rule
MayEdit(who) ==
  /\ sheet.status \in {"DRAFT", "SUBMITTED"} /\ MayMark(who)
  /\ sheet.status = "SUBMITTED" /\ who # "office"
       => CorrectionDays > 0 /\ today <= sheet.handedIn + CorrectionDays

\* decideCanCancelSheet asks decideCanEditSheet without the rule: no window.
MayCancel(who) == sheet.status \in {"DRAFT", "SUBMITTED"} /\ MayMark(who)

---------------------------------------------------------------------------
RegisterInit ==
  /\ sheet = NoRegister /\ enrolled \in SUBSET Roster
  /\ first \in Teachers \cup {Nobody} /\ incharge \in Teachers \cup {Nobody}
  /\ today = 0 /\ marking = [m \in Markers |-> NoMarking] /\ joined = {} /\ hasty = FALSE

Requested(m, t) ==
  /\ marking[m] = NoMarking /\ marking' = [marking EXCEPT ![m] = t]
  /\ UNCHANGED <<sheet, enrolled, first, incharge, today, joined, hasty>>

Task(op, who) == [op |-> op, who |-> who, stale |-> FALSE]

\* createAttendanceSheet: everybody enrolled, PRESENT to begin with.
StartOpenSheet(m, who) ==
  /\ DayAllows(who) /\ MayMark(who) /\ enrolled # {}
  /\ Requested(m, [op |-> "create", who |-> who, marks |-> [s \in enrolled |-> "PRESENT"], stale |-> FALSE])

\* markAttendance and updateAttendanceEntry: rows of this register only.
StartMark(m, who, s, v) ==
  /\ MayEdit(who) /\ s \in DOMAIN sheet.marks /\ v # sheet.marks[s]
  /\ Requested(m, [op |-> "mark", who |-> who, s |-> s, v |-> v, stale |-> FALSE])

\* "Everyone currently enrolled must have a mark."
Complete == DOMAIN sheet.marks # {} /\ enrolled \subseteq DOMAIN sheet.marks

StartSubmitSheet(m, who) ==
  /\ sheet.status = "DRAFT" /\ MayEdit(who) /\ Complete
  /\ Requested(m, Task("submit", who))

StartCancelSheet(m, who) == MayCancel(who) /\ Requested(m, Task("cancel", who))

---------------------------------------------------------------------------
\* History: what a request in flight has read is different now.
Overtake(but) ==
  marking' = [m \in Markers |->
    IF m = but THEN NoMarking
    ELSE IF marking[m] = NoMarking THEN NoMarking ELSE [marking[m] EXCEPT !.stale = TRUE]]

WroteSheet(m) ==
  /\ hasty' = (hasty \/ marking[m].stale) /\ Overtake(m)
  /\ UNCHANGED <<enrolled, first, incharge, today>>

OpenSheet(m) ==
  LET t == marking[m]
  IN  /\ t.op = "create" /\ sheet = NoRegister
      /\ sheet' = [status |-> "DRAFT", marks |-> t.marks, handedIn |-> 0]
      /\ WroteSheet(m) /\ UNCHANGED joined

\* attendance_sheets_section_id_subject_id_date_period_key
SheetExists(m) ==
  /\ marking[m].op = "create" /\ sheet # NoRegister
  /\ marking' = [marking EXCEPT ![m] = NoMarking]
  /\ UNCHANGED <<sheet, enrolled, first, incharge, today, joined, hasty>>

Mark(m) ==
  LET t == marking[m]
  IN  /\ t.op = "mark" /\ sheet' = [sheet EXCEPT !.marks[t.s] = t.v]
      /\ WroteSheet(m) /\ UNCHANGED joined

SubmitSheet(m) ==
  /\ marking[m].op = "submit"
  /\ sheet' = [sheet EXCEPT !.status = "SUBMITTED", !.handedIn = today]
  /\ WroteSheet(m) /\ joined' = {}

Cancel(m) ==
  /\ marking[m].op = "cancel" /\ sheet' = [sheet EXCEPT !.status = "CANCELLED"]
  /\ WroteSheet(m) /\ joined' = {}

\* Around the register: students join and leave, the timetable and the
\* in-charge change, and the days go by.
Enrol(s) ==
  /\ enrolled' = IF s \in enrolled THEN enrolled \ {s} ELSE enrolled \cup {s}
  /\ joined' = IF s \in enrolled \/ sheet.status # "SUBMITTED" THEN joined ELSE joined \cup {s}
  /\ Overtake("nobody") /\ UNCHANGED <<sheet, first, incharge, today, hasty>>

Timetable(who) ==
  /\ first' = who /\ who # first
  /\ Overtake("nobody") /\ UNCHANGED <<sheet, enrolled, incharge, today, joined, hasty>>

Appoint(who) ==
  /\ incharge' = who /\ who # incharge
  /\ Overtake("nobody") /\ UNCHANGED <<sheet, enrolled, first, today, joined, hasty>>

NextDay ==
  /\ today < LastDay /\ today' = today + 1
  /\ Overtake("nobody") /\ UNCHANGED <<sheet, enrolled, first, incharge, joined, hasty>>

RegisterNext ==
  \/ \E m \in Markers :
       \/ \E who \in Offered :
            \/ StartOpenSheet(m, who)
            \/ \E s \in Roster, v \in Marks : StartMark(m, who, s, v)
            \/ StartSubmitSheet(m, who) \/ StartCancelSheet(m, who)
       \/ OpenSheet(m) \/ SheetExists(m) \/ Mark(m) \/ SubmitSheet(m) \/ Cancel(m)
  \/ \E s \in Roster : Enrol(s)
  \/ \E who \in Teachers \cup {Nobody} : Timetable(who) \/ Appoint(who)
  \/ NextDay

RegisterSpec == RegisterInit /\ [][RegisterNext]_registerVars

---------------------------------------------------------------------------
\* Properties.

\* The register and what surrounds it are of their types.
RegisterTypeOK ==
  /\ enrolled \subseteq Roster /\ joined \subseteq Roster /\ today \in 0..LastDay
  /\ {first, incharge} \subseteq Teachers \cup {Nobody}
  /\ sheet # NoRegister =>
       /\ sheet.status \in {"DRAFT", "SUBMITTED", "CANCELLED"}
       /\ DOMAIN sheet.marks \subseteq Roster /\ \A s \in DOMAIN sheet.marks : sheet.marks[s] \in Marks
       /\ sheet.handedIn \in 0..today

\* "A cancelled sheet is closed to everyone; the class did not happen"
\* (access.ts:131): nobody changes its rows or brings it back, unless a request
\* was decided before it was cancelled.
CancelledIsClosed ==
  [][sheet.status = "CANCELLED" /\ ~hasty' => sheet' = sheet]_registerVars

\* "A student admitted into the section after the register was opened would
\* otherwise be silently missing from the day's record" (attendance.service.ts:779):
\* on a register that counts, everybody of the section has a mark but those who
\* joined it later.
NobodyIsMissing ==
  ~hasty /\ sheet.status = "SUBMITTED" => enrolled \ joined \subseteq DOMAIN sheet.marks

\* "Teachers may mark today only" (attendance-policy.ts:56), and correct what they
\* handed in "only for the window the office sets" (access.ts:133): a teacher opens
\* it on its day, holding the first lesson or standing in where there is none, and
\* once that window is over only the office changes its rows. Cancelling it is the
\* exception: decideCanCancelSheet knows no window, so a teacher may take a whole
\* class off everybody's percentage long after they may correct one row of it.
TeachersInTheirTime ==
  [][~hasty' /\ sheet' # sheet =>
       \E m \in Markers : marking[m].op # "none" /\ marking'[m].op = "none" /\
         LET who == marking[m].who
         IN  who # "office" =>
               /\ who = first \/ (who = incharge /\ first = Nobody)
               /\ sheet = NoRegister => today = SheetDay
               /\ sheet.status = "SUBMITTED" /\ sheet'.status # "CANCELLED"
                    => today - sheet.handedIn <= CorrectionDays]_registerVars

\* A day's register is whole when it is handed in, changed in time (or cancelled)
\* and by whom it may be, and closed for good when the class did not happen.
RegisterIsKept ==
  [](RegisterTypeOK /\ NobodyIsMissing) /\ CancelledIsClosed /\ TeachersInTheirTime
=============================================================================
