------------------------------ MODULE MCOffice ------------------------------
(* The components that share nothing with fees, marks and results, with small
   values for TLC. They share no state with each other either, in these models:
   a behaviour follows one department, and the others stay as they began. *)
EXTENDS Complaints, UserAccounts, AttendanceRegisters, Timetable, Documents,
        DriveFolders, Enrolments, Erasure, StaffPosts, MCNotices, StaffRegister,
        AcademicSessions, MCExams

CONSTANTS u1, u2, u3, c3, t1, t2, subject1, lab, r1, r2

\* A lesson of two sections and two of a third one: any two of these clash in one
\* way alone, by the teacher, by the room or by the section.
Lesson(over, staff, room) == [over |-> over, subject |-> subject1, staff |-> staff, room |-> room]
ThreeLessons == {Lesson({c1, c2}, t1, lab), Lesson({c3}, t1, NoRoom), Lesson({c3}, t2, lab)}

\* Two sections of a year and one of the next.
TwoThenOne == c1 :> 1 @@ c2 :> 1 @@ c3 :> 2

\* The day's marks in two orders of the staff, and one mark corrected.
MarkOf(w, m) == [who |-> w, mark |-> m]
ThreeForms == {<<MarkOf(t1, "PRESENT"), MarkOf(t2, "PRESENT")>>,
               <<MarkOf(t2, "LEAVE"), MarkOf(t1, "ABSENT")>>, <<MarkOf(t1, "LEAVE")>>}

VARIABLE department

Departments ==
  {"complaints", "accounts", "register", "timetable", "documents", "drive",
   "enrolments", "erasure", "posts", "notices", "staff day", "years", "exams"}

Others(d) ==
  /\ UNCHANGED department
  /\ d # "complaints" => UNCHANGED complaintVars
  /\ d # "accounts" => UNCHANGED userVars
  /\ d # "register" => UNCHANGED registerVars
  /\ d # "timetable" => UNCHANGED timetableVars
  /\ d # "documents" => UNCHANGED documentVars
  /\ d # "drive" => UNCHANGED driveVars
  /\ d # "enrolments" => UNCHANGED enrolVars
  /\ d # "erasure" => UNCHANGED erasureVars
  /\ d # "posts" => UNCHANGED postVars
  /\ d # "notices" => UNCHANGED noticeVars
  /\ d # "staff day" => UNCHANGED staffRegisterVars
  /\ d # "years" => UNCHANGED academicVars
  /\ d # "exams" => UNCHANGED examVars

\* Of the ways a department may begin, one stands for those not followed.
Resting ==
  /\ DOMAIN users = {u1} /\ (department # "accounts" => ~users[u1].owner)
  /\ department # "register" => enrolled = {} /\ {first, incharge} = {Nobody}
  /\ department # "notices" => notice.from = 0 /\ \A u \in Learners : sits[u] = {}
  /\ sits[t1] = {c1}

OfficeInit ==
  /\ department \in Departments
  /\ ComplaintInit /\ UserInit /\ RegisterInit /\ TimetableInit
  /\ DocumentInit /\ DriveInit /\ EnrolInit /\ ErasureInit
  /\ PostInit /\ NoticeInit /\ StaffRegisterInit /\ AcademicInit
  /\ ExamInit
  /\ Resting

OfficeNext ==
  \/ department = "complaints" /\ ComplaintNext /\ Others("complaints")
  \/ department = "accounts" /\ UserNext /\ Others("accounts")
  \/ department = "register" /\ RegisterNext /\ Others("register")
  \/ department = "timetable" /\ TimetableNext /\ Others("timetable")
  \/ department = "documents" /\ DocumentNext /\ Others("documents")
  \/ department = "drive" /\ DriveNext /\ Others("drive")
  \/ department = "enrolments" /\ EnrolNext /\ Others("enrolments")
  \/ department = "erasure" /\ ErasureNext /\ Others("erasure")
  \/ department = "posts" /\ PostNext /\ Others("posts")
  \/ department = "notices" /\ NoticeNext /\ Others("notices")
  \/ department = "staff day" /\ StaffRegisterNext /\ Others("staff day")
  \/ department = "years" /\ AcademicNext /\ Others("years")
  \/ department = "exams" /\ ExamNext /\ Others("exams")

OfficeVars ==
  <<department, complaintVars, userVars, registerVars, timetableVars, documentVars, driveVars, enrolVars,
    erasureVars, postVars, noticeVars, staffRegisterVars, academicVars, examVars>>

OfficeSpec == OfficeInit /\ [][OfficeNext]_OfficeVars

\* Two requests are alike, and so are the accounts but the first.
Alike == Permutations({r1, r2}) \cup Permutations({u2, u3})

\* Bound: no behaviour goes on once the Drive connection or its folders changed
\* under a request, or once a register, an enrolment, a lesson or a year was written
\* on what had changed since; that write is checked itself. One assignment is closed
\* and made again.
Undisturbed ==
  /\ ~muddled /\ ~meddled /\ ~hasty /\ ~overtaken /\ ~overrun /\ ~undercut
  /\ Needed \ assigned \subseteq {<<t1, c1, subject1>>}

\* Bound: once requests about accounts overlapped, an upload failed, or another has
\* written beside a request about a lesson or a year, those in flight end and none
\* begins. Requests about three accounts come one at a time, about two they overlap.
NothingNew ==
  /\ crowded' => Cardinality(DOMAIN users') <= 2
  /\ crowded => \A o \in Managers : change[o] = NoChange => change'[o] = NoChange
  /\ torn => \A r \in Uploads : upload[r] = NoJob => upload'[r] = NoJob
  /\ \A r, q \in Planners : plan[r] # NoPlan /\ plan[q] = NoPlan /\ plan'[q] # NoPlan => ~plan[r].late
  /\ \A d, e \in Deans : reform[d] # NoReform /\ reform[e] = NoReform /\ reform'[e] # NoReform => ~reform[d].late
=============================================================================
