------------------------------- MODULE Enrolments -------------------------------
(***************************************************************************)
(* Where the students sit: students.service.ts over the two partial unique *)
(* indexes of student_enrollments (migration 20260830000000). A row is     *)
(* closed and never reopened; a move closes one and opens another. The     *)
(* handlers that move a student read the student and the current row first *)
(* and write what they decided in one transaction; the others use nothing  *)
(* they read and are one step. Erasure is in the module Erasure.           *)
(***************************************************************************)
EXTENDS Naturals, Sequences

CONSTANTS Students,
          Cohorts,     \* sections, each of one session
          SessionOf,    \* section -> its session, a later one is greater
          Rolls,        \* roll numbers, with NoRoll
          Registrars,   \* bound: requests there may be at once
          MaxPlaces,    \* bound: rows there may ever be
          NoRoll

ASSUME EnrolAssumption ==
  /\ SessionOf \in [Cohorts -> Nat] /\ NoRoll \in Rolls /\ MaxPlaces \in Nat

VARIABLES
  standing,  \* students.status, NONE before admission
  places,    \* the enrolment rows, in the order they were opened
  move,      \* the request each registrar has in flight
  overtaken  \* history: a request wrote after another had changed what it had read

enrolVars == <<standing, places, move, overtaken>>

\* LEFT is also for INACTIVE and TRANSFERRED_OUT, which close rows in their own words.
Standings == {"ACTIVE", "LEFT", "GRADUATED"}
Outcomes == {"PROMOTED", "COMPLETED"}   \* REPEATED is treated as PROMOTED is
PlaceStatuses == Outcomes \cup {"ACTIVE", "TRANSFERRED", "LEFT"}
Enrolled == {s \in Students : standing[s] \in Standings}
NoMove == [op |-> "none", student |-> "nobody"]

Seated(s) == {i \in DOMAIN places : places[i].student = s /\ places[i].status = "ACTIVE"}

\* findFirst: the rows a request may take for the current one.
FoundSeats(s) == IF Seated(s) = {} THEN {{}} ELSE {{i} : i \in Seated(s)}

---------------------------------------------------------------------------
EnrolInit ==
  /\ standing = [s \in Students |-> "NONE"] /\ places = <<>>
  /\ move = [r \in Registrars |-> NoMove] /\ overtaken = FALSE

\* Every other request about this student has read what is no longer so.
Behind(s, r, t) ==
  [q \in Registrars |-> IF q = r THEN t
     ELSE IF move[q].student = s THEN [move[q] EXCEPT !.late = TRUE] ELSE move[q]]

Moved(r) ==
  /\ move' = Behind(move[r].student, r, NoMove)
  /\ overtaken' = (overtaken \/ move[r].late)

\* The rows once those in closed have got their status and the new one is there.
RowAfter(closed, as, row) ==
  Append([i \in DOMAIN places |-> IF i \in closed THEN [places[i] EXCEPT !.status = as] ELSE places[i]], row)

\* One ACTIVE row per student and session, one per section and roll number.
PlaceAllowed(rows) ==
  \A i, j \in DOMAIN rows :
    i # j /\ rows[i].status = "ACTIVE" /\ rows[j].status = "ACTIVE" =>
      /\ ~(rows[i].student = rows[j].student /\ SessionOf[rows[i].section] = SessionOf[rows[j].section])
      /\ ~(rows[i].section = rows[j].section /\ rows[i].roll = rows[j].roll /\ rows[i].roll # NoRoll)

Seat(s, c, roll) == [student |-> s, section |-> c, roll |-> roll, status |-> "ACTIVE"]

\* createStudent: the record and its first row.
Admit(s, c, roll) ==
  /\ standing[s] = "NONE" /\ Len(places) < MaxPlaces
  /\ PlaceAllowed(Append(places, Seat(s, c, roll)))
  /\ standing' = [standing EXCEPT ![s] = "ACTIVE"] /\ places' = Append(places, Seat(s, c, roll))
  /\ UNCHANGED <<move, overtaken>>

\* How a row ends when the student stops being active.
ClosedAs(status) == IF status = "GRADUATED" THEN "COMPLETED" ELSE "LEFT"

\* setStudentStatus
SetStanding(s, status) ==
  /\ s \in Enrolled /\ standing[s] # status /\ standing' = [standing EXCEPT ![s] = status]
  /\ places' = [i \in DOMAIN places |->
       IF i \in Seated(s) /\ status # "ACTIVE"
         THEN [places[i] EXCEPT !.status = ClosedAs(status)] ELSE places[i]]
  /\ move' = Behind(s, "none", NoMove) /\ UNCHANGED overtaken

EnrolDecided(r, t) ==
  /\ move[r] = NoMove /\ move' = [move EXCEPT ![r] = t]
  /\ UNCHANGED <<standing, places, overtaken>>

\* transferStudent: inside the session of the current row, if there is one.
StartTransfer(r, s, c, roll) ==
  /\ s \in Enrolled
  /\ \E from \in FoundSeats(s) :
       /\ \A i \in from : SessionOf[places[i].section] = SessionOf[c] /\ Seat(s, c, roll) # places[i]
       /\ EnrolDecided(r, [op |-> "transfer", student |-> s, row |-> Seat(s, c, roll),
                      from |-> from, as |-> "TRANSFERRED", late |-> FALSE])

\* promoteStudent: an active student, from a current row into a later session.
MayPromote(s, i, c) == standing[s] = "ACTIVE" /\ SessionOf[c] > SessionOf[places[i].section]

StartPromote(r, s, c, roll, outcome) ==
  \E i \in Seated(s) :
    /\ MayPromote(s, i, c)
    /\ EnrolDecided(r, [op |-> "promote", student |-> s, row |-> Seat(s, c, roll),
                   from |-> {i}, as |-> outcome, late |-> FALSE])

\* Faulty variant of LeavesRow: every row of the student is closed again.
LeavesEveryRow(t) == {i \in DOMAIN places : places[i].student = t.student}

\* The row read before the transaction is the one it closes, whatever it is now.
LeavesRow(t) == t.from

\* The transaction of either, or its refusal by an index.
WriteMove(r) ==
  LET t == move[r]
      rows == RowAfter(LeavesRow(t), t.as, t.row)
  IN  /\ t.op \in {"transfer", "promote"} /\ Moved(r)
      /\ \/ /\ PlaceAllowed(rows) /\ Len(places) < MaxPlaces
            /\ places' = rows
            /\ standing' = [standing EXCEPT ![t.student] = IF t.as = "COMPLETED" THEN "GRADUATED" ELSE @]
         \/ ~PlaceAllowed(rows) /\ UNCHANGED <<places, standing>>

---------------------------------------------------------------------------
EnrolNext ==
  \/ \E s \in Students, c \in Cohorts, roll \in Rolls :
       \/ Admit(s, c, roll)
       \/ \E r \in Registrars : StartTransfer(r, s, c, roll) \/ \E o \in Outcomes : StartPromote(r, s, c, roll, o)
  \/ \E s \in Students, status \in Standings : SetStanding(s, status)
  \/ \E r \in Registrars : WriteMove(r)

EnrolSpec == EnrolInit /\ [][EnrolNext]_enrolVars

---------------------------------------------------------------------------
\* Properties.

\* Students and rows are of their types; only a student there is has rows.
EnrolTypeOK ==
  /\ standing \in [Students -> Standings \cup {"NONE"}]
  /\ \A i \in DOMAIN places :
       /\ places[i].student \in Enrolled /\ places[i].section \in Cohorts
       /\ places[i].roll \in Rolls /\ places[i].status \in PlaceStatuses

\* "The student is currently sitting in this section. Only one per session"
\* (schema.prisma): no request that ran alone leaves a student in two sections,
\* of one session or of two, which no index forbids.
SitsInOnePlace == ~overtaken => \A s \in Students : \A i, j \in Seated(s) : i = j

\* "Both rows stay in the student's history" (transferStudent): how a year ended
\* stays as it was written, unless a request wrote what it had read before.
HistoryStays ==
  [][~overtaken' => \A i \in DOMAIN places :
       places[i].status # "ACTIVE" => places'[i] = places[i]]_enrolVars

\* A promotion leads into a later year than any the student is sitting in.
PromotedIntoALaterYear ==
  ~overtaken => \A i \in DOMAIN places : \A j \in 1..(i - 1) :
    /\ places[i].student = places[j].student /\ places[j].status = "PROMOTED"
    /\ \A k \in (j + 1)..(i - 1) : places[k].student # places[j].student
    => SessionOf[places[j].section] < SessionOf[places[i].section]

\* A student sits in one place, went there by promotion only upwards, and the way
\* there stays on record.
PlacesAreKept == [](EnrolTypeOK /\ SitsInOnePlace /\ PromotedIntoALaterYear) /\ HistoryStays
=============================================================================
