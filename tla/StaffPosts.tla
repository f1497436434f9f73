------------------------------- MODULE StaffPosts -------------------------------
(***************************************************************************)
(* What the staff are given to do: the teaching assignments and the        *)
(* in-charges of staff.service.ts, which setStaffStatus closes when        *)
(* somebody stops working here, over the partial unique indexes of the two *)
(* tables (migration 20260831000000). Rows are closed, never deleted here. *)
(***************************************************************************)
EXTENDS Naturals, Sequences

CONSTANTS Staff,
          Lessons,   \* <<section, subject>> pairs of the curriculum
          Charges,   \* sections that may have an in-charge
          Hands,     \* bound: requests there may be at once
          MaxRows    \* bound: in-charge rows there may ever be

ASSUME PostAssumption == MaxRows \in Nat

VARIABLES
  employment,  \* staff -> status
  teaching,    \* the active assignments <<staff, lesson>>
  charges,     \* the in-charge rows [section, staff, active]
  duty,        \* the request each administrator has in flight
  outdated     \* history: a request wrote after another had changed what it had read

postVars == <<employment, teaching, charges, duty, outdated>>

\* ON_LEAVE is still employed; LEFT stands for the other ways of not working here.
Employments == {"ACTIVE", "ON_LEAVE", "LEFT"}
NoDuty == [op |-> "none"]

InCharge(c) == {i \in DOMAIN charges : charges[i].section = c /\ charges[i].active}

---------------------------------------------------------------------------
PostInit ==
  /\ employment = [t \in Staff |-> "ACTIVE"] /\ teaching = {} /\ charges = <<>>
  /\ duty = [r \in Hands |-> NoDuty] /\ outdated = FALSE

\* Every other request has read what may no longer be so.
Outdate(r, t) ==
  [q \in Hands |-> IF q = r THEN t
     ELSE IF duty[q] = NoDuty THEN NoDuty ELSE [duty[q] EXCEPT !.late = TRUE]]

Done(r) == duty' = Outdate(r, NoDuty) /\ outdated' = (outdated \/ duty[r].late)

Taken(r, t) ==
  /\ duty[r] = NoDuty /\ duty' = [duty EXCEPT ![r] = t]
  /\ UNCHANGED <<employment, teaching, charges, outdated>>

\* Faulty variant of Employable: whoever is on leave may be given work.
EmployableOnLeave(t) == employment[t] # "LEFT"

\* assertEmployable
Employable(t) == employment[t] = "ACTIVE"

\* createAssignment for one lesson, createAssignments for more: those held are left
\* as they are, and what another request has made meanwhile is skipped.
StartTeach(r, t, lessons) ==
  /\ Employable(t) /\ lessons \ {l \in Lessons : <<t, l>> \in teaching} # {}
  /\ Taken(r, [op |-> "teach", staff |-> t, lessons |-> lessons, late |-> FALSE])

Teach(r) ==
  /\ duty[r].op = "teach" /\ Done(r)
  /\ teaching' = teaching \cup ({duty[r].staff} \X duty[r].lessons)
  /\ UNCHANGED <<employment, charges>>

\* closeAssignment: closing twice changes nothing.
StopTeaching(t, l) ==
  /\ <<t, l>> \in teaching /\ teaching' = teaching \ {<<t, l>>}
  /\ duty' = Outdate("nobody", NoDuty) /\ UNCHANGED <<employment, charges, outdated>>

RowEnded(rows) == [i \in DOMAIN charges |-> IF i \in rows THEN [charges[i] EXCEPT !.active = FALSE] ELSE charges[i]]

\* assignIncharge: the one read before the transaction is ended in it.
StartCharge(r, t, c) ==
  /\ Employable(t) /\ \A i \in InCharge(c) : charges[i].staff # t
  /\ Taken(r, [op |-> "charge", staff |-> t, section |-> c, from |-> InCharge(c), late |-> FALSE])

\* "At most ONE active in-charge per section", the index.
ChargeFree(t, rows) == \A i \in DOMAIN rows : ~(rows[i].section = t.section /\ rows[i].active)

PutInCharge(r) ==
  LET t == duty[r]
      row == [section |-> t.section, staff |-> t.staff, active |-> TRUE]
  IN  /\ t.op = "charge" /\ Done(r) /\ Len(charges) < MaxRows
      /\ \/ ChargeFree(t, RowEnded(t.from)) /\ charges' = Append(RowEnded(t.from), row)
         \/ ~ChargeFree(t, RowEnded(t.from)) /\ UNCHANGED charges
      /\ UNCHANGED <<employment, teaching>>

\* removeIncharge
RemoveCharge(i) ==
  /\ charges[i].active /\ charges' = RowEnded({i})
  /\ duty' = Outdate("nobody", NoDuty) /\ UNCHANGED <<employment, teaching, outdated>>

\* The in-charge rows that end when somebody stops working here.
EndsWith(t) == {i \in DOMAIN charges : charges[i].staff = t}

\* setStaffStatus: "Anything other than still working here ends their responsibilities".
SetEmployment(t, status) ==
  /\ employment[t] # status /\ employment' = [employment EXCEPT ![t] = status]
  /\ IF status = "LEFT"
       THEN teaching' = {a \in teaching : a[1] # t} /\ charges' = RowEnded(EndsWith(t))
       ELSE UNCHANGED <<teaching, charges>>
  /\ duty' = Outdate("nobody", NoDuty) /\ UNCHANGED outdated

PostNext ==
  \/ \E r \in Hands :
       \/ \E t \in Staff : \/ \E S \in SUBSET Lessons \ {{}} : StartTeach(r, t, S)
                           \/ \E c \in Charges : StartCharge(r, t, c)
       \/ Teach(r) \/ PutInCharge(r)
  \/ \E t \in Staff : \/ \E l \in Lessons : StopTeaching(t, l)
                      \/ \E status \in Employments : SetEmployment(t, status)
  \/ \E i \in DOMAIN charges : RemoveCharge(i)

PostSpec == PostInit /\ [][PostNext]_postVars

---------------------------------------------------------------------------
\* Properties.

\* Statuses, assignments and in-charges are of their types.
PostTypeOK ==
  /\ employment \in [Staff -> Employments] /\ teaching \subseteq Staff \X Lessons
  /\ \A i \in DOMAIN charges : charges[i] \in [section : Charges, staff : Staff, active : BOOLEAN]

\* "so they no longer appear in class lists and lose their scoped access"
\* (setStaffStatus): who has left teaches nothing and is in charge of nothing,
\* through leaving, coming back and leaving again, unless a request that began
\* before they left wrote after it.
LeaversHoldNothing ==
  ~outdated => \A t \in Staff : employment[t] = "LEFT" =>
    (\A l \in Lessons : <<t, l>> \notin teaching) /\ \A i \in DOMAIN charges : charges[i].active => charges[i].staff # t

\* A section is in the charge of the one appointed last, or of nobody: no
\* replacement, removal or return, in any order, brings an earlier one back.
LastAppointedIsInCharge ==
  \A i, j \in DOMAIN charges : i < j /\ charges[i].section = charges[j].section => ~charges[i].active

\* "Only active staff can receive new assignments" (schema.prisma): who is on
\* leave keeps what they hold and gets nothing more.
OnLeaveGetsNothingNew ==
  [][~outdated' => \A t \in Staff : employment[t] = "ON_LEAVE" =>
       \A a \in teaching' \ teaching : a[1] # t]_postVars

\* Posts follow employment: none for who has left, nothing new for who is on leave,
\* and the last appointed is in charge.
PostsFollowEmployment ==
  [](PostTypeOK /\ LeaversHoldNothing /\ LastAppointedIsInCharge) /\ OnLeaveGetsNothingNew
=============================================================================
