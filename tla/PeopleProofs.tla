---------------------------- MODULE PeopleProofs -----------------------------
(***************************************************************************)
(* For any people, lessons, sections, logins, applications, notices and    *)
(* requests: whoever leaves holds nothing any more, erasing a person loses *)
(* nothing that says what happened and no login but theirs, a student sits *)
(* in one place, applications are kept as their two sides left them, and a *)
(* notice reaches whom its last form names. In all five the inductive      *)
(* invariant says of a request in flight that nothing overtook, or that is *)
(* alone on its row, that what it has read, or counted, before its         *)
(* transaction is still so; on an application also that the last word of   *)
(* the exchange is the one such a request has just added.                  *)
(***************************************************************************)
EXTENDS StaffPosts, Erasure, Enrolments, Complaints, Notices, SequenceTheorems, TLAPS

ChargeRows == [section : Charges, staff : Staff, active : BOOLEAN]

\* The requests an administrator may have in flight.
Duties ==
  {NoDuty}
    \cup [op : {"teach"}, staff : Staff, lessons : SUBSET Lessons, late : BOOLEAN]
    \cup [op : {"charge"}, staff : Staff, section : Charges, from : SUBSET Nat, late : BOOLEAN]

PostShape ==
  /\ employment \in [Staff -> Employments] /\ teaching \subseteq Staff \X Lessons
  /\ charges \in Seq(ChargeRows)
  /\ duty \in [Hands -> Duties] /\ outdated \in BOOLEAN

\* What a request that is not late has read is still so.
LooksKnow ==
  \A r \in Hands : duty[r] # NoDuty /\ ~duty[r].late => employment[duty[r].staff] = "ACTIVE"

PostInvariant == PostShape /\ LooksKnow /\ LeaversHoldNothing /\ LastAppointedIsInCharge

\* A request becomes late, and stays a request.
LEMMA LateKeeps ==
  ASSUME NEW t \in Duties, t # NoDuty
  PROVE  [t EXCEPT !.late = TRUE] \in Duties /\ [t EXCEPT !.late = TRUE].late
<1>1. ASSUME NEW d \in [op : {"teach"}, staff : Staff, lessons : SUBSET Lessons, late : BOOLEAN]
      PROVE  [d EXCEPT !.late = TRUE] \in Duties /\ [d EXCEPT !.late = TRUE].late
  BY DEF Duties
<1>2. ASSUME NEW d \in [op : {"charge"}, staff : Staff, section : Charges, from : SUBSET Nat, late : BOOLEAN]
      PROVE  [d EXCEPT !.late = TRUE] \in Duties /\ [d EXCEPT !.late = TRUE].late
  BY DEF Duties
<1> QED BY <1>1, <1>2, Zenon DEF Duties

\* What another request wrote makes every request late that is in flight.
LEMMA OutdateKeeps ==
  ASSUME duty \in [Hands -> Duties], NEW r, NEW t \in Duties
  PROVE  /\ Outdate(r, t) \in [Hands -> Duties]
         /\ \A q \in Hands : q # r /\ Outdate(r, t)[q] # NoDuty => Outdate(r, t)[q].late
         /\ r \in Hands => Outdate(r, t)[r] = t
<1> DEFINE Marked(q) == [duty[q] EXCEPT !.late = TRUE]
<1>1. ASSUME NEW q \in Hands, duty[q] # NoDuty
      PROVE  Marked(q) \in Duties /\ Marked(q).late
  BY <1>1, LateKeeps, Zenon
<1>2. Outdate(r, t) = [q \in Hands |-> IF q = r THEN t ELSE IF duty[q] = NoDuty THEN NoDuty ELSE Marked(q)]
  BY Zenon DEF Outdate
<1> HIDE DEF Marked
<1>3. NoDuty \in Duties
  BY DEF Duties
<1> QED BY <1>1, <1>2, <1>3

\* A row ended is a row, of the same section and person.
LEMMA EndedRow ==
  ASSUME NEW row \in ChargeRows
  PROVE  [row EXCEPT !.active = FALSE] \in [section : {row.section}, staff : {row.staff}, active : {FALSE}]
BY DEF ChargeRows

\* Ending rows leaves a sequence of rows, of the same sections and staff.
LEMMA RowEndedKeeps ==
  ASSUME charges \in Seq(ChargeRows), NEW rows
  PROVE  /\ RowEnded(rows) \in Seq(ChargeRows)
         /\ DOMAIN RowEnded(rows) = DOMAIN charges /\ Len(RowEnded(rows)) = Len(charges)
         /\ \A i \in DOMAIN charges :
              /\ RowEnded(rows)[i].section = charges[i].section
              /\ RowEnded(rows)[i].staff = charges[i].staff
              /\ RowEnded(rows)[i].active <=> charges[i].active /\ i \notin rows
<1> DEFINE Ended(i) == [charges[i] EXCEPT !.active = FALSE]
<1>1. DOMAIN charges = 1..Len(charges) /\ Len(charges) \in Nat
  OBVIOUS
<1>2. \A i \in DOMAIN charges : charges[i] \in ChargeRows
  BY <1>1
<1>3. \A i \in DOMAIN charges : Ended(i) \in [section : {charges[i].section}, staff : {charges[i].staff}, active : {FALSE}]
  BY <1>2, EndedRow, Zenon
<1>4. RowEnded(rows) = [i \in DOMAIN charges |-> IF i \in rows THEN Ended(i) ELSE charges[i]]
  BY Zenon DEF RowEnded
<1> HIDE DEF Ended
<1>5. \A i \in DOMAIN charges :
        /\ RowEnded(rows)[i] \in ChargeRows
        /\ RowEnded(rows)[i].section = charges[i].section
        /\ RowEnded(rows)[i].staff = charges[i].staff
        /\ RowEnded(rows)[i].active <=> charges[i].active /\ i \notin rows
  BY <1>2, <1>3, <1>4 DEF ChargeRows
<1>6. RowEnded(rows) \in [1..Len(charges) -> ChargeRows]
  BY <1>1, <1>4, <1>5
<1>7. RowEnded(rows) \in Seq(ChargeRows) /\ Len(RowEnded(rows)) = Len(charges)
  BY <1>1, <1>6
<1> QED BY <1>1, <1>4, <1>5, <1>7

\* The initial state satisfies the invariant.
LEMMA PostInitHolds == PostInit => PostInvariant
<1> SUFFICES ASSUME PostInit PROVE PostInvariant
  OBVIOUS
<1> USE DEF PostInit
<1>1. PostShape
  <2>1. charges \in Seq(ChargeRows)
    OBVIOUS
  <2>2. NoDuty \in Duties
    BY DEF Duties
  <2>3. "ACTIVE" \in Employments
    BY DEF Employments
  <2> QED BY <2>1, <2>2, <2>3 DEF PostShape
<1>2. LooksKnow
  BY DEF LooksKnow
<1>3. LeaversHoldNothing /\ LastAppointedIsInCharge
  BY DEF LeaversHoldNothing, LastAppointedIsInCharge
<1> QED BY <1>1, <1>2, <1>3 DEF PostInvariant

\* A request that begins has looked just now.
LEMMA TakenKeeps ==
  ASSUME PostInvariant, NEW r \in Hands, NEW t \in Duties, t # NoDuty,
         Employable(t.staff), Taken(r, t)
  PROVE  PostInvariant'
<1> USE DEF PostInvariant
<1>1. UNCHANGED <<employment, teaching, charges, outdated>> /\ duty' = [duty EXCEPT ![r] = t]
  BY DEF Taken
<1>2. PostShape'
  BY <1>1 DEF PostShape
<1>3. LooksKnow'
  BY <1>1 DEF LooksKnow, Employable, PostShape
<1>4. LeaversHoldNothing' /\ LastAppointedIsInCharge'
  BY <1>1 DEF LeaversHoldNothing, LastAppointedIsInCharge
<1> QED BY <1>2, <1>3, <1>4

\* After a write no request in flight is on time, so none has to know anything.
LEMMA OutdatedKnowNothing ==
  ASSUME PostShape, NEW r, duty' = Outdate(r, NoDuty)
  PROVE  duty' \in [Hands -> Duties] /\ LooksKnow'
<1>1. NoDuty \in Duties
  BY DEF Duties
<1>2. /\ duty' \in [Hands -> Duties]
      /\ \A q \in Hands : q # r /\ duty'[q] # NoDuty => duty'[q].late
      /\ r \in Hands => duty'[r] = NoDuty
  BY <1>1, OutdateKeeps, Zenon DEF PostShape
<1> QED BY <1>2 DEF LooksKnow

\* Ended rows give nobody a post, and bring no earlier in-charge back.
LEMMA EndedChargesKeep ==
  ASSUME PostShape, LastAppointedIsInCharge, NEW rows, charges' = RowEnded(rows)
  PROVE  /\ charges' \in Seq(ChargeRows) /\ LastAppointedIsInCharge'
         /\ DOMAIN charges' = DOMAIN charges
         /\ \A i \in DOMAIN charges : /\ charges'[i].staff = charges[i].staff
                                      /\ charges'[i].active <=> charges[i].active /\ i \notin rows
BY RowEndedKeeps DEF PostShape, LastAppointedIsInCharge

\* createAssignments, when it writes.
LEMMA TeachKeeps ==
  ASSUME PostInvariant, NEW r \in Hands, Teach(r)
  PROVE  /\ PostInvariant'
         /\ ~outdated' => \A a \in teaching' \ teaching : employment[a[1]] = "ACTIVE"
<1> USE DEF PostInvariant
<1> DEFINE t == duty[r]
<1>1. /\ t.op = "teach" /\ duty' = Outdate(r, NoDuty) /\ outdated' = (outdated \/ t.late)
      /\ teaching' = teaching \cup ({t.staff} \X t.lessons) /\ UNCHANGED <<employment, charges>>
  BY DEF Teach, Done
<1>2. t \in [op : {"teach"}, staff : Staff, lessons : SUBSET Lessons, late : BOOLEAN] /\ t # NoDuty
  BY <1>1 DEF PostShape, Duties, NoDuty
<1>3. duty' \in [Hands -> Duties] /\ LooksKnow'
  BY <1>1, OutdatedKnowNothing
<1>4. ~outdated' => ~outdated /\ employment[t.staff] = "ACTIVE"
  BY <1>1, <1>2 DEF LooksKnow
<1>5. \A a \in teaching' \ teaching : a[1] = t.staff
  BY <1>1
<1>6. PostShape'
  BY <1>1, <1>2, <1>3 DEF PostShape
<1>7. LeaversHoldNothing'
  BY <1>1, <1>4, <1>5 DEF LeaversHoldNothing
<1>8. LastAppointedIsInCharge'
  BY <1>1 DEF LastAppointedIsInCharge
<1> QED BY <1>3, <1>4, <1>5, <1>6, <1>7, <1>8

\* assignIncharge, when it writes: the index lets it in only where nobody is.
LEMMA PutInChargeKeeps ==
  ASSUME PostInvariant, NEW r \in Hands, PutInCharge(r)
  PROVE  PostInvariant'
<1> USE DEF PostInvariant
<1> DEFINE t == duty[r]
           rows == RowEnded(t.from)
           row == [section |-> t.section, staff |-> t.staff, active |-> TRUE]
<1>1. /\ t.op = "charge" /\ duty' = Outdate(r, NoDuty) /\ outdated' = (outdated \/ t.late)
      /\ \/ ChargeFree(t, rows) /\ charges' = Append(rows, row)
         \/ UNCHANGED charges
      /\ UNCHANGED <<employment, teaching>>
  BY DEF PutInCharge, Done
<1>2. t \in [op : {"charge"}, staff : Staff, section : Charges, from : SUBSET Nat, late : BOOLEAN] /\ t # NoDuty
  BY <1>1 DEF PostShape, Duties, NoDuty
<1>3. duty' \in [Hands -> Duties] /\ LooksKnow'
  BY <1>1, OutdatedKnowNothing
<1>4. ~outdated' => ~outdated /\ employment[t.staff] = "ACTIVE"
  BY <1>1, <1>2 DEF LooksKnow
<1>5. CASE UNCHANGED charges
  <2>1. PostShape'
    BY <1>1, <1>2, <1>3, <1>5 DEF PostShape
  <2>2. LeaversHoldNothing' /\ LastAppointedIsInCharge'
    BY <1>1, <1>4, <1>5 DEF LeaversHoldNothing, LastAppointedIsInCharge
  <2> QED BY <1>3, <2>1, <2>2
<1>6. CASE ChargeFree(t, rows) /\ charges' = Append(rows, row)
  <2>1. /\ rows \in Seq(ChargeRows) /\ Len(rows) = Len(charges) /\ Len(charges) \in Nat
        /\ DOMAIN rows = 1..Len(charges) /\ DOMAIN charges = 1..Len(charges)
        /\ \A i \in DOMAIN charges :
             /\ rows[i].section = charges[i].section /\ rows[i].staff = charges[i].staff
             /\ rows[i].active <=> charges[i].active /\ i \notin t.from
    BY RowEndedKeeps DEF PostShape
  <2>2. row \in ChargeRows /\ row.section = t.section /\ row.staff = t.staff
    BY <1>2 DEF ChargeRows
  <2> HIDE DEF rows, row
  <2>3. /\ charges' \in Seq(ChargeRows) /\ DOMAIN charges' = 1..(Len(charges) + 1)
        /\ charges'[Len(charges) + 1] = row
        /\ \A i \in 1..Len(charges) : charges'[i] = rows[i]
    BY <1>6, <2>1, <2>2
  <2>4. PostShape'
    BY <1>1, <1>2, <1>3, <2>3 DEF PostShape
  <2>5. LeaversHoldNothing'
    <3> SUFFICES ASSUME ~outdated', NEW p \in Staff, employment'[p] = "LEFT",
                        NEW i \in DOMAIN charges', charges'[i].active
                 PROVE  charges'[i].staff # p
      BY <1>1, <1>4 DEF LeaversHoldNothing
    <3>1. CASE i = Len(charges) + 1
      BY <3>1, <1>1, <1>4, <2>2, <2>3
    <3>2. CASE i \in 1..Len(charges)
      BY <3>2, <1>1, <1>4, <2>1, <2>3 DEF LeaversHoldNothing
    <3> QED BY <3>1, <3>2, <2>1, <2>3
  <2>6. LastAppointedIsInCharge'
    <3> SUFFICES ASSUME NEW i \in DOMAIN charges', NEW j \in DOMAIN charges', i < j,
                        charges'[i].section = charges'[j].section
                 PROVE  ~charges'[i].active
      BY DEF LastAppointedIsInCharge
    <3>1. i \in 1..Len(charges)
      BY <2>1, <2>3
    <3>2. CASE j = Len(charges) + 1
      BY <3>1, <3>2, <1>6, <2>1, <2>2, <2>3 DEF ChargeFree
    <3>3. CASE j \in 1..Len(charges)
      BY <3>1, <3>3, <2>1, <2>3 DEF LastAppointedIsInCharge
    <3> QED BY <3>2, <3>3, <2>1, <2>3
  <2> QED BY <1>3, <2>4, <2>5, <2>6
<1> QED BY <1>1, <1>5, <1>6

\* closeAssignment and removeIncharge.
LEMMA RemovalsKeep ==
  ASSUME PostInvariant,
         \/ \E t \in Staff, l \in Lessons : StopTeaching(t, l)
         \/ \E i \in DOMAIN charges : RemoveCharge(i)
  PROVE  PostInvariant' /\ teaching' \subseteq teaching
<1> USE DEF PostInvariant
<1>1. ASSUME NEW t \in Staff, NEW l \in Lessons, StopTeaching(t, l)
      PROVE  PostInvariant' /\ teaching' \subseteq teaching
  <2>1. /\ teaching' \subseteq teaching /\ duty' = Outdate("nobody", NoDuty)
        /\ UNCHANGED <<employment, charges, outdated>>
    BY <1>1 DEF StopTeaching
  <2>2. duty' \in [Hands -> Duties] /\ LooksKnow'
    BY <2>1, OutdatedKnowNothing
  <2>3. PostShape'
    BY <2>1, <2>2 DEF PostShape
  <2>4. LeaversHoldNothing' /\ LastAppointedIsInCharge'
    BY <2>1 DEF LeaversHoldNothing, LastAppointedIsInCharge
  <2> QED BY <2>1, <2>2, <2>3, <2>4
<1>2. ASSUME NEW i \in DOMAIN charges, RemoveCharge(i)
      PROVE  PostInvariant' /\ teaching' \subseteq teaching
  <2>1. /\ charges' = RowEnded({i}) /\ duty' = Outdate("nobody", NoDuty)
        /\ UNCHANGED <<employment, teaching, outdated>>
    BY <1>2 DEF RemoveCharge
  <2>2. duty' \in [Hands -> Duties] /\ LooksKnow'
    BY <2>1, OutdatedKnowNothing
  <2>3. /\ charges' \in Seq(ChargeRows) /\ LastAppointedIsInCharge' /\ DOMAIN charges' = DOMAIN charges
        /\ \A k \in DOMAIN charges : /\ charges'[k].staff = charges[k].staff
                                     /\ charges'[k].active => charges[k].active
    BY <2>1, EndedChargesKeep
  <2>4. PostShape'
    BY <2>1, <2>2, <2>3 DEF PostShape
  <2>5. LeaversHoldNothing'
    BY <2>1, <2>3 DEF LeaversHoldNothing
  <2> QED BY <2>1, <2>2, <2>3, <2>4, <2>5
<1> QED BY <1>1, <1>2

\* setStaffStatus: who leaves loses everything in the same transaction.
LEMMA SetEmploymentKeeps ==
  ASSUME PostInvariant, NEW t \in Staff, NEW status \in Employments, SetEmployment(t, status)
  PROVE  PostInvariant' /\ teaching' \subseteq teaching
<1> USE DEF PostInvariant
<1>1. /\ employment' = [employment EXCEPT ![t] = status]
      /\ duty' = Outdate("nobody", NoDuty) /\ UNCHANGED outdated
  BY DEF SetEmployment
<1>2. duty' \in [Hands -> Duties] /\ LooksKnow'
  BY <1>1, OutdatedKnowNothing
<1>3. employment' \in [Staff -> Employments]
  BY <1>1 DEF PostShape
<1>4. CASE status = "LEFT"
  <2>1. teaching' = {a \in teaching : a[1] # t} /\ charges' = RowEnded(EndsWith(t))
    BY <1>4 DEF SetEmployment
  <2>2. /\ charges' \in Seq(ChargeRows) /\ LastAppointedIsInCharge' /\ DOMAIN charges' = DOMAIN charges
        /\ \A k \in DOMAIN charges : /\ charges'[k].staff = charges[k].staff
                                     /\ charges'[k].active <=> charges[k].active /\ k \notin EndsWith(t)
    BY <2>1, EndedChargesKeep
  <2>3. PostShape'
    BY <1>1, <1>2, <1>3, <2>1, <2>2 DEF PostShape
  <2>4. LeaversHoldNothing'
    BY <1>1, <2>1, <2>2, ZenonT(60) DEF LeaversHoldNothing, EndsWith, PostShape
  <2> QED BY <1>2, <2>1, <2>2, <2>3, <2>4
<1>5. CASE status # "LEFT"
  <2>1. UNCHANGED <<teaching, charges>>
    BY <1>5 DEF SetEmployment
  <2>2. PostShape' /\ LastAppointedIsInCharge'
    BY <1>1, <1>2, <1>3, <2>1 DEF PostShape, LastAppointedIsInCharge
  <2>3. LeaversHoldNothing'
    BY <1>1, <1>5, <2>1 DEF LeaversHoldNothing, PostShape
  <2> QED BY <1>2, <2>1, <2>2, <2>3
<1> QED BY <1>4, <1>5

\* Every step keeps the invariant, and gives something only to who is active.
LEMMA PostStepHolds ==
  ASSUME PostInvariant, [PostNext]_postVars
  PROVE  /\ PostInvariant'
         /\ ~outdated' => \A a \in teaching' \ teaching : employment[a[1]] = "ACTIVE"
<1>1. ASSUME NEW r \in Hands, NEW t \in Staff, NEW S \in SUBSET Lessons, StartTeach(r, t, S)
      PROVE  PostInvariant' /\ UNCHANGED teaching
  <2> DEFINE d == [op |-> "teach", staff |-> t, lessons |-> S, late |-> FALSE]
  <2>1. Employable(t) /\ Taken(r, d)
    BY <1>1 DEF StartTeach
  <2>2. d \in Duties /\ d # NoDuty /\ d.staff = t
    BY DEF Duties, NoDuty
  <2> HIDE DEF d
  <2>3. PostInvariant'
    BY <2>1, <2>2, TakenKeeps
  <2> QED BY <2>1, <2>3 DEF Taken
<1>2. ASSUME NEW r \in Hands, NEW t \in Staff, NEW c \in Charges, StartCharge(r, t, c)
      PROVE  PostInvariant' /\ UNCHANGED teaching
  <2> DEFINE d == [op |-> "charge", staff |-> t, section |-> c, from |-> InCharge(c), late |-> FALSE]
  <2>1. Employable(t) /\ Taken(r, d)
    BY <1>2 DEF StartCharge
  <2>2. InCharge(c) \in SUBSET Nat
    BY DEF InCharge, PostInvariant, PostShape
  <2>3. d \in Duties /\ d # NoDuty /\ d.staff = t
    BY <2>2 DEF Duties, NoDuty
  <2> HIDE DEF d
  <2>4. PostInvariant'
    BY <2>1, <2>3, TakenKeeps
  <2> QED BY <2>1, <2>4 DEF Taken
<1>3. ASSUME NEW r \in Hands, PutInCharge(r)
      PROVE  PostInvariant' /\ UNCHANGED teaching
  BY <1>3, PutInChargeKeeps DEF PutInCharge
<1>4. CASE UNCHANGED postVars
  BY <1>4 DEF postVars, PostInvariant, PostShape, LooksKnow, LeaversHoldNothing, LastAppointedIsInCharge
<1> QED BY <1>1, <1>2, <1>3, <1>4, TeachKeeps, RemovalsKeep, SetEmploymentKeeps DEF PostNext

\* For every college: who has left holds nothing, whoever is in charge was
\* appointed last, and who is on leave gets nothing new, through any overlap of the
\* requests of staff.service.ts (the first and the last unless a request wrote on
\* what had changed).
THEOREM PostsFollowEmploymentHolds == PostSpec => PostsFollowEmployment
<1> DEFINE OnlyActiveGetMore ==
             ~outdated' => \A t \in Staff : employment[t] = "ON_LEAVE" =>
               \A a \in teaching' \ teaching : a[1] # t
<1>1. PostInit => PostInvariant
  BY PostInitHolds
<1>2. PostInvariant /\ [PostNext]_postVars => PostInvariant'
  BY PostStepHolds
<1>3. PostInvariant => PostTypeOK /\ LeaversHoldNothing /\ LastAppointedIsInCharge
  <2>1. PostShape => \A i \in DOMAIN charges : charges[i] \in ChargeRows
    BY DEF PostShape
  <2> QED BY <2>1, Zenon DEF PostInvariant, PostShape, PostTypeOK, ChargeRows
<1>4. PostInvariant /\ [PostNext]_postVars => [OnlyActiveGetMore]_postVars
  BY PostStepHolds
<1> QED BY <1>1, <1>2, <1>3, <1>4, PTL DEF PostSpec, PostsFollowEmployment, OnLeaveGetsNothingNew

---------------------------------------------------------------------------
LinkErrands == [op : {"link"}, p : Persons, a : Logins, late : BOOLEAN]
EraseErrands == [op : {"erase"}, p : Persons, a : Logins \cup {NoLogin}, late : BOOLEAN]

\* The requests a clerk may have in flight.
Errands == {NoErrand} \cup LinkErrands \cup EraseErrands

ErasureShape ==
  /\ ErasureTypeOK
  /\ linked \in [Persons -> Logins \cup {NoLogin}] /\ refs \in [Persons -> SUBSET {"work", "papers", "plan", "charge"}]
  /\ errand \in [Clerks -> Errands] /\ beside \in BOOLEAN

\* What an erasure that is not late has counted and read is still so.
CountsStand ==
  \A r \in Clerks : errand[r] # NoErrand /\ errand[r].op = "erase" /\ ~errand[r].late =>
    /\ RefsInTheWay(errand[r].p) = {} /\ LoginMayGo(errand[r].a)
    /\ linked[errand[r].p] = errand[r].a

ErasureInvariant == ErasureShape /\ CountsStand

\* What one step may do to the people and to the logins.
StepLosesNothing ==
  /\ \A p \in present : p \notin present' =>
       "work" \notin refs[p] /\ (~beside' => "papers" \notin refs[p])
  /\ ~beside' => \A a \in logins : a \notin logins' =>
       a \notin acted /\ \E p \in Persons : linked[p] = a /\ p \notin present'

\* A request becomes late, and stays a request.
LEMMA LateErrand ==
  ASSUME NEW t \in Errands, t # NoErrand
  PROVE  [t EXCEPT !.late = TRUE] \in Errands /\ [t EXCEPT !.late = TRUE].late
<1>1. ASSUME NEW d \in LinkErrands
      PROVE  [d EXCEPT !.late = TRUE] \in LinkErrands /\ [d EXCEPT !.late = TRUE].late
  BY DEF LinkErrands
<1>2. ASSUME NEW d \in EraseErrands
      PROVE  [d EXCEPT !.late = TRUE] \in EraseErrands /\ [d EXCEPT !.late = TRUE].late
  BY DEF EraseErrands
<1> QED BY <1>1, <1>2, Zenon DEF Errands

\* What is written makes late whoever else is in flight: they need know nothing.
LEMMA UnseenKeeps ==
  ASSUME errand \in [Clerks -> Errands], NEW r, errand' = Unseen(r, NoErrand)
  PROVE  errand' \in [Clerks -> Errands] /\ CountsStand'
<1> DEFINE Marked(q) == [errand[q] EXCEPT !.late = TRUE]
<1>1. ASSUME NEW q \in Clerks, errand[q] # NoErrand
      PROVE  Marked(q) \in Errands /\ Marked(q).late
  BY <1>1, LateErrand, Zenon
<1>2. errand' = [q \in Clerks |-> IF q = r THEN NoErrand ELSE IF errand[q] = NoErrand THEN NoErrand ELSE Marked(q)]
  BY Zenon DEF Unseen
<1> HIDE DEF Marked
<1>3. NoErrand \in Errands
  BY DEF Errands
<1>4. errand' \in [Clerks -> Errands] /\ \A q \in Clerks : errand'[q] # NoErrand => errand'[q].late
  BY <1>1, <1>2, <1>3
<1> QED BY <1>4 DEF CountsStand

\* The initial state satisfies the invariant.
LEMMA ErasureInitHolds == ErasureInit => ErasureInvariant
<1> SUFFICES ASSUME ErasureInit PROVE ErasureInvariant
  OBVIOUS
<1> USE DEF ErasureInit
<1>1. ErasureShape
  BY DEF ErasureShape, ErasureTypeOK, Errands, RefKinds
<1>2. CountsStand
  BY DEF CountsStand
<1> QED BY <1>1, <1>2 DEF ErasureInvariant

\* A request that begins has looked just now.
LEMMA BegunKeeps ==
  ASSUME ErasureInvariant, NEW r \in Clerks, NEW t \in Errands, Begun(r, t),
         t.op = "erase" => RefsInTheWay(t.p) = {} /\ LoginMayGo(t.a) /\ linked[t.p] = t.a
  PROVE  ErasureInvariant' /\ StepLosesNothing
<1> USE DEF ErasureInvariant
<1>1. UNCHANGED <<present, logins, linked, refs, acted, beside>> /\ errand' = [errand EXCEPT ![r] = t]
  BY DEF Begun
<1>2. ErasureShape'
  BY <1>1 DEF ErasureShape, ErasureTypeOK
<1>3. CountsStand'
  BY <1>1 DEF CountsStand, RefsInTheWay, LoginMayGo, ErasureShape
<1> QED BY <1>1, <1>2, <1>3 DEF StepLosesNothing

\* Records made about people, acts of accounts, and logins taken off.
LEMMA CollegeKeeps ==
  ASSUME ErasureInvariant,
         \/ \E p \in Persons : Unlink(p) \/ \E k \in RefKinds(p) : Refer(p, k)
         \/ \E a \in Logins : Act(a)
  PROVE  ErasureInvariant' /\ StepLosesNothing
<1> USE DEF ErasureInvariant
<1>1. errand' = Unseen("college", NoErrand) /\ UNCHANGED <<present, logins, beside>>
  BY DEF Unlink, Refer, Act
<1>2. errand' \in [Clerks -> Errands] /\ CountsStand'
  BY <1>1, UnseenKeeps DEF ErasureShape
<1>3. ASSUME NEW p \in Persons, Unlink(p) PROVE ErasureShape'
  BY <1>1, <1>2, <1>3 DEF Unlink, ErasureShape, ErasureTypeOK
<1>4. ASSUME NEW p \in Persons, NEW k \in RefKinds(p), Refer(p, k) PROVE ErasureShape'
  <2>1. refs' = [refs EXCEPT ![p] = refs[p] \cup {k}] /\ p \in present /\ UNCHANGED <<linked, acted>>
    BY <1>4 DEF Refer
  <2>2. k \in {"work", "papers", "plan", "charge"}
    BY DEF RefKinds
  <2>3. refs' \in [Persons -> SUBSET {"work", "papers", "plan", "charge"}]
    BY <2>1, <2>2 DEF ErasureShape
  <2>4. \A q \in Persons : refs'[q] = IF q = p THEN refs[p] \cup {k} ELSE refs[q]
    BY <2>1 DEF ErasureShape
  <2>5. ErasureTypeOK'
    BY <1>1, <2>1, <2>4 DEF ErasureShape, ErasureTypeOK
  <2> QED BY <1>1, <1>2, <2>1, <2>3, <2>5 DEF ErasureShape
<1>5. ASSUME NEW a \in Logins, Act(a) PROVE ErasureShape'
  BY <1>1, <1>2, <1>5 DEF Act, ErasureShape, ErasureTypeOK
<1>6. ErasureShape'
  BY <1>3, <1>4, <1>5
<1> QED BY <1>1, <1>2, <1>6 DEF StepLosesNothing

\* linkStudentAccount and linkStaffAccount, when they write.
LEMMA WriteLinkKeeps ==
  ASSUME ErasureInvariant, NEW r \in Clerks, WriteLink(r)
  PROVE  ErasureInvariant' /\ StepLosesNothing
<1> USE DEF ErasureInvariant
<1> DEFINE t == errand[r]
<1>1. /\ t.op = "link" /\ errand' = Unseen(r, NoErrand) /\ beside' = (beside \/ t.late)
      /\ \/ t.p \in present /\ t.a \in logins /\ linked' = [linked EXCEPT ![t.p] = t.a]
         \/ UNCHANGED linked
      /\ UNCHANGED <<present, logins, refs, acted>>
  BY DEF WriteLink, ErasureDone
<1>2. t \in LinkErrands
  BY <1>1 DEF ErasureShape, Errands, NoErrand, EraseErrands
<1>3. errand' \in [Clerks -> Errands] /\ CountsStand'
  BY <1>1, UnseenKeeps DEF ErasureShape
<1>4. beside' \in BOOLEAN
  BY <1>1, <1>2 DEF ErasureShape, LinkErrands
<1>5. t.p \in Persons /\ t.a \in Logins
  BY <1>2 DEF LinkErrands
<1> HIDE DEF t
<1>6. /\ linked' \in [Persons -> Logins \cup {NoLogin}]
      /\ \A p \in Persons : linked'[p] \in logins \cup {NoLogin}
      /\ \A p \in Persons \ present : linked'[p] = NoLogin
  BY <1>1, <1>5 DEF ErasureShape, ErasureTypeOK
<1>7. ErasureShape'
  BY <1>1, <1>3, <1>4, <1>6 DEF ErasureShape, ErasureTypeOK
<1> QED BY <1>1, <1>3, <1>7 DEF StepLosesNothing

\* deleteStudent and deleteStaff, when they write.
LEMMA EraseKeeps ==
  ASSUME ErasureInvariant, NEW r \in Clerks, Erase(r)
  PROVE  ErasureInvariant' /\ StepLosesNothing
<1> USE DEF ErasureInvariant
<1> DEFINE t == errand[r]
<1>1. /\ t.op = "erase" /\ errand' = Unseen(r, NoErrand) /\ beside' = (beside \/ t.late)
      /\ \/ /\ t.p \in present /\ refs[t.p] \cap Restricting = {}
            /\ present' = present \ {t.p} /\ logins' = logins \ LoginErased(t)
            /\ linked' = LinksAfter(t)
            /\ refs' = [refs EXCEPT ![t.p] = {}] /\ acted' = acted \ LoginErased(t)
         \/ UNCHANGED <<present, logins, linked, refs, acted>>
  BY DEF Erase, ErasureDone
<1>2. t \in EraseErrands
  BY <1>1 DEF ErasureShape, Errands, NoErrand, LinkErrands
<1>3. errand' \in [Clerks -> Errands] /\ CountsStand'
  BY <1>1, UnseenKeeps DEF ErasureShape
<1>4. beside' \in BOOLEAN
  BY <1>1, <1>2 DEF ErasureShape, EraseErrands
<1>5. t.p \in Persons /\ t.a \in Logins \cup {NoLogin}
  BY <1>2 DEF EraseErrands
<1>6. ~beside' => RefsInTheWay(t.p) = {} /\ LoginMayGo(t.a) /\ linked[t.p] = t.a
  BY <1>1, <1>2 DEF CountsStand, EraseErrands, NoErrand
<1> HIDE DEF t
<1>7. CASE UNCHANGED <<present, logins, linked, refs, acted>>
  BY <1>3, <1>4, <1>7 DEF ErasureShape, ErasureTypeOK, StepLosesNothing
<1>8. CASE /\ t.p \in present /\ refs[t.p] \cap Restricting = {}
           /\ present' = present \ {t.p} /\ logins' = logins \ LoginErased(t)
           /\ linked' = LinksAfter(t)
           /\ refs' = [refs EXCEPT ![t.p] = {}] /\ acted' = acted \ LoginErased(t)
  <2>1. /\ linked' \in [Persons -> Logins \cup {NoLogin}]
        /\ \A p \in Persons : linked'[p] = IF p = t.p \/ linked[p] \in LoginErased(t) THEN NoLogin ELSE linked[p]
    BY <1>8 DEF ErasureShape, LinksAfter
  <2>2. /\ refs' \in [Persons -> SUBSET {"work", "papers", "plan", "charge"}]
        /\ \A p \in Persons : refs'[p] = IF p = t.p THEN {} ELSE refs[p]
    BY <1>5, <1>8 DEF ErasureShape
  <2>3. ErasureTypeOK'
    BY <1>8, <2>1, <2>2 DEF ErasureShape, ErasureTypeOK
  <2>4. ErasureShape'
    BY <1>3, <1>4, <2>1, <2>2, <2>3 DEF ErasureShape
  <2>5. StepLosesNothing
    BY <1>5, <1>6, <1>8 DEF StepLosesNothing, Restricting, RefsInTheWay, LoginMayGo, LoginErased
  <2> QED BY <1>3, <2>4, <2>5
<1> QED BY <1>1, <1>7, <1>8

\* Every step keeps the invariant and loses nothing.
LEMMA ErasureStepHolds ==
  ASSUME ErasureInvariant, [ErasureNext]_erasureVars
  PROVE  ErasureInvariant' /\ StepLosesNothing
<1>1. ASSUME NEW p \in Persons, NEW r \in Clerks, StartErase(r, p)
      PROVE  ErasureInvariant' /\ StepLosesNothing
  <2> DEFINE d == [op |-> "erase", p |-> p, a |-> linked[p], late |-> FALSE]
  <2>1. RefsInTheWay(p) = {} /\ LoginMayGo(linked[p]) /\ Begun(r, d)
    BY <1>1 DEF StartErase
  <2>2. d \in Errands /\ d.p = p /\ d.a = linked[p]
    BY DEF Errands, EraseErrands, ErasureInvariant, ErasureShape
  <2> HIDE DEF d
  <2> QED BY <2>1, <2>2, BegunKeeps
<1>2. ASSUME NEW p \in Persons, NEW a \in Logins, NEW r \in Clerks, StartLink(r, p, a)
      PROVE  ErasureInvariant' /\ StepLosesNothing
  <2> DEFINE d == [op |-> "link", p |-> p, a |-> a, late |-> FALSE]
  <2>1. Begun(r, d)
    BY <1>2 DEF StartLink
  <2>2. d \in Errands /\ d.op # "erase"
    BY DEF Errands, LinkErrands
  <2> HIDE DEF d
  <2> QED BY <2>1, <2>2, BegunKeeps
<1>3. CASE UNCHANGED erasureVars
  BY <1>3 DEF erasureVars, ErasureInvariant, ErasureShape, ErasureTypeOK, CountsStand, RefsInTheWay,
             LoginMayGo, StepLosesNothing
<1> QED BY <1>1, <1>2, <1>3, CollegeKeeps, WriteLinkKeeps, EraseKeeps DEF ErasureNext

\* For every college: work is never erased with a person, papers are not, and no
\* account that has acted goes, nor one of somebody who stays (the last three
\* unless a request wrote beside the erasure).
THEOREM NothingIsLostHolds == ErasureSpec => NothingIsLost
<1>1. ErasureInit => ErasureInvariant
  BY ErasureInitHolds
<1>2. ErasureInvariant /\ [ErasureNext]_erasureVars => ErasureInvariant' /\ StepLosesNothing
  BY ErasureStepHolds
<1>3. ErasureInvariant => ErasureTypeOK
  BY DEF ErasureInvariant, ErasureShape
<1>4. StepLosesNothing =>
        /\ \A p \in present : p \notin present' =>
             "work" \notin refs[p] /\ (~beside' => "papers" \notin refs[p])
        /\ ~beside' => \A a \in logins : a \notin logins' =>
             a \notin acted /\ \E p \in Persons : linked[p] = a /\ p \notin present'
  BY DEF StepLosesNothing
<1> QED BY <1>1, <1>2, <1>3, <1>4, PTL DEF ErasureSpec, NothingIsLost, HistoryBlocks, LoginsAreNotLost

---------------------------------------------------------------------------
\* Students and the places they sit in.

PlaceRows == [student : Students, section : Cohorts, roll : Rolls, status : PlaceStatuses]

\* The requests a registrar may have in flight, about a student who was admitted.
Moves ==
  {NoMove} \cup
  [op : {"transfer", "promote"}, student : Students, row : PlaceRows, from : SUBSET Nat,
   as : Outcomes \cup {"TRANSFERRED"}, late : BOOLEAN]

\* A request is about a student who was admitted, and about rows of this student.
AboutOne(t) ==
  /\ standing[t.student] # "NONE"
  /\ t.row.student = t.student /\ t.row.status = "ACTIVE"
  /\ \A i \in t.from : i \in DOMAIN places /\ places[i].student = t.student

EnrolShape ==
  /\ standing \in [Students -> Standings \cup {"NONE"}]
  /\ places \in Seq(PlaceRows)
  /\ \A i \in DOMAIN places : standing[places[i].student] # "NONE"
  /\ move \in [Registrars -> Moves] /\ overtaken \in BOOLEAN
  /\ \A r \in Registrars : move[r] # NoMove => AboutOne(move[r])

\* What a request that is not late has read is still so: the rows it leaves are the
\* student's current ones, and a promotion leads up from them.
MoveKnows(t) ==
  /\ t.from \subseteq Seated(t.student)
  /\ t.from = {} => Seated(t.student) = {}
  /\ t.as = "PROMOTED" => \A i \in t.from : SessionOf[places[i].section] < SessionOf[t.row.section]

MovesKnow == \A r \in Registrars : move[r] # NoMove /\ ~move[r].late => MoveKnows(move[r])

\* The last row of a student is the one that may be current, and the only one that
\* cannot have been left by promotion.
LastRowIsTheSeat ==
  ~overtaken => \A i \in DOMAIN places :
    /\ places[i].status = "ACTIVE" =>
         \A j \in DOMAIN places : places[j].student = places[i].student => j <= i
    /\ places[i].status = "PROMOTED" =>
         \E j \in DOMAIN places : j > i /\ places[j].student = places[i].student

EnrolInvariant ==
  EnrolShape /\ MovesKnow /\ LastRowIsTheSeat /\ PromotedIntoALaterYear

---------------------------------------------------------------------------
\* A request that becomes late is otherwise the request it was.
LEMMA LateMove ==
  ASSUME NEW t \in Moves
  PROVE  /\ [t EXCEPT !.late = TRUE] \in Moves
         /\ t = NoMove => [t EXCEPT !.late = TRUE] = NoMove
         /\ t # NoMove =>
              /\ [t EXCEPT !.late = TRUE] # NoMove /\ [t EXCEPT !.late = TRUE].late
              /\ [t EXCEPT !.late = TRUE].student = t.student /\ [t EXCEPT !.late = TRUE].row = t.row
              /\ [t EXCEPT !.late = TRUE].from = t.from
<1>1. CASE t = NoMove
  <2>1. [NoMove EXCEPT !.late = TRUE] = NoMove
    BY DEF NoMove
  <2> QED BY <1>1, <2>1 DEF Moves
<1>2. CASE t # NoMove
  <2>1. t \in [op : {"transfer", "promote"}, student : Students, row : PlaceRows, from : SUBSET Nat,
               as : Outcomes \cup {"TRANSFERRED"}, late : BOOLEAN]
    BY <1>2 DEF Moves
  <2> DEFINE u == [t EXCEPT !.late = TRUE]
  <2>2. /\ u \in [op : {"transfer", "promote"}, student : Students, row : PlaceRows, from : SUBSET Nat,
                  as : Outcomes \cup {"TRANSFERRED"}, late : BOOLEAN]
        /\ u.late /\ u.student = t.student /\ u.row = t.row /\ u.op = t.op /\ u.from = t.from
    BY <2>1
  <2>3. u # NoMove
    BY <2>1, <2>2 DEF NoMove
  <2> QED BY <1>2, <2>2, <2>3 DEF Moves
<1> QED BY <1>1, <1>2

\* Every other request about the student is late, the rest are as they were.
LEMMA BehindKeeps ==
  ASSUME move \in [Registrars -> Moves], NEW s, NEW r, NEW t \in Moves
  PROVE  /\ Behind(s, r, t) \in [Registrars -> Moves]
         /\ r \in Registrars => Behind(s, r, t)[r] = t
         /\ \A q \in Registrars : q # r =>
              \/ Behind(s, r, t)[q] = move[q] /\ (move[q] # NoMove => move[q].student # s)
              \/ Behind(s, r, t)[q] = NoMove
              \/ /\ move[q] # NoMove /\ Behind(s, r, t)[q] # NoMove
                 /\ Behind(s, r, t)[q].late
                 /\ Behind(s, r, t)[q].student = move[q].student /\ Behind(s, r, t)[q].row = move[q].row
                 /\ Behind(s, r, t)[q].from = move[q].from
<1> DEFINE Marked(q) == [move[q] EXCEPT !.late = TRUE]
<1>1. \A q \in Registrars :
        /\ Marked(q) \in Moves /\ (move[q] = NoMove => Marked(q) = NoMove)
        /\ move[q] # NoMove => /\ Marked(q) # NoMove /\ Marked(q).late
                               /\ Marked(q).student = move[q].student /\ Marked(q).row = move[q].row
                               /\ Marked(q).from = move[q].from
  BY LateMove, Zenon
<1>2. Behind(s, r, t) = [q \in Registrars |-> IF q = r THEN t ELSE IF move[q].student = s THEN Marked(q) ELSE move[q]]
  BY Zenon DEF Behind
<1> HIDE DEF Marked
<1> QED BY <1>1, <1>2

---------------------------------------------------------------------------
LEMMA EnrolInitHolds == EnrolInit => EnrolInvariant
<1> SUFFICES ASSUME EnrolInit PROVE EnrolInvariant
  OBVIOUS
<1> USE DEF EnrolInit
<1>1. EnrolShape
  <2>1. NoMove \in Moves
    BY DEF Moves
  <2>2. places \in Seq(PlaceRows) /\ DOMAIN places = {}
    OBVIOUS
  <2> QED BY <2>1, <2>2 DEF EnrolShape
<1>2. MovesKnow /\ LastRowIsTheSeat /\ PromotedIntoALaterYear
  BY DEF MovesKnow, LastRowIsTheSeat, PromotedIntoALaterYear
<1> QED BY <1>1, <1>2 DEF EnrolInvariant

\* A request that has looked just now knows.
LEMMA DecidingKeeps ==
  ASSUME EnrolInvariant, NEW r \in Registrars, NEW t \in Moves, EnrolDecided(r, t), ~t.late,
         AboutOne(t), MoveKnows(t)
  PROVE  EnrolInvariant'
<1> USE DEF EnrolInvariant
<1>1. UNCHANGED <<standing, places, overtaken>> /\ move' = [move EXCEPT ![r] = t]
  BY DEF EnrolDecided
<1>2. EnrolShape'
  <2>1. \A q \in Registrars : move'[q] \in {move[q], t}
    BY <1>1 DEF EnrolShape
  <2>2. \A q \in Registrars : move'[q] # NoMove => AboutOne(move'[q])
    BY <2>1 DEF EnrolShape
  <2> QED BY <1>1, <2>2 DEF EnrolShape, AboutOne
<1>3. \A q \in Registrars : move'[q] \in {move[q], t}
  BY <1>1 DEF EnrolShape
<1>4. \A q \in Registrars : move'[q] # NoMove /\ ~move'[q].late => MoveKnows(move'[q])
  BY <1>3 DEF MovesKnow
<1>5. MovesKnow'
  BY <1>1, <1>4 DEF MovesKnow, MoveKnows, Seated
<1>6. LastRowIsTheSeat' /\ PromotedIntoALaterYear'
  BY <1>1 DEF LastRowIsTheSeat, PromotedIntoALaterYear
<1> QED BY <1>2, <1>5, <1>6

LEMMA StartsDecide ==
  ASSUME EnrolInvariant, NEW r \in Registrars, NEW s \in Students, NEW c \in Cohorts, NEW roll \in Rolls,
         StartTransfer(r, s, c, roll) \/ \E o \in Outcomes : StartPromote(r, s, c, roll, o)
  PROVE  EnrolInvariant'
<1>1. /\ Seat(s, c, roll) \in PlaceRows
      /\ Seat(s, c, roll).student = s /\ Seat(s, c, roll).status = "ACTIVE" /\ Seat(s, c, roll).section = c
  BY DEF Seat, PlaceRows, PlaceStatuses
<1>2. Seated(s) \subseteq Nat
  BY DEF Seated, EnrolInvariant, EnrolShape
<1>3. CASE StartTransfer(r, s, c, roll)
  <2>1. PICK from \in FoundSeats(s) :
          EnrolDecided(r, [op |-> "transfer", student |-> s, row |-> Seat(s, c, roll),
                      from |-> from, as |-> "TRANSFERRED", late |-> FALSE])
    BY <1>3 DEF StartTransfer
  <2> DEFINE t == [op |-> "transfer", student |-> s, row |-> Seat(s, c, roll),
                   from |-> from, as |-> "TRANSFERRED", late |-> FALSE]
  <2>2. from \subseteq Seated(s) /\ (from = {} => Seated(s) = {})
    BY <2>1 DEF FoundSeats
  <2>3. standing[s] # "NONE"
    BY <1>3 DEF StartTransfer, Enrolled, Standings
  <2>4. t \in Moves
    BY <1>1, <1>2, <2>2 DEF Moves
  <2>5. MoveKnows(t)
    BY <2>2 DEF MoveKnows
  <2>6. AboutOne(t)
    BY <1>1, <2>2, <2>3 DEF AboutOne, Seated
  <2> QED BY <2>1, <2>4, <2>5, <2>6, DecidingKeeps
<1>4. ASSUME NEW o \in Outcomes, StartPromote(r, s, c, roll, o) PROVE EnrolInvariant'
  <2>1. PICK i \in Seated(s) :
          /\ MayPromote(s, i, c)
          /\ EnrolDecided(r, [op |-> "promote", student |-> s, row |-> Seat(s, c, roll),
                         from |-> {i}, as |-> o, late |-> FALSE])
    BY <1>4 DEF StartPromote
  <2> DEFINE t == [op |-> "promote", student |-> s, row |-> Seat(s, c, roll),
                   from |-> {i}, as |-> o, late |-> FALSE]
  <2>2. standing[s] # "NONE" /\ SessionOf[places[i].section] < SessionOf[c]
    <3>1. SessionOf[c] \in Nat /\ SessionOf[places[i].section] \in Nat
      <4>1. places[i] \in PlaceRows
        BY DEF Seated, EnrolInvariant, EnrolShape
      <4> QED BY <4>1, EnrolAssumption DEF PlaceRows
    <3> QED BY <2>1, <3>1 DEF MayPromote
  <2>3. t \in Moves
    BY <1>1, <1>2, <2>1 DEF Moves
  <2>4. MoveKnows(t)
    BY <1>1, <2>1, <2>2 DEF MoveKnows
  <2>5. AboutOne(t)
    BY <1>1, <2>1, <2>2 DEF AboutOne, Seated
  <2> QED BY <2>1, <2>3, <2>4, <2>5, DecidingKeeps
<1> QED BY <1>3, <1>4

---------------------------------------------------------------------------
\* A row that is closed is a row, of the same student and section.
LEMMA ClosedRow ==
  ASSUME NEW row \in PlaceRows, NEW as \in PlaceStatuses
  PROVE  /\ [row EXCEPT !.status = as] \in PlaceRows
         /\ [row EXCEPT !.status = as].student = row.student
         /\ [row EXCEPT !.status = as].section = row.section
         /\ [row EXCEPT !.status = as].status = as
BY DEF PlaceRows

\* A function on 1..n is a sequence.
LEMMA RowsAreASequence ==
  ASSUME NEW S, NEW n \in Nat, NEW f \in [1..n -> S]
  PROVE  f \in Seq(S) /\ Len(f) = n
OBVIOUS

\* Closing rows, in place.
LEMMA ClosingKeeps ==
  ASSUME places \in Seq(PlaceRows), NEW closed, NEW as \in PlaceStatuses, NEW rows,
         rows = [i \in DOMAIN places |-> IF i \in closed THEN [places[i] EXCEPT !.status = as] ELSE places[i]]
  PROVE  /\ rows \in Seq(PlaceRows) /\ Len(rows) = Len(places) /\ DOMAIN rows = DOMAIN places
         /\ \A i \in DOMAIN places :
              /\ rows[i].student = places[i].student /\ rows[i].section = places[i].section
              /\ i \in closed => rows[i].status = as
              /\ i \notin closed => rows[i] = places[i]
<1> DEFINE Given(i) == [places[i] EXCEPT !.status = as]
<1>1. DOMAIN places = 1..Len(places) /\ Len(places) \in Nat /\ \A i \in DOMAIN places : places[i] \in PlaceRows
  OBVIOUS
<1>2. \A i \in DOMAIN places :
        /\ Given(i) \in PlaceRows /\ Given(i).status = as
        /\ Given(i).student = places[i].student /\ Given(i).section = places[i].section
  BY <1>1, ClosedRow, Zenon
<1>3. rows = [i \in DOMAIN places |-> IF i \in closed THEN Given(i) ELSE places[i]]
  BY Zenon
<1> HIDE DEF Given
<1>4. rows \in [1..Len(places) -> PlaceRows]
  BY <1>1, <1>2, <1>3
<1>5. rows \in Seq(PlaceRows) /\ Len(rows) = Len(places)
  BY <1>1, <1>4, RowsAreASequence, Zenon
<1>6. DOMAIN rows = DOMAIN places
  BY <1>3
<1>7. \A i \in DOMAIN places :
        /\ rows[i].student = places[i].student /\ rows[i].section = places[i].section
        /\ i \in closed => rows[i].status = as
        /\ i \notin closed => rows[i] = places[i]
  BY <1>2, <1>3
<1> QED BY <1>5, <1>6, <1>7

LEMMA EveryRowIsOne ==
  ASSUME NEW rows \in Seq(PlaceRows)
  PROVE  \A i \in DOMAIN rows : rows[i] \in PlaceRows /\ rows[i].student \in Students
<1> SUFFICES ASSUME NEW i \in DOMAIN rows PROVE rows[i] \in PlaceRows /\ rows[i].student \in Students
  OBVIOUS
<1>1. rows[i] \in PlaceRows
  OBVIOUS
<1> QED BY <1>1 DEF PlaceRows

\* Closing rows and adding one at the end.
LEMMA RowAfterKeeps ==
  ASSUME places \in Seq(PlaceRows), NEW closed, NEW as \in PlaceStatuses, NEW row \in PlaceRows,
         NEW rows, rows = RowAfter(closed, as, row)
  PROVE  /\ rows \in Seq(PlaceRows) /\ Len(places) \in Nat
         /\ DOMAIN places = 1..Len(places) /\ DOMAIN rows = 1..(Len(places) + 1)
         /\ rows[Len(places) + 1] = row
         /\ \A i \in DOMAIN places :
              /\ rows[i].student = places[i].student /\ rows[i].section = places[i].section
              /\ i \in closed => rows[i].status = as
              /\ i \notin closed => rows[i] = places[i]
<1> DEFINE old == [i \in DOMAIN places |-> IF i \in closed THEN [places[i] EXCEPT !.status = as] ELSE places[i]]
<1>1. RowAfter(closed, as, row) = Append(old, row)
  BY DEF RowAfter
<1>2. /\ old \in Seq(PlaceRows) /\ Len(old) = Len(places) /\ DOMAIN old = DOMAIN places
      /\ \A i \in DOMAIN places :
           /\ old[i].student = places[i].student /\ old[i].section = places[i].section
           /\ i \in closed => old[i].status = as
           /\ i \notin closed => old[i] = places[i]
  BY ClosingKeeps
<1> HIDE DEF old
<1>3. DOMAIN places = 1..Len(places) /\ Len(places) \in Nat
  OBVIOUS
<1>5. rows = Append(old, row)
  BY <1>1
<1>6. /\ rows \in Seq(PlaceRows) /\ Len(rows) = Len(places) + 1
      /\ rows[Len(places) + 1] = row /\ \A i \in 1..Len(places) : rows[i] = old[i]
  BY <1>2, <1>3, <1>5
<1>7. DOMAIN rows = 1..(Len(places) + 1)
  BY <1>3, <1>6
<1>8. \A i \in DOMAIN places :
        /\ rows[i].student = places[i].student /\ rows[i].section = places[i].section
        /\ i \in closed => rows[i].status = as
        /\ i \notin closed => rows[i] = places[i]
  BY <1>2, <1>3, <1>6
<1> QED BY <1>3, <1>6, <1>7, <1>8

---------------------------------------------------------------------------
\* Rows written about one student leave what is known about the others as it is.
LEMMA OthersStillKnow ==
  ASSUME EnrolShape, MovesKnow, NEW s, NEW r, move' = Behind(s, r, NoMove),
         places' \in Seq(PlaceRows), DOMAIN places \subseteq DOMAIN places',
         \A i \in DOMAIN places :
           /\ places'[i].student = places[i].student
           /\ places[i].student # s => places'[i] = places[i],
         \A i \in DOMAIN places' \ DOMAIN places : places'[i].student = s,
         \A p \in Students : standing[p] # "NONE" => standing'[p] # "NONE"
  PROVE  /\ move' \in [Registrars -> Moves] /\ MovesKnow'
         /\ \A q \in Registrars : move'[q] # NoMove => AboutOne(move[q])'
<1>1. NoMove \in Moves
  BY DEF Moves
<1>2. /\ move' \in [Registrars -> Moves]
      /\ \A q \in Registrars :
           \/ move'[q] = move[q] /\ (move[q] # NoMove => move[q].student # s)
           \/ move'[q] = NoMove
           \/ /\ move[q] # NoMove /\ move'[q] # NoMove /\ move'[q].late
              /\ move'[q].student = move[q].student /\ move'[q].row = move[q].row /\ move'[q].from = move[q].from
  <2>1. move \in [Registrars -> Moves]
    BY DEF EnrolShape
  <2>2. /\ Behind(s, r, NoMove) \in [Registrars -> Moves]
        /\ r \in Registrars => Behind(s, r, NoMove)[r] = NoMove
        /\ \A q \in Registrars : q # r =>
              \/ Behind(s, r, NoMove)[q] = move[q] /\ (move[q] # NoMove => move[q].student # s)
              \/ Behind(s, r, NoMove)[q] = NoMove
              \/ /\ move[q] # NoMove /\ Behind(s, r, NoMove)[q] # NoMove
                 /\ Behind(s, r, NoMove)[q].late
                 /\ Behind(s, r, NoMove)[q].student = move[q].student
                 /\ Behind(s, r, NoMove)[q].row = move[q].row /\ Behind(s, r, NoMove)[q].from = move[q].from
    BY <1>1, <2>1, BehindKeeps
  <2> QED BY <2>2, Zenon
<1>3. \A q \in Registrars : move[q] # NoMove => move[q].student \in Students /\ AboutOne(move[q])
  <2> SUFFICES ASSUME NEW q \in Registrars, move[q] # NoMove
               PROVE  move[q].student \in Students /\ AboutOne(move[q])
    OBVIOUS
  <2>1. move[q] \in Moves
    BY DEF EnrolShape
  <2> QED BY <2>1 DEF EnrolShape, Moves
<1>4. ASSUME NEW q \in Registrars, move'[q] # NoMove
      PROVE  AboutOne(move[q])'
  BY <1>2, <1>3, <1>4 DEF AboutOne
<1>5. ASSUME NEW q \in Registrars, move'[q] # NoMove, ~move'[q].late
      PROVE  MoveKnows(move[q])' /\ move'[q] = move[q]
  <2>1. PICK t : t = move[q] /\ move'[q] = t /\ t # NoMove /\ t.student # s /\ MoveKnows(t)
    BY <1>2, <1>5 DEF MovesKnow
  <2>2. \A i : i \in DOMAIN places' /\ places'[i].student = t.student
                 => i \in DOMAIN places /\ places'[i] = places[i]
    BY <2>1
  <2>3. \A i \in DOMAIN places : places[i].student = t.student => i \in DOMAIN places' /\ places'[i] = places[i]
    BY <2>1
  <2>4. Seated(t.student)' = Seated(t.student)
    BY <2>1, <2>2, <2>3 DEF Seated
  <2>5. \A i \in t.from : places'[i] = places[i]
    BY <2>1, <2>3 DEF MoveKnows, Seated
  <2>6. MoveKnows(t)'
    BY <2>1, <2>4, <2>5 DEF MoveKnows
  <2> QED BY <2>1, <2>6 DEF MoveKnows, Seated
<1>6. MovesKnow'
  BY <1>5 DEF MovesKnow, MoveKnows, Seated
<1> QED BY <1>2, <1>4, <1>6

\* What HistoryStays says of a step.
HistoryStayed ==
  ~overtaken' => \A i \in DOMAIN places : places[i].status # "ACTIVE" => places'[i] = places[i]

\* A student there was not before has no rows.
LEMMA AdmittingKeeps ==
  ASSUME EnrolInvariant, NEW s \in Students, NEW c \in Cohorts, NEW roll \in Rolls, Admit(s, c, roll)
  PROVE  EnrolInvariant' /\ HistoryStayed
<1> USE DEF EnrolInvariant
<1>1. PICK row : row = Seat(s, c, roll) /\ row \in PlaceRows /\ row.student = s /\ row.status = "ACTIVE"
  <2>1. Seat(s, c, roll) \in PlaceRows /\ Seat(s, c, roll).student = s /\ Seat(s, c, roll).status = "ACTIVE"
    BY DEF Seat, PlaceRows, PlaceStatuses
  <2> QED BY <2>1
<1>2. /\ standing[s] = "NONE" /\ standing' = [standing EXCEPT ![s] = "ACTIVE"]
      /\ places' = Append(places, row) /\ UNCHANGED <<move, overtaken>>
  BY <1>1 DEF Admit
<1>3. PICK n \in Nat : n = Len(places) /\ DOMAIN places = 1..n
  BY DEF EnrolShape
<1>4. /\ places' \in Seq(PlaceRows) /\ Len(places') = n + 1
      /\ places'[n + 1] = row /\ \A i \in 1..n : places'[i] = places[i]
  BY <1>1, <1>2, <1>3 DEF EnrolShape
<1>5. DOMAIN places' = 1..(n + 1)
  BY <1>3, <1>4
<1>6. \A i \in 1..n : places[i] \in PlaceRows /\ places[i].student \in Students /\ places[i].student # s
  BY <1>2, <1>3, EveryRowIsOne DEF EnrolShape
<1>7. \A p \in Students : standing[p] # "NONE" => standing'[p] # "NONE"
  BY <1>2 DEF EnrolShape
<1>8. \A r \in Registrars : move[r] # NoMove => move[r].student \in Students /\ move[r].student # s
  <2> SUFFICES ASSUME NEW r \in Registrars, move[r] # NoMove
               PROVE  move[r].student \in Students /\ move[r].student # s
    OBVIOUS
  <2>1. move[r] \in Moves
    BY DEF EnrolShape
  <2> QED BY <1>2, <2>1 DEF EnrolShape, AboutOne, Moves
<1>9. EnrolShape'
  <2>1. standing' \in [Students -> Standings \cup {"NONE"}]
    BY <1>2 DEF EnrolShape, Standings
  <2>2. \A i \in DOMAIN places' : standing'[places'[i].student] # "NONE"
    <3>1. \A i \in 1..n : standing'[places'[i].student] # "NONE"
      BY <1>3, <1>4, <1>6, <1>7 DEF EnrolShape
    <3>2. standing'[row.student] # "NONE"
      BY <1>1, <1>2 DEF EnrolShape
    <3> QED BY <1>3, <1>4, <1>5, <3>1, <3>2
  <2>3. \A r \in Registrars : move[r] # NoMove => AboutOne(move[r])'
    BY <1>2, <1>3, <1>4, <1>5, <1>7, <1>8 DEF EnrolShape, AboutOne
  <2> QED BY <1>2, <1>4, <2>1, <2>2, <2>3 DEF EnrolShape, AboutOne
<1>10. MovesKnow'
  <2> SUFFICES ASSUME NEW r \in Registrars, move[r] # NoMove, ~move[r].late PROVE MoveKnows(move[r])'
    BY <1>2 DEF MovesKnow
  <2>1. MoveKnows(move[r]) /\ move[r].student # s
    BY <1>8 DEF MovesKnow
  <2>2. Seated(move[r].student)' = Seated(move[r].student)
    BY <1>1, <1>2, <1>3, <1>4, <1>5, <2>1 DEF Seated
  <2>3. \A i \in move[r].from : places'[i] = places[i]
    BY <1>3, <1>4, <2>1 DEF MoveKnows, Seated
  <2> QED BY <1>2, <2>1, <2>2, <2>3 DEF MoveKnows
<1>11. ASSUME ~overtaken PROVE LastRowIsTheSeat' /\ PromotedIntoALaterYear'
  <2>1. \A i \in 1..n :
          /\ places[i].status = "ACTIVE" => \A j \in 1..n : places[j].student = places[i].student => j <= i
          /\ places[i].status = "PROMOTED" => \E j \in 1..n : j > i /\ places[j].student = places[i].student
    BY <1>3, <1>11 DEF LastRowIsTheSeat
  <2>2. LastRowIsTheSeat'
    BY <1>1, <1>3, <1>4, <1>5, <1>6, <2>1 DEF LastRowIsTheSeat
  <2>3. PromotedIntoALaterYear'
    <3> SUFFICES ASSUME NEW i \in 1..(n + 1), NEW j \in 1..(i - 1),
                        places'[i].student = places'[j].student, places'[j].status = "PROMOTED",
                        \A k \in (j + 1)..(i - 1) : places'[k].student # places'[j].student
                 PROVE  SessionOf[places'[j].section] < SessionOf[places'[i].section]
      BY <1>5 DEF PromotedIntoALaterYear
    <3>1. i \in 1..n /\ j \in 1..n
      BY <1>1, <1>3, <1>4, <1>6
    <3>2. \A k \in (j + 1)..(i - 1) : k \in 1..n /\ places'[k] = places[k]
      BY <1>3, <1>4, <3>1
    <3> QED BY <1>3, <1>4, <1>11, <3>1, <3>2 DEF PromotedIntoALaterYear
  <2> QED BY <2>2, <2>3
<1>12. LastRowIsTheSeat' /\ PromotedIntoALaterYear'
  <2>1. CASE overtaken
    BY <1>2, <2>1 DEF LastRowIsTheSeat, PromotedIntoALaterYear
  <2> QED BY <1>11, <2>1 DEF EnrolShape
<1>13. HistoryStayed
  BY <1>3, <1>4 DEF HistoryStayed
<1> QED BY <1>9, <1>10, <1>12, <1>13

\* Whoever stops being active leaves the rows that were current, in their own way.
LEMMA StandingKeeps ==
  ASSUME EnrolInvariant, NEW s \in Students, NEW status \in Standings, SetStanding(s, status)
  PROVE  EnrolInvariant' /\ HistoryStayed
<1> USE DEF EnrolInvariant
<1> DEFINE closed == IF status = "ACTIVE" THEN {} ELSE Seated(s)
<1>1. /\ standing' = [standing EXCEPT ![s] = status] /\ UNCHANGED overtaken
      /\ move' = Behind(s, "none", NoMove)
  BY DEF SetStanding
<1>2. PICK as \in PlaceStatuses : as = ClosedAs(status) /\ as \notin {"ACTIVE", "PROMOTED"}
  BY DEF ClosedAs, PlaceStatuses, Outcomes
<1>3. places' = [i \in DOMAIN places |-> IF i \in closed THEN [places[i] EXCEPT !.status = as] ELSE places[i]]
  BY <1>2, Zenon DEF SetStanding
<1>4. closed \subseteq Seated(s)
  OBVIOUS
<1> HIDE DEF closed
<1>5. /\ places' \in Seq(PlaceRows) /\ DOMAIN places' = DOMAIN places
      /\ \A i \in DOMAIN places :
           /\ places'[i].student = places[i].student /\ places'[i].section = places[i].section
           /\ i \in closed => places'[i].status = as
           /\ i \notin closed => places'[i] = places[i]
  <2>1. places \in Seq(PlaceRows)
    BY DEF EnrolShape
  <2> QED BY <1>2, <1>3, <2>1, ClosingKeeps
<1>6. \A i \in closed : i \in DOMAIN places /\ places[i].student = s /\ places[i].status = "ACTIVE"
  BY <1>4 DEF Seated
<1>7. \A p \in Students : standing[p] # "NONE" => standing'[p] # "NONE"
  BY <1>1 DEF EnrolShape, Standings
<1>8. /\ move' \in [Registrars -> Moves] /\ MovesKnow'
      /\ \A q \in Registrars : move'[q] # NoMove => AboutOne(move[q])'
  BY <1>1, <1>5, <1>6, <1>7, OthersStillKnow
<1>9. EnrolShape'
  <2>1. standing' \in [Students -> Standings \cup {"NONE"}]
    BY <1>1 DEF EnrolShape
  <2>2. \A i \in DOMAIN places' : standing'[places'[i].student] # "NONE"
    <3>1. \A i \in DOMAIN places : places[i].student \in Students /\ standing[places[i].student] # "NONE"
      BY EveryRowIsOne DEF EnrolShape
    <3> QED BY <1>5, <1>7, <3>1
  <2> QED BY <1>1, <1>5, <1>8, <2>1, <2>2 DEF EnrolShape, AboutOne
<1>10. PICK n \in Nat : DOMAIN places = 1..n
  BY DEF EnrolShape
<1>11. \A i \in DOMAIN places :
         /\ places'[i].status = "ACTIVE" => places[i].status = "ACTIVE"
         /\ places'[i].status = "PROMOTED" => places[i].status = "PROMOTED"
  BY <1>2, <1>5
<1>12. LastRowIsTheSeat'
  <2> SUFFICES ASSUME ~overtaken, NEW i \in DOMAIN places
               PROVE  /\ places'[i].status = "ACTIVE" =>
                           \A j \in DOMAIN places : places'[j].student = places'[i].student => j <= i
                      /\ places'[i].status = "PROMOTED" =>
                           \E j \in DOMAIN places : j > i /\ places'[j].student = places'[i].student
    BY <1>1, <1>5 DEF LastRowIsTheSeat
  <2>1. /\ places[i].status = "ACTIVE" => \A j \in DOMAIN places : places[j].student = places[i].student => j <= i
        /\ places[i].status = "PROMOTED" => \E j \in DOMAIN places : j > i /\ places[j].student = places[i].student
    BY DEF LastRowIsTheSeat
  <2>2. \A j \in DOMAIN places : places'[j].student = places[j].student
    BY <1>5
  <2>3. ASSUME places'[i].status = "ACTIVE", NEW j \in DOMAIN places, places'[j].student = places'[i].student
        PROVE  j <= i
    <3>1. places[i].status = "ACTIVE"
      BY <1>11, <2>3
    <3> QED BY <2>1, <2>2, <2>3, <3>1
  <2>4. ASSUME places'[i].status = "PROMOTED"
        PROVE  \E j \in DOMAIN places : j > i /\ places'[j].student = places'[i].student
    <3>1. places[i].status = "PROMOTED"
      BY <1>11, <2>4
    <3> QED BY <2>1, <2>2, <3>1
  <2> QED BY <2>3, <2>4
<1>13. PromotedIntoALaterYear'
  <2> SUFFICES ASSUME ~overtaken, NEW i \in 1..n, NEW j \in 1..(i - 1),
                      places'[i].student = places'[j].student, places'[j].status = "PROMOTED",
                      \A k \in (j + 1)..(i - 1) : places'[k].student # places'[j].student
               PROVE  SessionOf[places'[j].section] < SessionOf[places'[i].section]
    BY <1>1, <1>5, <1>10 DEF PromotedIntoALaterYear
  <2>1. j \in 1..n /\ \A k \in (j + 1)..(i - 1) : k \in 1..n
    BY <1>10
  <2>2. places[i].student = places[j].student /\ places[j].status = "PROMOTED"
    BY <1>5, <1>10, <1>11, <2>1
  <2>3. \A k \in (j + 1)..(i - 1) : places[k].student # places[j].student
    BY <1>5, <1>10, <2>1
  <2>4. SessionOf[places[j].section] < SessionOf[places[i].section]
    BY <1>10, <2>1, <2>2, <2>3 DEF PromotedIntoALaterYear
  <2> QED BY <1>5, <1>10, <2>1, <2>4
<1>14. HistoryStayed
  BY <1>5, <1>6 DEF HistoryStayed
<1> QED BY <1>8, <1>9, <1>12, <1>13, <1>14

\* The transaction of a transfer or a promotion, or its refusal.
LEMMA WritingMoveKeeps ==
  ASSUME EnrolInvariant, NEW r \in Registrars, WriteMove(r)
  PROVE  EnrolInvariant' /\ HistoryStayed
<1> USE DEF EnrolInvariant
<1>1. PICK t : t = move[r]
  OBVIOUS
<1> DEFINE s == t.student
<1>2. /\ t # NoMove /\ t \in Moves /\ s \in Students /\ standing[s] # "NONE"
      /\ t.row \in PlaceRows /\ t.row.student = s /\ t.row.status = "ACTIVE"
      /\ t.as \in PlaceStatuses /\ t.as # "ACTIVE" /\ t.late \in BOOLEAN
  <2>1. t \in Moves /\ t # NoMove
    BY <1>1 DEF WriteMove, NoMove, EnrolShape
  <2>2. t \in [op : {"transfer", "promote"}, student : Students, row : PlaceRows, from : SUBSET Nat,
               as : Outcomes \cup {"TRANSFERRED"}, late : BOOLEAN]
    BY <2>1 DEF Moves
  <2>3. AboutOne(t)
    BY <1>1, <2>1 DEF EnrolShape
  <2> QED BY <2>1, <2>2, <2>3 DEF AboutOne, PlaceStatuses, Outcomes
<1>3. /\ move' = Behind(s, r, NoMove) /\ overtaken' = (overtaken \/ t.late)
      /\ ~t.late => MoveKnows(t)
  BY <1>1, <1>2 DEF WriteMove, Moved, MovesKnow
<1>4. overtaken' \in BOOLEAN /\ (~overtaken' => ~overtaken /\ ~t.late)
  BY <1>2, <1>3 DEF EnrolShape
<1>5. CASE UNCHANGED <<places, standing>>
  <2>1. /\ move' \in [Registrars -> Moves] /\ MovesKnow'
        /\ \A q \in Registrars : move'[q] # NoMove => AboutOne(move[q])'
    <3>1. places' = places /\ standing' = standing /\ places \in Seq(PlaceRows)
      BY <1>5 DEF EnrolShape
    <3>2. \A i \in DOMAIN places' \ DOMAIN places : places'[i].student = s
      BY <3>1
    <3> QED BY <1>3, <3>1, <3>2, OthersStillKnow
  <2>2. EnrolShape'
    BY <1>4, <1>5, <2>1 DEF EnrolShape, AboutOne
  <2>3. LastRowIsTheSeat' /\ PromotedIntoALaterYear' /\ HistoryStayed
    BY <1>4, <1>5 DEF LastRowIsTheSeat, PromotedIntoALaterYear, HistoryStayed
  <2> QED BY <2>1, <2>2, <2>3
<1>6. CASE /\ places' = RowAfter(t.from, t.as, t.row)
           /\ standing' = [standing EXCEPT ![s] = IF t.as = "COMPLETED" THEN "GRADUATED" ELSE @]
  <2>1. PICK n \in Nat :
          /\ places' \in Seq(PlaceRows) /\ DOMAIN places' = 1..(n + 1) /\ DOMAIN places = 1..n
          /\ places'[n + 1] = t.row
          /\ \A i \in 1..n :
               /\ places'[i].student = places[i].student /\ places'[i].section = places[i].section
               /\ i \in t.from => places'[i].status = t.as
               /\ i \notin t.from => places'[i] = places[i]
    <3>1. places \in Seq(PlaceRows)
      BY DEF EnrolShape
    <3>2. t.row \in PlaceRows /\ t.as \in PlaceStatuses
      BY <1>2
    <3>3. PICK rows : rows = RowAfter(t.from, t.as, t.row) /\ places' = rows
      BY <1>6
    <3>4. /\ rows \in Seq(PlaceRows) /\ Len(places) \in Nat
          /\ DOMAIN places = 1..Len(places) /\ DOMAIN rows = 1..(Len(places) + 1)
          /\ rows[Len(places) + 1] = t.row
          /\ \A i \in DOMAIN places :
               /\ rows[i].student = places[i].student /\ rows[i].section = places[i].section
               /\ i \in t.from => rows[i].status = t.as
               /\ i \notin t.from => rows[i] = places[i]
      BY <3>1, <3>2, <3>3, RowAfterKeeps
    <3> QED BY <3>3, <3>4
  <2>2. /\ \A i \in t.from : i \in 1..n /\ places[i].student = s
        /\ ~t.late => \A i \in t.from : places[i].status = "ACTIVE"
    BY <1>1, <1>2, <1>3, <2>1 DEF MoveKnows, Seated, EnrolShape, AboutOne
  <2>3. \A p \in Students : standing[p] # "NONE" => standing'[p] # "NONE"
    BY <1>2, <1>6 DEF EnrolShape
  <2>4. /\ move' \in [Registrars -> Moves] /\ MovesKnow'
        /\ \A q \in Registrars : move'[q] # NoMove => AboutOne(move[q])'
    <3>1. \A i \in DOMAIN places' \ DOMAIN places : places'[i].student = s
      BY <1>2, <2>1
    <3>2. \A i \in DOMAIN places : /\ places'[i].student = places[i].student
                                   /\ places[i].student # s => places'[i] = places[i]
      BY <2>1, <2>2
    <3>3. DOMAIN places \subseteq DOMAIN places'
      BY <2>1
    <3> QED BY <1>3, <2>1, <2>3, <3>1, <3>2, <3>3, OthersStillKnow
  <2>5. EnrolShape'
    <3>1. standing' \in [Students -> Standings \cup {"NONE"}]
      BY <1>2, <1>6 DEF EnrolShape, Standings
    <3>2. \A i \in DOMAIN places' : standing'[places'[i].student] # "NONE"
      <4>1. \A i \in 1..n : places[i].student \in Students /\ standing[places[i].student] # "NONE"
        BY <2>1, EveryRowIsOne DEF EnrolShape
      <4> QED BY <1>2, <2>1, <2>3, <4>1
    <3> QED BY <1>4, <2>1, <2>4, <3>1, <3>2 DEF EnrolShape, AboutOne
  <2>6. HistoryStayed
    BY <1>4, <2>1, <2>2 DEF HistoryStayed
  <2>7. CASE overtaken'
    BY <2>4, <2>5, <2>6, <2>7 DEF LastRowIsTheSeat, PromotedIntoALaterYear
  <2>8. CASE ~overtaken'
    <3>1. /\ MoveKnows(t) /\ ~overtaken
          /\ \A i \in 1..n :
               /\ places[i].status = "ACTIVE" => \A j \in 1..n : places[j].student = places[i].student => j <= i
               /\ places[i].status = "PROMOTED" => \E j \in 1..n : j > i /\ places[j].student = places[i].student
      BY <1>3, <1>4, <2>1, <2>8 DEF LastRowIsTheSeat
    \* The rows it leaves are the student's last one, so nobody else's come after it.
    <3>2. \A i \in 1..n : places[i].student = s /\ places[i].status = "ACTIVE" => i \in t.from
      <4>1. \A i, j \in 1..n : places[i].student = s /\ places[i].status = "ACTIVE"
                             /\ places[j].student = s /\ places[j].status = "ACTIVE" => i = j
        BY <3>1
      <4> QED BY <1>4, <2>1, <2>2, <2>8, <3>1, <4>1 DEF MoveKnows, Seated
    <3>3. \A i \in t.from, j \in 1..n : places[j].student = s => j <= i
      BY <1>4, <2>2, <2>8, <3>1
    <3>4. \A i \in 1..n : places'[i].status = "ACTIVE" =>
            places[i].status = "ACTIVE" /\ places[i].student # s
      BY <1>2, <2>1, <3>2
    <3>5. LastRowIsTheSeat'
      <4> SUFFICES ASSUME NEW i \in 1..(n + 1)
                   PROVE  /\ places'[i].status = "ACTIVE" =>
                               \A j \in 1..(n + 1) : places'[j].student = places'[i].student => j <= i
                          /\ places'[i].status = "PROMOTED" =>
                               \E j \in 1..(n + 1) : j > i /\ places'[j].student = places'[i].student
        BY <2>1 DEF LastRowIsTheSeat
      <4>1. CASE i = n + 1
        BY <1>2, <2>1, <4>1
      <4>2. CASE i \in 1..n /\ i \in t.from
        BY <1>2, <2>1, <2>2, <4>2
      <4>3. CASE i \in 1..n /\ i \notin t.from
        <5>1. places'[i] = places[i]
          BY <2>1, <4>3
        <5>2. ASSUME places[i].status = "ACTIVE", NEW j \in 1..(n + 1), places'[j].student = places'[i].student
              PROVE  j <= i
          <6>1. places[i].student # s
            BY <3>2, <4>3, <5>2
          <6> QED BY <1>2, <2>1, <3>1, <4>3, <5>1, <5>2, <6>1
        <5>3. ASSUME places[i].status = "PROMOTED"
              PROVE  \E j \in 1..(n + 1) : j > i /\ places'[j].student = places'[i].student
          BY <2>1, <3>1, <4>3, <5>1, <5>3
        <5> QED BY <5>1, <5>2, <5>3
      <4> QED BY <4>1, <4>2, <4>3
    <3>6. PromotedIntoALaterYear'
      <4> SUFFICES ASSUME NEW i \in 1..(n + 1), NEW j \in 1..(i - 1),
                          places'[i].student = places'[j].student, places'[j].status = "PROMOTED",
                          \A k \in (j + 1)..(i - 1) : places'[k].student # places'[j].student
                   PROVE  SessionOf[places'[j].section] < SessionOf[places'[i].section]
        BY <2>1 DEF PromotedIntoALaterYear
      <4>1. j \in 1..n /\ \A k \in (j + 1)..(i - 1) : k \in 1..n /\ places[k].student # places[j].student
        BY <2>1
      <4>2. CASE j \in t.from
        <5>1. i = n + 1 /\ t.as = "PROMOTED"
          BY <2>1, <2>2, <3>3, <4>1, <4>2
        <5> QED BY <2>1, <3>1, <4>1, <4>2, <5>1 DEF MoveKnows
      <4>3. CASE j \notin t.from
        <5>1. places'[j] = places[j] /\ places[j].status = "PROMOTED"
          BY <2>1, <4>1, <4>3
        <5>2. i \in 1..n
          <6>1. PICK k \in 1..n : k > j /\ places[k].student = places[j].student
            BY <3>1, <4>1, <5>1
          <6> QED BY <4>1, <6>1
        <5>3. places[i].student = places[j].student /\ j \in 1..(i - 1)
          BY <2>1, <4>1, <5>1, <5>2
        <5>4. SessionOf[places[j].section] < SessionOf[places[i].section]
          BY <2>1, <3>1, <4>1, <5>1, <5>2, <5>3 DEF PromotedIntoALaterYear
        <5> QED BY <2>1, <4>1, <5>2, <5>4
      <4> QED BY <4>2, <4>3
    <3> QED BY <2>4, <2>5, <2>6, <3>5, <3>6
  <2> QED BY <2>7, <2>8
<1>7. QED BY <1>1, <1>5, <1>6 DEF WriteMove, LeavesRow

LEMMA EveryEnrolStepKeeps ==
  EnrolInvariant /\ [EnrolNext]_enrolVars => EnrolInvariant' /\ HistoryStayed
<1> SUFFICES ASSUME EnrolInvariant, [EnrolNext]_enrolVars PROVE EnrolInvariant' /\ HistoryStayed
  OBVIOUS
<1>1. CASE UNCHANGED enrolVars
  <2>1. UNCHANGED <<standing, places, move, overtaken>>
    BY <1>1 DEF enrolVars
  <2>2. EnrolShape' /\ MovesKnow'
    BY <2>1 DEF EnrolInvariant, EnrolShape, AboutOne, MovesKnow, MoveKnows, Seated
  <2>3. LastRowIsTheSeat' /\ PromotedIntoALaterYear' /\ HistoryStayed
    BY <2>1 DEF EnrolInvariant, LastRowIsTheSeat, PromotedIntoALaterYear, HistoryStayed
  <2> QED BY <2>2, <2>3 DEF EnrolInvariant
<1>2. ASSUME NEW r \in Registrars, NEW s \in Students, NEW c \in Cohorts, NEW roll \in Rolls,
             StartTransfer(r, s, c, roll) \/ \E o \in Outcomes : StartPromote(r, s, c, roll, o)
      PROVE  EnrolInvariant' /\ HistoryStayed
  <2>1. UNCHANGED places
    BY <1>2 DEF StartTransfer, StartPromote, EnrolDecided
  <2> QED BY <1>2, <2>1, StartsDecide DEF HistoryStayed
<1>3. CASE EnrolNext
  BY <1>2, <1>3, AdmittingKeeps, StandingKeeps, WritingMoveKeeps DEF EnrolNext
<1> QED BY <1>1, <1>3

LEMMA EnrolInvariantSays == EnrolInvariant => EnrolTypeOK /\ SitsInOnePlace /\ PromotedIntoALaterYear
<1> SUFFICES ASSUME EnrolInvariant PROVE EnrolTypeOK /\ SitsInOnePlace
  BY DEF EnrolInvariant
<1>1. EnrolTypeOK
  <2>1. \A i \in DOMAIN places : places[i] \in PlaceRows /\ standing[places[i].student] \in Standings
    BY EveryRowIsOne DEF EnrolInvariant, EnrolShape
  <2> QED BY <2>1, EveryRowIsOne DEF EnrolTypeOK, EnrolInvariant, EnrolShape, PlaceRows, Enrolled
<1>2. SitsInOnePlace
  <2>1. DOMAIN places \subseteq Nat
    BY DEF EnrolInvariant, EnrolShape
  <2> QED BY <2>1 DEF SitsInOnePlace, Seated, EnrolInvariant, LastRowIsTheSeat
<1> QED BY <1>1, <1>2

\* For any students, sections, years and requests: a student sits in one place, went
\* there by promotion only into a later year, and how a year ended stays as it was
\* written, unless a request wrote on what had changed since it looked.
THEOREM PlacesAreKeptHolds == EnrolSpec => PlacesAreKept
<1>1. EnrolInvariant /\ [EnrolNext]_enrolVars => [HistoryStayed]_enrolVars
  BY EveryEnrolStepKeeps
<1> QED BY <1>1, EnrolInitHolds, EveryEnrolStepKeeps, EnrolInvariantSays, PTL
      DEF EnrolSpec, PlacesAreKept, HistoryStays, HistoryStayed

---------------------------------------------------------------------------
\* Applications.

Rows == [by : Applicants, status : ComplaintStatuses, awaiting : BOOLEAN, closedBy : Sides \cup {"nobody"}]

Letters ==
  [at : {"idle", "insert", "update", "tell"}, op : {"none", "submit", "reply", "status", "withdraw"},
   c : Applications \cup {NoApplication}, side : Sides, by : Applicants \cup {"nobody"},
   to : ComplaintStatuses, note : BOOLEAN]

Pending(t) == t.at \in {"insert", "update"}

\* What a request of each kind is about to write.
LetterSays(t) ==
  /\ Pending(t) => t.op # "none" /\ (t.op = "submit" => t.at = "update" /\ ~t.note /\ t.by \in Applicants)
  /\ t.op = "reply" => t.to \in OpenStatuses /\ t.note
  /\ t.op = "status" => t.side = "office" /\ t.to \in {"IN_REVIEW", "RESOLVED"}
  /\ t.op = "withdraw" => t.side = "student" /\ t.to = "WITHDRAWN"
  /\ t.at = "idle" => t.c = NoApplication
  /\ t.op = "submit" /\ Pending(t) => t.c = NoApplication

LettersName ==
  \A r \in Correspondents :
    LET t == letter[r]
    IN  /\ LetterSays(t)
        /\ t.at = "tell" \/ (Pending(t) /\ t.op # "submit") => t.c \in DOMAIN complaints

OfficeShape ==
  /\ DOMAIN complaints \subseteq Applications /\ complaints \in [DOMAIN complaints -> Rows]
  /\ exchange \in [DOMAIN complaints -> Seq(Sides)]
  /\ letter \in [Correspondents -> Letters]
  /\ notified \subseteq (DOMAIN complaints) \X Sides /\ crossed \subseteq DOMAIN complaints

\* The decision of a request fits an application of this status.
Decided(t, status) ==
  /\ t.op \in {"reply", "withdraw"} => status \in OpenStatuses
  /\ t.op = "status" => t.to \in OfficeTransitions(status)

LastIs(c, side) == exchange[c] # <<>> /\ exchange[c][Len(exchange[c])] = side

\* What a request on an application without overlaps may rely on.
LettersKnow ==
  \A r \in Correspondents :
    LET t == letter[r]
    IN  Pending(t) /\ t.c \in DOMAIN complaints \ crossed =>
          /\ Decided(t, complaints[t.c].status)
          /\ \A q \in Correspondents : Pending(letter[q]) /\ letter[q].c = t.c => q = r
          /\ t.at = "update" /\ t.note => LastIs(t.c, t.side)

\* Whose move it is, but for the request that has just added its message.
DeskInOrder ==
  \A c \in DOMAIN complaints \ crossed :
    /\ complaints[c].awaiting => complaints[c].status \in OpenStatuses
    /\ (\A r \in Correspondents : ~(letter[r].at = "update" /\ letter[r].note /\ letter[r].c = c)) =>
         (complaints[c].status \in OpenStatuses /\ LastIs(c, "student") => complaints[c].awaiting)

OfficeInvariant == OfficeShape /\ LettersName /\ LettersKnow /\ DeskInOrder /\ ClosedByWhom

---------------------------------------------------------------------------
\* What the two kinds of update do to a row.
LEMMA ClosingRow ==
  ASSUME NEW row \in Rows, NEW t \in Letters
  PROVE  LET x == Closing(row, t)
         IN  /\ x \in Rows /\ x.status = t.to
             /\ x.awaiting <=> t.to \in {"SUBMITTED", "IN_REVIEW"}
             /\ x.closedBy = IF t.to \in OpenStatuses THEN "nobody" ELSE t.side
<1> DEFINE aw == AwaitingOfficeAfter(IF t.to = "IN_REVIEW" THEN "REOPENED" ELSE t.to)
           cb == IF t.to \in OpenStatuses THEN "nobody" ELSE t.side
<1>1. aw \in BOOLEAN /\ (aw <=> t.to \in {"SUBMITTED", "IN_REVIEW"})
  BY DEF AwaitingOfficeAfter, Letters, ComplaintStatuses, OpenStatuses
<1>2. cb \in Sides \cup {"nobody"} /\ t.to \in ComplaintStatuses
  BY DEF Letters
<1>3. Closing(row, t) = [row EXCEPT !.status = t.to, !.awaiting = aw, !.closedBy = cb]
  BY DEF Closing
<1>4. cb = IF t.to \in OpenStatuses THEN "nobody" ELSE t.side
  OBVIOUS
<1> HIDE DEF aw, cb
<1>5. Closing(row, t) = [by |-> row.by, status |-> t.to, awaiting |-> aw, closedBy |-> cb]
  BY <1>3 DEF Rows
<1> QED BY <1>1, <1>2, <1>4, <1>5 DEF Rows

LEMMA RepliedRow ==
  ASSUME NEW row \in Rows, NEW t \in Letters
  PROVE  LET x == Replied(row, t)
         IN  /\ x \in Rows /\ x.status = t.to /\ x.closedBy = row.closedBy
             /\ x.awaiting <=> t.side = "student"
<1> DEFINE aw == AwaitingOfficeAfter(IF t.side = "office" THEN "OFFICE_REPLIED" ELSE "STUDENT_REPLIED")
<1>1. aw \in BOOLEAN /\ (aw <=> t.side = "student")
  BY DEF AwaitingOfficeAfter, Letters, Sides
<1>2. t.to \in ComplaintStatuses
  BY DEF Letters
<1>3. Replied(row, t) = [row EXCEPT !.status = t.to, !.awaiting = aw]
  BY DEF Replied
<1> HIDE DEF aw
<1>4. Replied(row, t) = [by |-> row.by, status |-> t.to, awaiting |-> aw, closedBy |-> row.closedBy]
  BY <1>3 DEF Rows
<1> QED BY <1>1, <1>2, <1>4 DEF Rows

\* A request that goes on is the same request.
LEMMA LetterGoesOn ==
  ASSUME NEW t \in Letters, NEW at \in {"update", "tell"}
  PROVE  LET u == [t EXCEPT !.at = at]
         IN  /\ u \in Letters /\ u.at = at /\ u.op = t.op /\ u.c = t.c /\ u.side = t.side /\ u.by = t.by
             /\ u.to = t.to /\ u.note = t.note
BY DEF Letters

LEMMA NoLetterSays ==
  /\ NoLetter \in Letters /\ LetterSays(NoLetter) /\ ~Pending(NoLetter)
  /\ NoLetter.at = "idle" /\ ~(NoLetter.at = "tell") /\ ~(NoLetter.at = "update")
BY DEF NoLetter, Letters, LetterSays, Pending, ComplaintStatuses, OpenStatuses, Sides

\* Outside what the requests in flight are, nothing has to be looked at.
LEMMA ClosedStays ==
  ASSUME ClosedByWhom, UNCHANGED complaints, crossed \subseteq crossed'
  PROVE  ClosedByWhom'
BY DEF ClosedByWhom

---------------------------------------------------------------------------
\* A request begins, on nothing or on an application whose row it fits.
LEMMA AllowedKeeps ==
  ASSUME OfficeInvariant, NEW r \in Correspondents, NEW t \in Letters, Allowed(r, t),
         LetterSays(t), Pending(t), t.at = "insert" \/ ~t.note,
         t.c = NoApplication \/ t.c \in DOMAIN complaints,
         t.op # "submit" => t.c \in DOMAIN complaints /\ Decided(t, complaints[t.c].status)
  PROVE  OfficeInvariant'
<1> USE DEF OfficeInvariant
<1>1. /\ letter[r].at = "idle" /\ letter' = [letter EXCEPT ![r] = t]
      /\ crossed \subseteq crossed' /\ crossed' \subseteq crossed \cup {t.c}
      /\ t.c # NoApplication /\ AboutIt(t.c) # {} => t.c \in crossed'
      /\ UNCHANGED <<complaints, exchange, notified>>
  BY DEF Allowed
<1>2. letter'[r] = t /\ \A q \in Correspondents \ {r} : letter'[q] = letter[q]
  BY <1>1 DEF OfficeShape
<1>3. crossed' \subseteq DOMAIN complaints
  <2>1. CASE t.c \in DOMAIN complaints
    BY <1>1, <2>1 DEF OfficeShape
  <2>2. CASE t.c = NoApplication
    BY <1>1, <2>2 DEF OfficeShape, Allowed
  <2> QED BY <2>1, <2>2
<1>4. OfficeShape'
  BY <1>1, <1>3 DEF OfficeShape
<1>5. LettersName'
  BY <1>1, <1>2 DEF LettersName, Pending
<1>6. LettersKnow'
  <2> SUFFICES ASSUME NEW s \in Correspondents, Pending(letter'[s]), letter'[s].c \in DOMAIN complaints \ crossed'
               PROVE  /\ Decided(letter'[s], complaints[letter'[s].c].status)
                      /\ \A q \in Correspondents :
                           Pending(letter'[q]) /\ letter'[q].c = letter'[s].c => q = s
                      /\ letter'[s].at = "update" /\ letter'[s].note => LastIs(letter'[s].c, letter'[s].side)
    BY <1>1 DEF LettersKnow, LastIs
  <2>0. NoApplication \notin DOMAIN complaints
    BY ApplicationsAssumption DEF OfficeShape
  <2>1. CASE s = r
    <3>1. t.c # NoApplication /\ AboutIt(t.c) = {}
      BY <1>1, <1>2, <2>0, <2>1
    <3>2. \A q \in Correspondents \ {r} : ~(Pending(letter[q]) /\ letter[q].c = t.c)
      BY <3>1 DEF AboutIt, Pending
    <3>3. t.op # "submit"
      BY <1>2, <2>1, <3>1 DEF LetterSays
    <3> QED BY <1>2, <2>1, <3>2, <3>3
  <2>2. CASE s # r
    <3>1. letter'[s] = letter[s] /\ letter[s].c \notin crossed
      BY <1>1, <1>2, <2>2
    <3>2. t.c # letter[s].c
      <4>1. SUFFICES ASSUME t.c = letter[s].c PROVE FALSE
        OBVIOUS
      <4>2. s \in AboutIt(t.c)
        BY <3>1, <4>1 DEF AboutIt, Pending
      <4> QED BY <1>1, <2>0, <3>1, <4>1, <4>2
    <3> QED BY <1>2, <3>1, <3>2 DEF LettersKnow
  <2> QED BY <2>1, <2>2
<1>7. DeskInOrder'
  <2> SUFFICES ASSUME NEW c \in DOMAIN complaints \ crossed'
               PROVE  /\ complaints[c].awaiting => complaints[c].status \in OpenStatuses
                      /\ (\A s \in Correspondents : ~(letter'[s].at = "update" /\ letter'[s].note /\ letter'[s].c = c))
                           => (complaints[c].status \in OpenStatuses /\ LastIs(c, "student") => complaints[c].awaiting)
    BY <1>1 DEF DeskInOrder, LastIs
  <2>1. c \in DOMAIN complaints \ crossed
    BY <1>1
  <2>2. ~(letter[r].at = "update")
    BY <1>1
  <2>3. ASSUME \A s \in Correspondents : ~(letter'[s].at = "update" /\ letter'[s].note /\ letter'[s].c = c)
        PROVE  \A s \in Correspondents : ~(letter[s].at = "update" /\ letter[s].note /\ letter[s].c = c)
    BY <1>2, <2>2, <2>3
  <2> QED BY <2>1, <2>3 DEF DeskInOrder
<1>8. ClosedByWhom'
  BY <1>1, ClosedStays
<1> QED BY <1>4, <1>5, <1>6, <1>7, <1>8

\* The four handlers, as far as their decision.
LEMMA StartKeeps ==
  ASSUME OfficeInvariant, NEW r \in Correspondents,
         \/ \E s \in Applicants : StartComplaint(r, s)
         \/ \E c \in DOMAIN complaints :
              \/ \E side \in Sides : StartReply(r, c, side)
              \/ \E to \in ComplaintStatuses, note \in BOOLEAN : StartComplaintStatus(r, c, to, note)
              \/ StartComplaintWithdrawal(r, c)
  PROVE  OfficeInvariant' /\ UNCHANGED <<complaints, exchange>>
<1>0. /\ DOMAIN complaints \subseteq Applications
      /\ \A c \in DOMAIN complaints : complaints[c].status \in ComplaintStatuses
  BY DEF OfficeInvariant, OfficeShape, Rows
<1>1. ASSUME NEW s \in Applicants, StartComplaint(r, s) PROVE OfficeInvariant'
  <2> DEFINE t == [NoLetter EXCEPT !.at = "update", !.op = "submit", !.by = s]
  <2>1. Allowed(r, t)
    BY <1>1 DEF StartComplaint
  <2>2. /\ t \in Letters /\ t.at = "update" /\ t.op = "submit" /\ ~t.note /\ t.c = NoApplication
        /\ LetterSays(t) /\ Pending(t)
    BY DEF NoLetter, Letters, LetterSays, Pending, ComplaintStatuses, OpenStatuses, Sides
  <2> HIDE DEF t
  <2> QED BY <2>1, <2>2, AllowedKeeps
<1>2. ASSUME NEW c \in DOMAIN complaints, NEW side \in Sides, StartReply(r, c, side) PROVE OfficeInvariant'
  <2> DEFINE to == IF side = "office" THEN StatusAfterOfficeReply(complaints[c].status) ELSE complaints[c].status
             t == [NoLetter EXCEPT !.at = "insert", !.op = "reply", !.c = c, !.side = side, !.note = TRUE, !.to = to]
  <2>1. complaints[c].status \in OpenStatuses /\ to \in OpenStatuses
    BY <1>2 DEF StartReply, StatusAfterOfficeReply, OpenStatuses
  <2>2. Allowed(r, t)
    BY <1>2 DEF StartReply
  <2> HIDE DEF to
  <2>3. /\ t \in Letters /\ t.at = "insert" /\ t.op = "reply" /\ t.c = c
        /\ LetterSays(t) /\ Pending(t) /\ Decided(t, complaints[c].status)
    BY <1>0, <2>1 DEF NoLetter, Letters, LetterSays, Pending, Decided, ComplaintStatuses
  <2> HIDE DEF t
  <2> QED BY <2>2, <2>3, AllowedKeeps
<1>3. ASSUME NEW c \in DOMAIN complaints, NEW to \in ComplaintStatuses, NEW note \in BOOLEAN,
             StartComplaintStatus(r, c, to, note)
      PROVE  OfficeInvariant'
  <2> DEFINE t == [NoLetter EXCEPT !.at = "insert", !.op = "status", !.c = c, !.side = "office",
                                   !.note = note, !.to = to]
  <2>1. to \in OfficeTransitions(complaints[c].status) /\ Allowed(r, t)
    BY <1>3 DEF StartComplaintStatus
  <2>2. to \in {"IN_REVIEW", "RESOLVED"}
    <3>1. complaints[c].status \in {"SUBMITTED", "IN_REVIEW", "RESOLVED", "WITHDRAWN"}
      BY <1>0 DEF ComplaintStatuses, OpenStatuses
    <3> QED BY <2>1, <3>1 DEF OfficeTransitions
  <2>3. /\ t \in Letters /\ t.at = "insert" /\ t.op = "status" /\ t.c = c
        /\ LetterSays(t) /\ Pending(t) /\ Decided(t, complaints[c].status)
    BY <1>0, <2>1, <2>2 DEF NoLetter, Letters, LetterSays, Pending, Decided, Sides
  <2> HIDE DEF t
  <2> QED BY <2>1, <2>3, AllowedKeeps
<1>4. ASSUME NEW c \in DOMAIN complaints, StartComplaintWithdrawal(r, c) PROVE OfficeInvariant'
  <2> DEFINE t == [NoLetter EXCEPT !.at = "insert", !.op = "withdraw", !.c = c, !.to = "WITHDRAWN"]
  <2>1. complaints[c].status \in OpenStatuses /\ Allowed(r, t)
    BY <1>4 DEF StartComplaintWithdrawal
  <2>2. /\ t \in Letters /\ t.at = "insert" /\ t.op = "withdraw" /\ t.c = c
        /\ LetterSays(t) /\ Pending(t) /\ Decided(t, complaints[c].status)
    BY <1>0, <2>1 DEF NoLetter, Letters, LetterSays, Pending, Decided, ComplaintStatuses, Sides
  <2> HIDE DEF t
  <2> QED BY <2>1, <2>2, AllowedKeeps
<1>5. UNCHANGED <<complaints, exchange>>
  BY DEF StartComplaint, StartReply, StartComplaintStatus, StartComplaintWithdrawal, Allowed
<1> QED BY <1>1, <1>2, <1>3, <1>4, <1>5

\* submitComplaint's transaction: a new row, which nobody writes on yet.
LEMMA SubmitKeeps ==
  ASSUME OfficeInvariant, NEW r \in Correspondents, SubmitComplaint(r)
  PROVE  /\ OfficeInvariant'
         /\ \A c \in DOMAIN complaints : complaints'[c] = complaints[c] /\ exchange'[c] = exchange[c]
<1> USE DEF OfficeInvariant
<1> DEFINE t == letter[r]
           row == [by |-> t.by, status |-> "SUBMITTED", awaiting |-> AwaitingOfficeAfter("SUBMITTED"),
                   closedBy |-> "nobody"]
<1>1. PICK n \in Applications \ DOMAIN complaints :
        /\ complaints' = [d \in DOMAIN complaints \cup {n} |-> IF d = n THEN row ELSE complaints[d]]
        /\ exchange' = [d \in DOMAIN exchange \cup {n} |-> IF d = n THEN <<>> ELSE exchange[d]]
        /\ letter' = [letter EXCEPT ![r].at = "tell", ![r].c = n]
  BY DEF SubmitComplaint
<1>2. t.at = "update" /\ t.op = "submit" /\ t \in Letters /\ t.by \in Applicants /\ UNCHANGED <<notified, crossed>>
  BY DEF SubmitComplaint, OfficeShape, LettersName, LetterSays, Pending
<1>3. row \in Rows /\ row.status = "SUBMITTED" /\ row.awaiting /\ row.closedBy = "nobody"
  BY <1>2 DEF Rows, ComplaintStatuses, OpenStatuses, AwaitingOfficeAfter
<1> HIDE DEF row
<1>4. /\ DOMAIN complaints' = DOMAIN complaints \cup {n} /\ complaints'[n] = row /\ exchange'[n] = <<>>
      /\ \A c \in DOMAIN complaints : complaints'[c] = complaints[c] /\ exchange'[c] = exchange[c]
  BY <1>1 DEF OfficeShape
<1>5. /\ letter' \in [Correspondents -> Letters]
      /\ letter'[r].at = "tell" /\ letter'[r].c = n /\ letter'[r].op = "submit"
      /\ \A q \in Correspondents \ {r} : letter'[q] = letter[q]
  <2> DEFINE u == [t EXCEPT !.at = "tell", !.c = n]
  <2>1. letter' = [letter EXCEPT ![r] = u]
    BY <1>1 DEF OfficeShape
  <2>2. u \in Letters /\ u.at = "tell" /\ u.c = n /\ u.op = "submit"
    BY <1>2 DEF Letters
  <2> HIDE DEF u
  <2> QED BY <2>1, <2>2 DEF OfficeShape
<1>6. OfficeShape'
  <2>1. complaints' \in [DOMAIN complaints' -> Rows] /\ exchange' \in [DOMAIN complaints' -> Seq(Sides)]
    <3>1. <<>> \in Seq(Sides)
      OBVIOUS
    <3> QED BY <1>1, <1>3, <3>1 DEF OfficeShape
  <2> QED BY <1>2, <1>4, <1>5, <2>1 DEF OfficeShape
<1>7. LettersName'
  BY <1>4, <1>5 DEF LettersName, LetterSays, Pending
<1>8. \A q \in Correspondents : ~(Pending(letter'[q]) /\ letter'[q].c = n)
  <2> SUFFICES ASSUME NEW q \in Correspondents, Pending(letter'[q]), letter'[q].c = n PROVE FALSE
    OBVIOUS
  <2>1. q # r /\ letter'[q] = letter[q]
    BY <1>5 DEF Pending
  <2>2. letter[q].op = "submit" => letter[q].c = NoApplication
    BY <2>1 DEF LettersName, LetterSays
  <2> QED BY <2>1, <2>2, ApplicationsAssumption DEF LettersName
<1>9. LettersKnow'
  <2> SUFFICES ASSUME NEW s \in Correspondents, Pending(letter'[s]), letter'[s].c \in DOMAIN complaints' \ crossed'
               PROVE  /\ Decided(letter'[s], complaints'[letter'[s].c].status)
                      /\ \A q \in Correspondents :
                           Pending(letter'[q]) /\ letter'[q].c = letter'[s].c => q = s
                      /\ letter'[s].at = "update" /\ letter'[s].note =>
                           exchange'[letter'[s].c] # <<>>
                             /\ exchange'[letter'[s].c][Len(exchange'[letter'[s].c])] = letter'[s].side
    BY DEF LettersKnow, LastIs
  <2>1. s # r /\ letter'[s] = letter[s] /\ letter[s].c \in DOMAIN complaints \ crossed
    BY <1>2, <1>4, <1>5, <1>8 DEF Pending
  <2>2. \A q \in Correspondents : Pending(letter'[q]) => Pending(letter[q]) /\ letter'[q].c = letter[q].c
    BY <1>5 DEF Pending
  <2> QED BY <1>4, <2>1, <2>2 DEF LettersKnow, LastIs
<1>10. DeskInOrder'
  <2> SUFFICES ASSUME NEW c \in DOMAIN complaints' \ crossed'
               PROVE  /\ complaints'[c].awaiting => complaints'[c].status \in OpenStatuses
                      /\ (\A s \in Correspondents : ~(letter'[s].at = "update" /\ letter'[s].note /\ letter'[s].c = c))
                           => (complaints'[c].status \in OpenStatuses /\ LastIs(c, "student")' => complaints'[c].awaiting)
    BY DEF DeskInOrder
  <2>1. CASE c = n
    BY <1>3, <1>4, <2>1 DEF OpenStatuses
  <2>2. CASE c \in DOMAIN complaints \ crossed
    <3>1. LastIs(c, "student")' <=> LastIs(c, "student")
      BY <1>4, <2>2 DEF LastIs
    <3>2. ASSUME \A s \in Correspondents : ~(letter'[s].at = "update" /\ letter'[s].note /\ letter'[s].c = c)
          PROVE  \A s \in Correspondents : ~(letter[s].at = "update" /\ letter[s].note /\ letter[s].c = c)
      <4>1. ~letter[r].note
        BY <1>2 DEF LettersName, LetterSays, Pending
      <4> QED BY <1>5, <3>2, <4>1
    <3> QED BY <1>4, <2>2, <3>1, <3>2 DEF DeskInOrder
  <2> QED BY <1>2, <1>4, <2>1, <2>2
<1>11. ClosedByWhom'
  <2> SUFFICES ASSUME NEW c \in DOMAIN complaints'
               PROVE  /\ complaints'[c].status = "WITHDRAWN" => complaints'[c].closedBy = "student"
                      /\ complaints'[c].status = "RESOLVED" => complaints'[c].closedBy = "office"
                      /\ c \notin crossed' /\ complaints'[c].closedBy # "nobody" => complaints'[c].status \notin OpenStatuses
    BY DEF ClosedByWhom
  <2> QED BY <1>2, <1>3, <1>4 DEF ClosedByWhom
<1> QED BY <1>4, <1>6, <1>7, <1>9, <1>10, <1>11

\* The message comes first: the request now has the last word of the exchange.
LEMMA InsertKeeps ==
  ASSUME OfficeInvariant, NEW r \in Correspondents, InsertMessage(r)
  PROVE  /\ OfficeInvariant' /\ UNCHANGED complaints
         /\ letter[r].c \in DOMAIN complaints /\ Pending(letter[r])
         /\ \A c \in DOMAIN complaints \ {letter[r].c} : exchange'[c] = exchange[c]
<1> USE DEF OfficeInvariant
<1> DEFINE t == letter[r]
<1>1. /\ t.at = "insert" /\ UNCHANGED <<complaints, notified, crossed>>
      /\ exchange' = IF t.note THEN [exchange EXCEPT ![t.c] = Append(@, t.side)] ELSE exchange
      /\ letter' = [letter EXCEPT ![r].at = "update"]
  BY DEF InsertMessage
<1>2. t \in Letters /\ Pending(t) /\ t.op # "submit" /\ t.c \in DOMAIN complaints /\ t.side \in Sides /\ t.note \in BOOLEAN
  BY <1>1 DEF OfficeShape, Letters, LettersName, LetterSays, Pending
<1>3. /\ letter' \in [Correspondents -> Letters] /\ letter'[r].at = "update" /\ letter'[r].op = t.op
      /\ letter'[r].c = t.c /\ letter'[r].side = t.side /\ letter'[r].by = t.by /\ letter'[r].to = t.to
      /\ letter'[r].note = t.note
      /\ \A q \in Correspondents \ {r} : letter'[q] = letter[q]
  <2> DEFINE at == "update"
             u == [t EXCEPT !.at = at]
  <2>1. letter' = [letter EXCEPT ![r] = u]
    BY <1>1 DEF OfficeShape
  <2>2. at \in {"update", "tell"} /\ at = "update"
    OBVIOUS
  <2> HIDE DEF at
  <2>3. u \in Letters /\ u.at = at /\ u.op = t.op /\ u.c = t.c /\ u.side = t.side /\ u.by = t.by
        /\ u.to = t.to /\ u.note = t.note
    BY <1>2, <2>2, LetterGoesOn, ZenonT(60)
  <2> HIDE DEF u
  <2> QED BY <2>1, <2>2, <2>3 DEF OfficeShape
<1>4. /\ exchange' \in [DOMAIN complaints -> Seq(Sides)]
      /\ \A c \in DOMAIN complaints \ {t.c} : exchange'[c] = exchange[c]
      /\ t.note => exchange'[t.c] # <<>> /\ exchange'[t.c][Len(exchange'[t.c])] = t.side
      /\ ~t.note => exchange'[t.c] = exchange[t.c]
  <2>1. exchange[t.c] \in Seq(Sides)
    BY <1>2 DEF OfficeShape
  <2> DEFINE e == Append(exchange[t.c], t.side)
  <2>2. e \in Seq(Sides) /\ e # <<>> /\ e[Len(e)] = t.side
    BY <1>2, <2>1
  <2>3. exchange' = IF t.note THEN [exchange EXCEPT ![t.c] = e] ELSE exchange
    BY <1>1
  <2> HIDE DEF e
  <2> QED BY <1>2, <2>2, <2>3 DEF OfficeShape
<1>5. OfficeShape'
  BY <1>1, <1>3, <1>4 DEF OfficeShape
<1>6. LettersName'
  BY <1>1, <1>2, <1>3 DEF LettersName, LetterSays, Pending
<1>7. \A q \in Correspondents : (Pending(letter'[q]) <=> Pending(letter[q])) /\ letter'[q].c = letter[q].c
  BY <1>2, <1>3 DEF Pending
<1>8. LettersKnow'
  <2> SUFFICES ASSUME NEW s \in Correspondents, Pending(letter'[s]), letter'[s].c \in DOMAIN complaints \ crossed
               PROVE  /\ Decided(letter'[s], complaints[letter'[s].c].status)
                      /\ \A q \in Correspondents :
                           Pending(letter'[q]) /\ letter'[q].c = letter'[s].c => q = s
                      /\ letter'[s].at = "update" /\ letter'[s].note =>
                           exchange'[letter'[s].c] # <<>>
                             /\ exchange'[letter'[s].c][Len(exchange'[letter'[s].c])] = letter'[s].side
    BY <1>1 DEF LettersKnow, LastIs
  <2>1. CASE s = r
    BY <1>2, <1>3, <1>4, <1>7, <2>1 DEF LettersKnow, Decided
  <2>2. CASE s # r
    <3>1. letter'[s] = letter[s] /\ letter[s].c # t.c
      BY <1>2, <1>3, <2>2 DEF LettersKnow
    <3> QED BY <1>4, <1>7, <3>1 DEF LettersKnow, LastIs
  <2> QED BY <2>1, <2>2
<1>9. DeskInOrder'
  <2> SUFFICES ASSUME NEW c \in DOMAIN complaints \ crossed
               PROVE  /\ complaints[c].awaiting => complaints[c].status \in OpenStatuses
                      /\ (\A s \in Correspondents : ~(letter'[s].at = "update" /\ letter'[s].note /\ letter'[s].c = c))
                           => (complaints[c].status \in OpenStatuses /\ LastIs(c, "student")' => complaints[c].awaiting)
    BY <1>1 DEF DeskInOrder
  <2>1. CASE c = t.c /\ t.note
    BY <1>3, <2>1 DEF DeskInOrder
  <2>2. CASE ~(c = t.c /\ t.note)
    <3>1. exchange'[c] = exchange[c]
      BY <1>2, <1>4, <2>2
    <3>2. LastIs(c, "student")' <=> LastIs(c, "student")
      BY <3>1 DEF LastIs
    <3>3. ASSUME \A s \in Correspondents : ~(letter'[s].at = "update" /\ letter'[s].note /\ letter'[s].c = c)
          PROVE  \A s \in Correspondents : ~(letter[s].at = "update" /\ letter[s].note /\ letter[s].c = c)
      BY <1>1, <1>3, <3>3
    <3> QED BY <3>2, <3>3 DEF DeskInOrder
  <2> QED BY <2>1, <2>2
<1>10. ClosedByWhom'
  BY <1>1, ClosedStays
<1> QED BY <1>1, <1>2, <1>4, <1>5, <1>6, <1>8, <1>9, <1>10

\* The update: the row as the request decided, on what it still is unless crossed.
LEMMA UpdateKeeps ==
  ASSUME OfficeInvariant, NEW r \in Correspondents, UpdateRow(r)
  PROVE  /\ OfficeInvariant' /\ UNCHANGED exchange
         /\ letter[r].c \in DOMAIN complaints /\ Pending(letter[r])
         /\ \A c \in DOMAIN complaints \ {letter[r].c} : complaints'[c] = complaints[c]
<1> USE DEF OfficeInvariant
<1> DEFINE t == letter[r]
           row == complaints[t.c]
           new == IF t.op = "reply" THEN Replied(row, t) ELSE Closing(row, t)
<1>1. /\ t.at = "update" /\ t.op # "submit" /\ UNCHANGED <<exchange, notified, crossed>>
      /\ complaints' = [complaints EXCEPT ![t.c] = IF t.op = "reply" THEN Replied(@, t) ELSE Closing(@, t)]
      /\ letter' = [letter EXCEPT ![r] = IF t.op = "withdraw" THEN NoLetter ELSE [@ EXCEPT !.at = "tell"]]
  BY DEF UpdateRow
<1>2. /\ t \in Letters /\ Pending(t) /\ t.c \in DOMAIN complaints /\ LetterSays(t)
      /\ t.op \in {"reply", "status", "withdraw"}
  BY <1>1 DEF OfficeShape, Letters, LettersName, LetterSays, Pending
<1>3. row \in Rows
  BY <1>2 DEF OfficeShape
<1>4. complaints' = [complaints EXCEPT ![t.c] = new]
  BY <1>1, <1>2 DEF OfficeShape
<1>5. /\ new \in Rows /\ new.status = t.to
      /\ t.op = "reply" => new.closedBy = row.closedBy /\ (new.awaiting <=> t.side = "student")
      /\ t.op # "reply" => /\ new.closedBy = IF t.to \in OpenStatuses THEN "nobody" ELSE t.side
                           /\ new.awaiting <=> t.to \in {"SUBMITTED", "IN_REVIEW"}
  BY <1>2, <1>3, ClosingRow, RepliedRow
<1> HIDE DEF new
<1>6. /\ DOMAIN complaints' = DOMAIN complaints /\ complaints'[t.c] = new
      /\ \A c \in DOMAIN complaints \ {t.c} : complaints'[c] = complaints[c]
      /\ complaints' \in [DOMAIN complaints -> Rows]
  BY <1>2, <1>4, <1>5 DEF OfficeShape
<1>7. /\ letter' \in [Correspondents -> Letters] /\ ~Pending(letter'[r]) /\ ~(letter'[r].at = "update")
      /\ LetterSays(letter'[r]) /\ (letter'[r].at = "tell" => letter'[r].c = t.c)
      /\ \A q \in Correspondents \ {r} : letter'[q] = letter[q]
  <2> DEFINE at == "tell"
             u == [t EXCEPT !.at = at]
             v == IF t.op = "withdraw" THEN NoLetter ELSE u
  <2>1. letter' = [letter EXCEPT ![r] = v]
    BY <1>1 DEF OfficeShape
  <2>2. at \in {"update", "tell"} /\ at = "tell"
    OBVIOUS
  <2> HIDE DEF at
  <2>3. u \in Letters /\ u.at = at /\ u.op = t.op /\ u.c = t.c /\ u.side = t.side /\ u.by = t.by
        /\ u.to = t.to /\ u.note = t.note
    BY <1>2, <2>2, LetterGoesOn, ZenonT(60)
  <2>4. u \in Letters /\ ~Pending(u) /\ ~(u.at = "update") /\ LetterSays(u) /\ u.c = t.c
    <3> HIDE DEF u
    <3> QED BY <1>2, <2>2, <2>3 DEF LetterSays, Pending
  <2>5. v \in Letters /\ ~Pending(v) /\ ~(v.at = "update") /\ LetterSays(v) /\ (v.at = "tell" => v.c = t.c)
    <3> HIDE DEF u
    <3> QED BY <2>4, NoLetterSays
  <2> HIDE DEF v
  <2> QED BY <2>1, <2>5 DEF OfficeShape
<1>8. OfficeShape'
  BY <1>1, <1>6, <1>7 DEF OfficeShape
<1>9. LettersName'
  BY <1>2, <1>6, <1>7 DEF LettersName
<1>10. \A q \in Correspondents \ {r} : Pending(letter[q]) /\ letter[q].c = t.c => t.c \in crossed
  BY <1>2 DEF LettersKnow
<1>11. LettersKnow'
  <2> SUFFICES ASSUME NEW s \in Correspondents, Pending(letter'[s]), letter'[s].c \in DOMAIN complaints \ crossed
               PROVE  /\ Decided(letter'[s], complaints'[letter'[s].c].status)
                      /\ \A q \in Correspondents :
                           Pending(letter'[q]) /\ letter'[q].c = letter'[s].c => q = s
                      /\ letter'[s].at = "update" /\ letter'[s].note => LastIs(letter'[s].c, letter'[s].side)
    BY <1>1, <1>6 DEF LettersKnow, LastIs
  <2>1. s # r /\ letter'[s] = letter[s] /\ letter[s].c # t.c
    BY <1>7, <1>10
  <2>2. \A q \in Correspondents : Pending(letter'[q]) => Pending(letter[q]) /\ letter'[q].c = letter[q].c
    BY <1>7
  <2> QED BY <1>6, <2>1, <2>2 DEF LettersKnow
<1>12. DeskInOrder'
  <2> SUFFICES ASSUME NEW c \in DOMAIN complaints \ crossed
               PROVE  /\ complaints'[c].awaiting => complaints'[c].status \in OpenStatuses
                      /\ (\A s \in Correspondents : ~(letter'[s].at = "update" /\ letter'[s].note /\ letter'[s].c = c))
                           => (complaints'[c].status \in OpenStatuses /\ LastIs(c, "student") => complaints'[c].awaiting)
    BY <1>1, <1>6 DEF DeskInOrder, LastIs
  <2>1. CASE c = t.c
    <3>1. new.awaiting => new.status \in OpenStatuses
      BY <1>2, <1>5 DEF LetterSays, OpenStatuses
    <3>2. new.status \in OpenStatuses /\ LastIs(c, "student") => new.awaiting
      <4>1. CASE t.op = "reply"
        <5>1. LastIs(c, t.side)
          BY <1>1, <1>2, <2>1, <4>1 DEF LettersKnow, LetterSays
        <5> QED BY <1>5, <4>1, <5>1 DEF LastIs
      <4>2. CASE t.op # "reply"
        BY <1>5, <4>2 DEF OpenStatuses
      <4> QED BY <4>1, <4>2
    <3> QED BY <1>6, <2>1, <3>1, <3>2
  <2>2. CASE c # t.c
    <3>1. ASSUME \A s \in Correspondents : ~(letter'[s].at = "update" /\ letter'[s].note /\ letter'[s].c = c)
          PROVE  \A s \in Correspondents : ~(letter[s].at = "update" /\ letter[s].note /\ letter[s].c = c)
      BY <1>7, <2>2, <3>1
    <3> QED BY <1>6, <2>2, <3>1 DEF DeskInOrder
  <2> QED BY <2>1, <2>2
<1>13. ClosedByWhom'
  <2> SUFFICES ASSUME NEW c \in DOMAIN complaints
               PROVE  /\ complaints'[c].status = "WITHDRAWN" => complaints'[c].closedBy = "student"
                      /\ complaints'[c].status = "RESOLVED" => complaints'[c].closedBy = "office"
                      /\ c \notin crossed /\ complaints'[c].closedBy # "nobody" => complaints'[c].status \notin OpenStatuses
    BY <1>1, <1>6 DEF ClosedByWhom
  <2>1. CASE c # t.c
    BY <1>6, <2>1 DEF ClosedByWhom
  <2>2. CASE c = t.c /\ t.op = "reply"
    <3>1. c \notin crossed => row.status \in OpenStatuses
      BY <1>2, <2>2 DEF LettersKnow, Decided
    <3>2. c \notin crossed => row.closedBy = "nobody"
      BY <3>1, <2>2, <1>2 DEF ClosedByWhom
    <3> QED BY <1>2, <1>5, <1>6, <2>2, <3>2 DEF LetterSays, OpenStatuses
  <2>3. CASE c = t.c /\ t.op # "reply"
    BY <1>2, <1>5, <1>6, <2>3 DEF LetterSays, OpenStatuses
  <2> QED BY <2>1, <2>2, <2>3
<1> QED BY <1>1, <1>2, <1>6, <1>8, <1>9, <1>11, <1>12, <1>13

\* Telling the other side, or failing to, ends the request and changes no application.
LEMMA NotifyKeeps ==
  ASSUME OfficeInvariant, NEW r \in Correspondents, NotifyOther(r) \/ NotifyFails(r)
  PROVE  OfficeInvariant' /\ UNCHANGED <<complaints, exchange>>
<1> USE DEF OfficeInvariant
<1> DEFINE t == letter[r]
<1>1. /\ t.at = "tell" /\ UNCHANGED <<complaints, exchange, crossed>>
      /\ letter' = [letter EXCEPT ![r] = NoLetter]
      /\ notified' = notified \/ \E other \in Sides : notified' = notified \cup {<<t.c, other>>}
  BY DEF NotifyOther, NotifyFails, Sides
<1>2. t.c \in DOMAIN complaints
  BY <1>1 DEF LettersName
<1>3. /\ letter' \in [Correspondents -> Letters] /\ letter'[r] = NoLetter
      /\ \A q \in Correspondents \ {r} : letter'[q] = letter[q]
  BY <1>1, NoLetterSays DEF OfficeShape
<1>4. OfficeShape'
  BY <1>1, <1>2, <1>3 DEF OfficeShape
<1>5. LettersName'
  BY <1>1, <1>3, NoLetterSays DEF LettersName
<1>6. LettersKnow'
  <2>1. \A q \in Correspondents : Pending(letter'[q]) => q # r /\ letter'[q] = letter[q]
    BY <1>3, NoLetterSays
  <2> QED BY <1>1, <2>1 DEF LettersKnow, LastIs
<1>7. DeskInOrder'
  <2>1. \A s \in Correspondents : letter'[s].at = "update" <=> letter[s].at = "update"
    BY <1>1, <1>3, NoLetterSays
  <2>2. \A s \in Correspondents : letter'[s].at = "update" => letter'[s] = letter[s]
    BY <1>3, NoLetterSays
  <2> QED BY <1>1, <2>1, <2>2 DEF DeskInOrder, LastIs
<1>8. ClosedByWhom'
  BY <1>1, ClosedStays
<1> QED BY <1>1, <1>4, <1>5, <1>6, <1>7, <1>8

---------------------------------------------------------------------------
LEMMA OfficeInitHolds == ComplaintInit => OfficeInvariant
<1> SUFFICES ASSUME ComplaintInit PROVE OfficeInvariant
  OBVIOUS
<1>1. /\ DOMAIN complaints = {} /\ DOMAIN exchange = {} /\ notified = {} /\ crossed = {}
      /\ letter = [r \in Correspondents |-> NoLetter]
  BY DEF ComplaintInit
<1>2. complaints \in [DOMAIN complaints -> Rows] /\ exchange \in [DOMAIN complaints -> Seq(Sides)]
  BY <1>1 DEF ComplaintInit
<1>3. OfficeShape
  BY <1>1, <1>2, NoLetterSays DEF OfficeShape
<1>4. LettersName /\ LettersKnow
  BY <1>1, NoLetterSays DEF LettersName, LettersKnow
<1>5. DeskInOrder /\ ClosedByWhom
  BY <1>1 DEF DeskInOrder, ClosedByWhom
<1> QED BY <1>3, <1>4, <1>5 DEF OfficeInvariant

\* Whom nobody overlaps with can neither reply to nor decide on what is withdrawn.
LEMMA WithdrawnIsLeftAlone ==
  ASSUME OfficeInvariant, NEW r \in Correspondents, Pending(letter[r]), letter[r].op # "submit",
         letter[r].c \notin crossed
  PROVE  complaints[letter[r].c].status # "WITHDRAWN"
<1>1. letter[r].c \in DOMAIN complaints /\ letter[r].op \in {"reply", "status", "withdraw"}
  BY DEF OfficeInvariant, OfficeShape, Letters, LettersName, LetterSays
<1>2. Decided(letter[r], complaints[letter[r].c].status)
  BY <1>1 DEF OfficeInvariant, LettersKnow
<1> QED BY <1>1, <1>2 DEF Decided, OpenStatuses, OfficeTransitions

LEMMA OfficeStepHolds ==
  ASSUME OfficeInvariant, [ComplaintNext]_complaintVars
  PROVE  /\ OfficeInvariant'
         /\ \A c \in DOMAIN complaints \ crossed :
              complaints[c].status = "WITHDRAWN" => complaints'[c] = complaints[c] /\ exchange'[c] = exchange[c]
<1>1. CASE UNCHANGED complaintVars
  BY <1>1 DEF complaintVars, OfficeInvariant, OfficeShape, LettersName, LettersKnow, DeskInOrder, LastIs, ClosedByWhom
<1>2. ASSUME NEW r \in Correspondents, InsertMessage(r) \/ UpdateRow(r)
      PROVE  /\ OfficeInvariant'
             /\ \A c \in DOMAIN complaints \ crossed :
                  complaints[c].status = "WITHDRAWN" => complaints'[c] = complaints[c] /\ exchange'[c] = exchange[c]
  <2>1. letter[r].op # "submit"
    BY <1>2 DEF InsertMessage, UpdateRow, OfficeInvariant, LettersName, LetterSays, Pending
  <2> QED BY <1>2, <2>1, InsertKeeps, UpdateKeeps, WithdrawnIsLeftAlone
<1>3. ASSUME NEW r \in Correspondents, SubmitComplaint(r) \/ NotifyOther(r) \/ NotifyFails(r)
      PROVE  /\ OfficeInvariant'
             /\ \A c \in DOMAIN complaints : complaints'[c] = complaints[c] /\ exchange'[c] = exchange[c]
  BY <1>3, SubmitKeeps, NotifyKeeps
<1> QED BY <1>1, <1>2, <1>3, StartKeeps DEF ComplaintNext

\* For any number of applications and requests that overlap: who closed an
\* application can be told, a withdrawn one was withdrawn by its student; and on one
\* without overlaps closedAt stands on closed ones only, the desk shows whose move it
\* is, and a withdrawal is final (complaints-policy.ts:156).
THEOREM ApplicationsAreKeptHolds == ComplaintSpec => ApplicationsAreKept
<1> DEFINE Kept == ComplaintTypeOK /\ ClosedByWhom /\ YourMove
           LeftAlone == \A c \in DOMAIN complaints \ crossed :
             complaints[c].status = "WITHDRAWN" /\ c \notin crossed'
               => complaints'[c] = complaints[c] /\ exchange'[c] = exchange[c]
<1>1. ComplaintInit => OfficeInvariant
  BY OfficeInitHolds
<1>2. OfficeInvariant /\ [ComplaintNext]_complaintVars => OfficeInvariant'
  BY OfficeStepHolds
<1>3. OfficeInvariant => Kept
  <2> SUFFICES ASSUME OfficeInvariant PROVE Kept
    OBVIOUS
  <2>1. ComplaintTypeOK
    <3>1. \A c \in DOMAIN complaints : complaints[c] \in Rows /\ exchange[c] \in Seq(Sides)
      BY DEF OfficeInvariant, OfficeShape
    <3>2. \A r \in Correspondents : letter[r].c \in DOMAIN complaints \cup {NoApplication}
      <4> SUFFICES ASSUME NEW r \in Correspondents PROVE letter[r].c \in DOMAIN complaints \cup {NoApplication}
        OBVIOUS
      <4>1. letter[r].at \in {"idle", "insert", "update", "tell"}
        BY DEF OfficeInvariant, OfficeShape, Letters
      <4> QED BY <4>1 DEF OfficeInvariant, LettersName, LetterSays, Pending
    <3> QED BY <3>1, <3>2 DEF OfficeInvariant, OfficeShape, ComplaintTypeOK, Rows
  <2>2. YourMove
    <3> SUFFICES ASSUME NEW c \in DOMAIN complaints \ crossed, AboutIt(c) = {}
                 PROVE  /\ complaints[c].awaiting => complaints[c].status \in OpenStatuses
                        /\ complaints[c].status \in OpenStatuses /\ LastIs(c, "student") => complaints[c].awaiting
      BY DEF YourMove, LastIs
    <3>1. \A r \in Correspondents : ~(letter[r].at = "update" /\ letter[r].note /\ letter[r].c = c)
      BY DEF AboutIt
    <3> QED BY <3>1 DEF OfficeInvariant, DeskInOrder
  <2> QED BY <2>1, <2>2 DEF OfficeInvariant
<1>4. OfficeInvariant /\ [ComplaintNext]_complaintVars => [LeftAlone]_complaintVars
  BY OfficeStepHolds
<1> QED BY <1>1, <1>2, <1>3, <1>4, PTL DEF ComplaintSpec, ApplicationsAreKept, WithdrawnIsFinal

---------------------------------------------------------------------------
\* Notices.

Targets == UNION {f.for : f \in NoticeForms}
NoticeRow == [status : PublishStatuses, for : SUBSET Targets, from : Nat, until : Nat]
NoticeEdit ==
  {NoEdit}
  \cup [op : {"edit"}, form : NoticeForms, saw : SUBSET Targets]
  \cup [op : {"status"}, to : PublishStatuses, from : PublishStatuses]
  \cup [op : {"delete"}]
  \cup [op : {"tell"}, for : SUBSET Targets]

\* The variables are of their shapes.
NoticeShape ==
  /\ notice \in {NoNotice} \cup NoticeRow /\ editing \in [Secretaries -> NoticeEdit]
  /\ hour \in Nat /\ issues \in Nat /\ heard \in [Readers -> Nat] /\ rushed \in BOOLEAN

\* As long as no two requests overlapped: one is in flight at most, it saw the
\* notice as it is, and a notice about to be told of has come out once more than
\* anybody was told.
AloneKnowsTheNotice ==
  ~rushed => \A r \in Secretaries : editing[r] # NoEdit =>
    /\ \A q \in Secretaries \ {r} : editing[q] = NoEdit
    /\ editing[r].op = "edit" => notice # NoNotice /\ editing[r].saw = notice.for
    /\ editing[r].op = "status" => notice # NoNotice /\ editing[r].from = notice.status
    /\ editing[r].op = "tell" => \A u \in Readers : heard[u] < issues

NoticeInvariant == NoticeShape /\ AloneKnowsTheNotice /\ AudienceIsTheLastForm

---------------------------------------------------------------------------
\* A request's fields follow from what it does.
LEMMA NoticeEditFields ==
  ASSUME NEW t \in NoticeEdit
  PROVE  /\ t.op \in {"none", "edit", "status", "delete", "tell"}
         /\ t.op = "none" <=> t = NoEdit
         /\ t.op = "edit" => t.form \in NoticeForms /\ t.saw \subseteq Targets
                             /\ t \in [op : {"edit"}, form : NoticeForms, saw : SUBSET Targets]
         /\ t.op = "status" => {t.to, t.from} \subseteq PublishStatuses
         /\ t.op = "tell" => t.for \subseteq Targets
<1>1. CASE t = NoEdit
  BY <1>1 DEF NoEdit
<1>2. CASE t \in [op : {"edit"}, form : NoticeForms, saw : SUBSET Targets]
  <2>1. /\ t.op = "edit" /\ t.form \in NoticeForms /\ t.saw \subseteq Targets
    BY <1>2
  <2> QED BY <2>1, <1>2 DEF NoEdit
<1>3. CASE t \in [op : {"status"}, to : PublishStatuses, from : PublishStatuses]
  <2>1. t.op = "status" /\ {t.to, t.from} \subseteq PublishStatuses
    BY <1>3
  <2> QED BY <2>1 DEF NoEdit
<1>4. CASE t \in [op : {"delete"}]
  <2>1. t.op = "delete"
    BY <1>4
  <2> QED BY <2>1 DEF NoEdit
<1>5. CASE t \in [op : {"tell"}, for : SUBSET Targets]
  <2>1. t.op = "tell" /\ t.for \subseteq Targets
    BY <1>5
  <2> QED BY <2>1 DEF NoEdit
<1> QED BY <1>1, <1>2, <1>3, <1>4, <1>5 DEF NoticeEdit

\* A notice has a status; where there is none, it is not one of them.
LEMMA NoticeFields ==
  ASSUME NoticeShape
  PROVE  /\ notice # NoNotice <=> notice.status # "NONE"
         /\ notice # NoNotice => /\ notice \in NoticeRow /\ notice.status \in PublishStatuses
                                 /\ notice.for \subseteq Targets /\ notice.from \in Nat
                                 /\ notice.until \in Nat
         /\ "NONE" \notin PublishStatuses
<1>1. NoNotice.status = "NONE" /\ "NONE" \notin PublishStatuses
  BY DEF NoNotice, PublishStatuses
<1>2. ASSUME notice \in NoticeRow
      PROVE  /\ notice.status \in PublishStatuses /\ notice.for \subseteq Targets
             /\ notice.from \in Nat /\ notice.until \in Nat
  BY <1>2 DEF NoticeRow
<1> QED BY <1>1, <1>2 DEF NoticeShape

\* A form's audiences and hours.
LEMMA FormFields ==
  ASSUME NoticeAssumption, NEW f \in NoticeForms
  PROVE  f.for \subseteq Targets /\ f.from \in Nat /\ f.until \in Nat
BY DEF NoticeAssumption, Targets

\* An audience is one of the five.
LEMMA TargetsAreAudiences ==
  ASSUME NoticeAssumption, NEW t \in Targets
  PROVE  \/ t \in {<<"ALL">>, <<"STUDENTS">>, <<"STAFF">>}
         \/ t = <<"CLASS", t[2]>> \/ t = <<"SECTION", t[2]>>
BY DEF NoticeAssumption, Targets

\* The feed's filter lists the audiences that reach the reader.
LEMMA FilterListsWhatReaches ==
  ASSUME NoticeAssumption, NEW t \in Targets, NEW u \in Readers
  PROVE  TargetReaches(t, u) <=> t \in Reaches(u)
<1>1. Population(u) = <<"STUDENTS">> \/ Population(u) = <<"STAFF">>
  BY DEF Population
<1>2. CASE t = <<"ALL">>
  BY <1>2 DEF TargetReaches, Reaches
<1>3. CASE t \in {<<"STUDENTS">>, <<"STAFF">>}
  <2>1. t[1] \in {"STUDENTS", "STAFF"}
    BY <1>3
  <2>2. TargetReaches(t, u) <=> t = Population(u)
    BY <2>1 DEF TargetReaches
  <2>3. t # <<"ALL">> /\ \A c : t # <<"SECTION", c>> /\ t # <<"CLASS", c>>
    BY <2>1
  <2> QED BY <2>2, <2>3 DEF Reaches
<1>4. CASE t = <<"CLASS", t[2]>>
  <2>1. TargetReaches(t, u) <=> \E c \in sits[u] : YearOf[c] = t[2]
    <3>1. t[1] = "CLASS"
      BY <1>4
    <3> QED BY <3>1 DEF TargetReaches
  <2>2. t # <<"ALL">> /\ t # Population(u) /\ \A c : t # <<"SECTION", c>>
    <3>1. t[1] = "CLASS"
      BY <1>4
    <3> QED BY <3>1, <1>1
  <2>3. \A k : t = <<"CLASS", k>> <=> t[2] = k
    BY <1>4
  <2> QED BY <2>1, <2>2, <2>3 DEF Reaches
<1>5. CASE t = <<"SECTION", t[2]>>
  <2>1. TargetReaches(t, u) <=> t[2] \in sits[u]
    <3>1. t[1] = "SECTION"
      BY <1>5
    <3> QED BY <3>1 DEF TargetReaches
  <2>2. t # <<"ALL">> /\ t # Population(u) /\ \A c : t # <<"CLASS", c>>
    <3>1. t[1] = "SECTION"
      BY <1>5
    <3> QED BY <3>1, <1>1
  <2>3. \A k : t = <<"SECTION", k>> <=> t[2] = k
    BY <1>5
  <2> QED BY <2>1, <2>2, <2>3 DEF Reaches
<1> QED BY <1>2, <1>3, <1>4, <1>5, TargetsAreAudiences

\* The notice's page and the feed ask the same question.
LEMMA FeedIsThePolicy ==
  ASSUME NoticeAssumption, NoticeShape
  PROVE  FeedAgreesWithPolicy
<1> SUFFICES ASSUME notice # NoNotice, NEW u \in Readers
             PROVE  InFeed(u) <=> NoticeVisible(u)
  BY DEF FeedAgreesWithPolicy
<1>1. /\ notice.for \subseteq Targets /\ notice.from \in Nat /\ notice.until \in Nat /\ hour \in Nat
  BY NoticeFields DEF NoticeShape
<1>2. notice.for \cap Reaches(u) # {} <=> \E t \in notice.for : TargetReaches(t, u)
  BY <1>1, FilterListsWhatReaches
<1>3. (notice.until = 0 \/ notice.until > hour) <=> (notice.until # 0 => hour < notice.until)
  BY <1>1
<1> HIDE DEF NoNotice
<1> QED BY <1>2, <1>3 DEF InFeed, NoticeVisible, CheckPublishWindow

LEMMA NoticeInitHolds ==
  ASSUME NoticeAssumption, NoticeInit
  PROVE  NoticeInvariant
<1>1. PICK f \in NoticeForms :
         /\ notice = [status |-> "DRAFT", for |-> f.for, from |-> f.from, until |-> f.until]
         /\ lastFor = f.for
  BY DEF NoticeInit
<1>2. notice \in NoticeRow /\ notice.for = lastFor
  BY <1>1, FormFields DEF NoticeRow, PublishStatuses
<1>3. /\ hour = 0 /\ heard = [u \in Readers |-> 0] /\ issues = 0 /\ rushed = FALSE
      /\ editing \in [Secretaries -> NoticeEdit] /\ \A r \in Secretaries : editing[r] = NoEdit
  BY DEF NoticeInit, NoticeEdit
<1>4. NoticeShape
  BY <1>2, <1>3 DEF NoticeShape
<1>5. AloneKnowsTheNotice /\ AudienceIsTheLastForm
  BY <1>2, <1>3 DEF AloneKnowsTheNotice, AudienceIsTheLastForm
<1> QED BY <1>4, <1>5 DEF NoticeInvariant

\* A request begins with what the notice is.
LEMMA OpenedKeeps ==
  ASSUME NoticeAssumption, NoticeInvariant, NEW r \in Secretaries, NEW t \in NoticeEdit,
         Opened(r, t), t.op \in {"edit", "status", "delete"},
         t.op = "edit" => t.saw = notice.for, t.op = "status" => t.from = notice.status
  PROVE  NoticeInvariant'
<1>1. /\ editing[r] = NoEdit /\ notice # NoNotice /\ editing' = [editing EXCEPT ![r] = t]
      /\ rushed' = (rushed \/ \E q \in Secretaries : editing[q] # NoEdit)
      /\ UNCHANGED <<notice, sits, hour, heard, issues, lastFor>>
  BY DEF Opened
<1>2. editing \in [Secretaries -> NoticeEdit] /\ rushed \in BOOLEAN
  BY DEF NoticeInvariant, NoticeShape
<1>3. /\ editing' \in [Secretaries -> NoticeEdit] /\ editing'[r] = t
      /\ \A q \in Secretaries \ {r} : editing'[q] = editing[q]
  BY <1>1, <1>2
<1>4. ~rushed' => ~rushed /\ \A q \in Secretaries : editing[q] = NoEdit
  BY <1>1
<1>5. NoticeShape'
  BY <1>1, <1>2, <1>3 DEF NoticeInvariant, NoticeShape
<1>6. AloneKnowsTheNotice'
  BY <1>1, <1>3, <1>4 DEF AloneKnowsTheNotice
<1>7. AudienceIsTheLastForm'
  BY <1>1, <1>4 DEF NoticeInvariant, AudienceIsTheLastForm
<1> QED BY <1>5, <1>6, <1>7 DEF NoticeInvariant

LEMMA StartEditNoticeKeeps ==
  ASSUME NoticeAssumption, NoticeInvariant, NEW r \in Secretaries, NEW f \in NoticeForms,
         StartEditNotice(r, f)
  PROVE  NoticeInvariant'
<1> DEFINE t == [op |-> "edit", form |-> f, saw |-> notice.for]
<1>1. Opened(r, t) /\ notice # NoNotice
  BY DEF StartEditNotice, Opened
<1>2. notice.for \subseteq Targets
  BY <1>1, NoticeFields DEF NoticeInvariant
<1>3. t \in NoticeEdit
  BY <1>2 DEF NoticeEdit
<1>4. t.op = "edit" /\ t.saw = notice.for
  OBVIOUS
<1> HIDE DEF t
<1> QED BY <1>1, <1>3, <1>4, OpenedKeeps

LEMMA StartNoticeStatusKeeps ==
  ASSUME NoticeAssumption, NoticeInvariant, NEW r \in Secretaries, NEW to \in PublishStatuses,
         StartNoticeStatus(r, to)
  PROVE  NoticeInvariant'
<1> DEFINE t == [op |-> "status", to |-> to, from |-> notice.status]
<1>1. Opened(r, t) /\ notice # NoNotice
  BY DEF StartNoticeStatus, Opened
<1>2. notice.status \in PublishStatuses
  BY <1>1, NoticeFields DEF NoticeInvariant
<1>3. t \in NoticeEdit
  BY <1>2 DEF NoticeEdit
<1>4. t.op = "status" /\ t.from = notice.status
  OBVIOUS
<1> HIDE DEF t
<1> QED BY <1>1, <1>3, <1>4, OpenedKeeps

LEMMA StartDeleteNoticeKeeps ==
  ASSUME NoticeAssumption, NoticeInvariant, NEW r \in Secretaries, StartDeleteNotice(r)
  PROVE  NoticeInvariant'
<1> DEFINE t == [op |-> "delete"]
<1>1. Opened(r, t)
  BY DEF StartDeleteNotice
<1>2. t \in NoticeEdit /\ t.op = "delete"
  BY DEF NoticeEdit
<1> HIDE DEF t
<1> QED BY <1>1, <1>2, OpenedKeeps

\* An update alone: what it saw is what there is, and the form's audience takes its place.
LEMMA EditNoticeKeeps ==
  ASSUME NoticeAssumption, NoticeInvariant, NEW r \in Secretaries, EditNotice(r)
  PROVE  NoticeInvariant'
<1> DEFINE t == editing[r]
           now(q) == [editing[q] EXCEPT !.saw = editing[q].saw \ t.saw]
<1>1. /\ t.op = "edit" /\ notice # NoNotice
      /\ notice' = [status |-> notice.status, for |-> (notice.for \ t.saw) \cup t.form.for,
                    from |-> t.form.from, until |-> t.form.until]
      /\ lastFor' = t.form.for
      /\ editing' = [q \in Secretaries |-> IF q = r THEN NoEdit
           ELSE IF editing[q].op = "edit" THEN now(q) ELSE editing[q]]
      /\ UNCHANGED <<sits, hour, rushed, heard, issues>>
  BY DEF EditNotice, TargetsAfter
<1>2. /\ editing \in [Secretaries -> NoticeEdit] /\ t \in NoticeEdit /\ t.op # "none"
      /\ t.form \in NoticeForms /\ t.saw \subseteq Targets
  BY <1>1, NoticeEditFields DEF NoticeInvariant, NoticeShape
<1>3. t # NoEdit
  BY <1>2 DEF NoEdit
<1>4. notice' \in NoticeRow /\ notice' # NoNotice /\ notice'.for = (notice.for \ t.saw) \cup t.form.for
  <2>1. notice.status \in PublishStatuses /\ notice.for \subseteq Targets
    BY <1>1, NoticeFields DEF NoticeInvariant
  <2>2. t.form.for \subseteq Targets /\ t.form.from \in Nat /\ t.form.until \in Nat
    BY <1>2, FormFields
  <2>3. notice' \in NoticeRow
    BY <1>1, <2>1, <2>2 DEF NoticeRow
  <2>4. notice'.status \in PublishStatuses
    BY <2>3 DEF NoticeRow
  <2>5. notice' # NoNotice
    BY <2>4 DEF NoNotice, PublishStatuses
  <2> QED BY <1>1, <2>3, <2>5
<1>5. NoEdit \in NoticeEdit
  BY DEF NoticeEdit
<1>6. ASSUME NEW q \in Secretaries, editing[q].op = "edit"
      PROVE  now(q) \in NoticeEdit
  <2>1. editing[q] \in [op : {"edit"}, form : NoticeForms, saw : SUBSET Targets]
    BY <1>2, <1>6, NoticeEditFields
  <2>2. now(q) \in [op : {"edit"}, form : NoticeForms, saw : SUBSET Targets]
    BY <2>1
  <2> HIDE DEF now
  <2> QED BY <2>2 DEF NoticeEdit
<1> HIDE DEF now
<1>7. editing' \in [Secretaries -> NoticeEdit]
  <2>1. \A q \in Secretaries : editing[q] \in NoticeEdit
    BY <1>2
  <2>2. \A q \in Secretaries :
          (IF q = r THEN NoEdit ELSE IF editing[q].op = "edit" THEN now(q) ELSE editing[q]) \in NoticeEdit
    BY <1>5, <1>6, <2>1
  <2> QED BY <1>1, <2>2
<1>8. NoticeShape'
  BY <1>1, <1>4, <1>7 DEF NoticeInvariant, NoticeShape
<1>9. ASSUME ~rushed
      PROVE  notice.for = t.saw /\ \A q \in Secretaries : editing'[q] = NoEdit
  <2>1. notice.for = t.saw /\ \A q \in Secretaries \ {r} : editing[q] = NoEdit
    BY <1>1, <1>3, <1>9 DEF NoticeInvariant, AloneKnowsTheNotice
  <2>2. \A q \in Secretaries \ {r} : editing[q].op # "edit"
    BY <2>1 DEF NoEdit
  <2> QED BY <2>1, <2>2, <1>1
<1>10. AloneKnowsTheNotice'
  BY <1>1, <1>9 DEF AloneKnowsTheNotice
<1>11. AudienceIsTheLastForm'
  BY <1>1, <1>4, <1>9 DEF NoticeInvariant, AudienceIsTheLastForm
<1> QED BY <1>8, <1>10, <1>11 DEF NoticeInvariant

\* A request that ends, alone or not, where the audience and who was told stay.
LEMMA EditEndsKeeps ==
  ASSUME NoticeAssumption, NoticeInvariant, NEW r \in Secretaries, editing[r] # NoEdit,
         editing' = [editing EXCEPT ![r] = NoEdit], UNCHANGED <<hour, rushed>>,
         notice' \in {NoNotice} \cup NoticeRow, issues' \in Nat, heard' \in [Readers -> Nat],
         AudienceIsTheLastForm'
  PROVE  NoticeInvariant'
<1>1. editing \in [Secretaries -> NoticeEdit] /\ NoEdit \in NoticeEdit
  BY DEF NoticeInvariant, NoticeShape, NoticeEdit
<1>2. /\ editing' \in [Secretaries -> NoticeEdit] /\ editing'[r] = NoEdit
      /\ \A q \in Secretaries \ {r} : editing'[q] = editing[q]
  BY <1>1
<1>3. NoticeShape'
  BY <1>2 DEF NoticeInvariant, NoticeShape
<1>4. ~rushed => \A q \in Secretaries : editing'[q] = NoEdit
  BY <1>2 DEF NoticeInvariant, AloneKnowsTheNotice
<1>5. AloneKnowsTheNotice'
  BY <1>4 DEF AloneKnowsTheNotice
<1> QED BY <1>3, <1>5 DEF NoticeInvariant

LEMMA SetNoticeStatusKeeps ==
  ASSUME NoticeAssumption, NoticeInvariant, NEW r \in Secretaries, SetNoticeStatus(r)
  PROVE  NoticeInvariant'
<1> DEFINE t == editing[r]
           tell == [op |-> "tell", for |-> notice.for]
<1>1. /\ t.op = "status" /\ notice # NoNotice /\ notice' = [notice EXCEPT !.status = t.to]
      /\ issues' = IF t.to = "PUBLISHED" /\ notice.status # "PUBLISHED" THEN issues + 1 ELSE issues
      /\ editing' = [editing EXCEPT ![r] = IF Announces(t) THEN tell ELSE NoEdit]
      /\ UNCHANGED <<sits, hour, rushed, heard, lastFor>>
  BY DEF SetNoticeStatus, Closed
<1>2. /\ editing \in [Secretaries -> NoticeEdit] /\ {t.to, t.from} \subseteq PublishStatuses
      /\ issues \in Nat /\ heard \in [Readers -> Nat]
  BY <1>1, NoticeEditFields DEF NoticeInvariant, NoticeShape
<1>3. t # NoEdit
  BY <1>1 DEF NoEdit
<1>4. notice \in NoticeRow /\ notice.for \subseteq Targets
  BY <1>1, NoticeFields DEF NoticeInvariant
<1>5. notice' \in NoticeRow /\ notice'.for = notice.for
  BY <1>1, <1>2, <1>4 DEF NoticeRow
<1>6. issues' \in Nat /\ issues' >= issues
  BY <1>1, <1>2
<1>7. AudienceIsTheLastForm'
  <2> SUFFICES ASSUME ~rushed
               PROVE  notice'.for = lastFor /\ \A u \in Readers : heard[u] <= issues'
    BY <1>1 DEF AudienceIsTheLastForm
  <2>1. notice.for = lastFor /\ \A u \in Readers : heard[u] <= issues
    BY <1>1 DEF NoticeInvariant, AudienceIsTheLastForm
  <2> QED BY <2>1, <1>2, <1>5, <1>6
<1>8. CASE ~Announces(t)
  BY <1>1, <1>2, <1>3, <1>5, <1>6, <1>7, <1>8, EditEndsKeeps
<1>9. CASE Announces(t)
  <2>1. tell \in NoticeEdit /\ tell.op = "tell"
    BY <1>4 DEF NoticeEdit
  <2> HIDE DEF tell
  <2>2. /\ editing' \in [Secretaries -> NoticeEdit] /\ editing'[r] = tell
        /\ \A q \in Secretaries \ {r} : editing'[q] = editing[q]
    BY <2>1, <1>1, <1>2, <1>9
  <2>3. NoticeShape'
    BY <2>2, <1>1, <1>5, <1>6 DEF NoticeInvariant, NoticeShape
  <2>4. ASSUME ~rushed
        PROVE  /\ \A q \in Secretaries \ {r} : editing[q] = NoEdit
               /\ \A u \in Readers : heard[u] < issues'
    <3>1. /\ \A q \in Secretaries \ {r} : editing[q] = NoEdit
          /\ t.from = notice.status /\ \A u \in Readers : heard[u] <= issues
      BY <2>4, <1>1, <1>3 DEF NoticeInvariant, AloneKnowsTheNotice, AudienceIsTheLastForm
    <3>2. issues' = issues + 1
      BY <3>1, <1>1, <1>9 DEF Announces
    <3> QED BY <3>1, <3>2, <1>2
  <2>5. AloneKnowsTheNotice'
    BY <2>1, <2>2, <2>4, <1>1 DEF AloneKnowsTheNotice
  <2> QED BY <2>3, <2>5, <1>7 DEF NoticeInvariant
<1> QED BY <1>8, <1>9

LEMMA TellReadersKeeps ==
  ASSUME NoticeAssumption, NoticeInvariant, NEW r \in Secretaries, TellReaders(r)
  PROVE  NoticeInvariant'
<1>1. /\ editing[r].op = "tell" /\ editing' = [editing EXCEPT ![r] = NoEdit]
      /\ heard' = [u \in Readers |-> IF u \in Recipients(editing[r].for) THEN heard[u] + 1 ELSE heard[u]]
      /\ UNCHANGED <<sits, hour, rushed, notice, issues, lastFor>>
  BY DEF TellReaders, Closed
<1>2. editing[r] # NoEdit
  BY <1>1 DEF NoEdit
<1>3. heard \in [Readers -> Nat] /\ issues \in Nat /\ notice \in {NoNotice} \cup NoticeRow
  BY DEF NoticeInvariant, NoticeShape
<1>4. heard' \in [Readers -> Nat] /\ \A u \in Readers : heard'[u] <= heard[u] + 1
  BY <1>1, <1>3
<1>5. AudienceIsTheLastForm'
  <2> SUFFICES ASSUME ~rushed
               PROVE  /\ notice # NoNotice => notice.for = lastFor
                      /\ \A u \in Readers : heard'[u] <= issues
    BY <1>1 DEF AudienceIsTheLastForm
  <2>1. notice # NoNotice => notice.for = lastFor
    BY DEF NoticeInvariant, AudienceIsTheLastForm
  <2>2. \A u \in Readers : heard[u] < issues
    BY <1>1, <1>2 DEF NoticeInvariant, AloneKnowsTheNotice
  <2>3. \A u \in Readers : heard'[u] <= issues
    BY <2>2, <1>3, <1>4
  <2> QED BY <2>1, <2>3
<1> QED BY <1>1, <1>2, <1>3, <1>4, <1>5, EditEndsKeeps

LEMMA TellingFailsKeeps ==
  ASSUME NoticeAssumption, NoticeInvariant, NEW r \in Secretaries, TellingFails(r)
  PROVE  NoticeInvariant'
<1>1. /\ editing[r].op = "tell" /\ editing' = [editing EXCEPT ![r] = NoEdit]
      /\ UNCHANGED <<hour, rushed, heard, issues, lastFor, notice>>
  BY DEF TellingFails, Closed
<1>2. editing[r] # NoEdit
  BY <1>1 DEF NoEdit
<1>3. AudienceIsTheLastForm'
  BY <1>1 DEF NoticeInvariant, AudienceIsTheLastForm
<1>4. notice' \in {NoNotice} \cup NoticeRow /\ issues' \in Nat /\ heard' \in [Readers -> Nat]
  BY <1>1 DEF NoticeInvariant, NoticeShape
<1> QED BY <1>1, <1>2, <1>3, <1>4, EditEndsKeeps

LEMMA DeleteNoticeKeeps ==
  ASSUME NoticeAssumption, NoticeInvariant, NEW r \in Secretaries, DeleteNotice(r)
  PROVE  NoticeInvariant'
<1>1. /\ editing[r].op = "delete" /\ editing' = [editing EXCEPT ![r] = NoEdit] /\ notice' = NoNotice
      /\ UNCHANGED <<hour, rushed, heard, issues, lastFor>>
  BY DEF DeleteNotice, Closed
<1>2. editing[r] # NoEdit
  BY <1>1 DEF NoEdit
<1>3. AudienceIsTheLastForm'
  BY <1>1 DEF NoticeInvariant, AudienceIsTheLastForm
<1>4. notice' \in {NoNotice} \cup NoticeRow /\ issues' \in Nat /\ heard' \in [Readers -> Nat]
  BY <1>1 DEF NoticeInvariant, NoticeShape
<1> QED BY <1>1, <1>2, <1>3, <1>4, EditEndsKeeps

LEMMA NoticeRefusedKeeps ==
  ASSUME NoticeAssumption, NoticeInvariant, NEW r \in Secretaries, NoticeRefused(r)
  PROVE  NoticeInvariant'
<1>1. /\ editing[r].op \in {"edit", "status", "delete"} /\ editing' = [editing EXCEPT ![r] = NoEdit]
      /\ UNCHANGED <<hour, rushed, heard, issues, lastFor, notice>>
  BY DEF NoticeRefused, Closed
<1>2. editing[r] # NoEdit
  BY <1>1 DEF NoEdit
<1>3. AudienceIsTheLastForm'
  BY <1>1 DEF NoticeInvariant, AudienceIsTheLastForm
<1>4. notice' \in {NoNotice} \cup NoticeRow /\ issues' \in Nat /\ heard' \in [Readers -> Nat]
  BY <1>1 DEF NoticeInvariant, NoticeShape
<1> QED BY <1>1, <1>2, <1>3, <1>4, EditEndsKeeps

\* Where readers sit and what hour it is say nothing of the notice.
LEMMA AroundTheNoticeKeeps ==
  ASSUME NoticeInvariant, UNCHANGED <<notice, editing, heard, issues, lastFor, rushed>>, hour' \in Nat
  PROVE  NoticeInvariant'
BY DEF NoticeInvariant, NoticeShape, AloneKnowsTheNotice, AudienceIsTheLastForm

LEMMA NoticeStepHolds ==
  ASSUME NoticeAssumption, NoticeInvariant, [NoticeNext]_noticeVars
  PROVE  NoticeInvariant'
<1>1. ASSUME NEW r \in Secretaries,
             \/ \E f \in NoticeForms : StartEditNotice(r, f)
             \/ \E to \in PublishStatuses : StartNoticeStatus(r, to)
             \/ StartDeleteNotice(r) \/ EditNotice(r) \/ SetNoticeStatus(r) \/ TellReaders(r) \/ TellingFails(r)
             \/ DeleteNotice(r) \/ NoticeRefused(r)
      PROVE  NoticeInvariant'
  BY <1>1, StartEditNoticeKeeps, StartNoticeStatusKeeps, StartDeleteNoticeKeeps, EditNoticeKeeps,
     SetNoticeStatusKeeps, TellReadersKeeps, TellingFailsKeeps, DeleteNoticeKeeps, NoticeRefusedKeeps
<1>2. hour \in Nat
  BY DEF NoticeInvariant, NoticeShape
<1>3. ASSUME NEW u \in Learners, NEW c \in Classrooms, ChangeSeat(u, c)
      PROVE  NoticeInvariant'
  BY <1>2, <1>3, AroundTheNoticeKeeps DEF ChangeSeat
<1>4. ASSUME NextHour PROVE NoticeInvariant'
  BY <1>2, <1>4, AroundTheNoticeKeeps DEF NextHour
<1>5. CASE UNCHANGED noticeVars
  BY <1>2, <1>5, AroundTheNoticeKeeps DEF noticeVars
<1> QED BY <1>1, <1>3, <1>4, <1>5 DEF NoticeNext

\* For any readers, forms and hours: the notice's page and the feed agree on every
\* reader at every hour (notices.service.ts:676); and until two requests overlap the
\* audience is that of the last form, and nobody was told more often than the notice
\* came out.
THEOREM NoticeIsSoundHolds == NoticeSpec => []NoticeIsSound
<1> USE NoticeAssumption
<1>1. NoticeInit => NoticeInvariant
  BY NoticeInitHolds
<1>2. NoticeInvariant /\ [NoticeNext]_noticeVars => NoticeInvariant'
  BY NoticeStepHolds
<1>3. NoticeInvariant => NoticeIsSound
  BY FeedIsThePolicy DEF NoticeInvariant, NoticeIsSound
<1> QED BY <1>1, <1>2, <1>3, PTL DEF NoticeSpec

==============================================================================
