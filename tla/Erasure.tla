-------------------------------- MODULE Erasure --------------------------------
(***************************************************************************)
(* People, the logins linked to them, and their erasure for good:          *)
(* deletion.service.ts over admin/deletion-policy.ts and the foreign keys  *)
(* of the tables that point at a student, a member of staff or a user;     *)
(* linkStudentAccount, linkStaffAccount and their unlink. What points at a *)
(* record is counted first; the record goes in one transaction after that. *)
(***************************************************************************)
EXTENDS Naturals

CONSTANTS Pupils,    \* students
          Employees, \* members of staff
          Logins,    \* accounts of the role each person needs
          Clerks,    \* bound: requests there may be at once
          NoLogin

ASSUME ErasureAssumption == NoLogin \notin Logins /\ Pupils \cap Employees = {}

VARIABLES
  present,  \* the people there are
  logins,   \* the accounts there are
  linked,   \* students.user_id, staff.user_id
  refs,     \* what points at each person
  acted,    \* accounts with an audit entry of their own
  errand,   \* the request each clerk has in flight
  beside    \* history: a request wrote after another had changed what it had read

erasureVars == <<present, logins, linked, refs, acted, errand, beside>>

Persons == Pupils \cup Employees

\* work: attendance, marks, results, vouchers, lessons and the like, which the
\* database refuses to lose (RESTRICT); papers go with their owner (CASCADE). A
\* student's fee plan (student_fee_lines) goes too, and a teacher's in-charge rows
\* (section_incharges) refuse; neither is counted.
RefKinds(p) == {"work", "papers"} \cup (IF p \in Pupils THEN {"plan"} ELSE {"charge"})
Restricting == {"work", "charge"}

NoErrand == [op |-> "none"]

\* Faulty variant of RefsInTheWay: papers are not counted.
RefsInTheWayButPapers(p) == refs[p] \cap {"work"}

\* studentBlockers, staffBlockers
RefsInTheWay(p) == refs[p] \cap {"work", "papers"}

---------------------------------------------------------------------------
ErasureInit ==
  /\ present = Persons /\ logins = Logins /\ linked = [p \in Persons |-> NoLogin]
  /\ refs = [p \in Persons |-> {}] /\ acted = {}
  /\ errand = [r \in Clerks |-> NoErrand] /\ beside = FALSE

\* What anybody writes, the others in flight have not seen.
Unseen(r, t) ==
  [q \in Clerks |-> IF q = r THEN t
     ELSE IF errand[q] = NoErrand THEN NoErrand ELSE [errand[q] EXCEPT !.late = TRUE]]

Begun(r, t) ==
  /\ errand[r] = NoErrand /\ errand' = [errand EXCEPT ![r] = t]
  /\ UNCHANGED <<present, logins, linked, refs, acted, beside>>

ErasureDone(r) == errand' = Unseen(r, NoErrand) /\ beside' = (beside \/ errand[r].late)

\* The college goes on: a record about a person, an act of an account.
Refer(p, k) ==
  /\ p \in present /\ k \notin refs[p] /\ refs' = [refs EXCEPT ![p] = @ \cup {k}]
  /\ errand' = Unseen("college", NoErrand)
  /\ UNCHANGED <<present, logins, linked, acted, beside>>

Act(a) ==
  /\ a \in logins \ acted /\ acted' = acted \cup {a} /\ errand' = Unseen("college", NoErrand)
  /\ UNCHANGED <<present, logins, linked, refs, beside>>

\* A free person and a free account, found before the write; user_id is unique.
StartLink(r, p, a) ==
  /\ p \in present /\ a \in logins /\ linked[p] = NoLogin /\ \A q \in present : linked[q] # a
  /\ Begun(r, [op |-> "link", p |-> p, a |-> a, late |-> FALSE])

WriteLink(r) ==
  LET t == errand[r]
      fits == t.p \in present /\ t.a \in logins /\ \A q \in present \ {t.p} : linked[q] # t.a
  IN  /\ t.op = "link" /\ ErasureDone(r)
      /\ \/ fits /\ linked' = [linked EXCEPT ![t.p] = t.a]
         \/ ~fits /\ UNCHANGED linked
      /\ UNCHANGED <<present, logins, refs, acted>>

Unlink(p) ==
  /\ p \in present /\ linked[p] # NoLogin /\ linked' = [linked EXCEPT ![p] = NoLogin]
  /\ errand' = Unseen("college", NoErrand)
  /\ UNCHANGED <<present, logins, refs, acted, beside>>

\* "erasing a student must not quietly erase an account that has acted".
LoginMayGo(a) == a \notin acted

StartErase(r, p) ==
  /\ p \in present /\ RefsInTheWay(p) = {} /\ LoginMayGo(linked[p])
  /\ Begun(r, [op |-> "erase", p |-> p, a |-> linked[p], late |-> FALSE])

\* The account that was read with the person.
LoginErased(t) == {t.a} \ {NoLogin}

\* students.user_id and staff.user_id are ON DELETE SET NULL.
LinksAfter(t) == [q \in Persons |-> IF q = t.p \/ linked[q] \in LoginErased(t) THEN NoLogin ELSE linked[q]]

\* deleteStudent, deleteStaff: placement, person, sessions, account; its
\* acts lose their name (audit_logs.actor_user_id, SET NULL).
Erase(r) ==
  LET t == errand[r]
      fits == t.p \in present /\ refs[t.p] \cap Restricting = {} /\ LoginErased(t) \subseteq logins
  IN  /\ t.op = "erase" /\ ErasureDone(r)
      /\ \/ /\ fits /\ present' = present \ {t.p} /\ logins' = logins \ LoginErased(t)
            /\ linked' = LinksAfter(t)
            /\ refs' = [refs EXCEPT ![t.p] = {}] /\ acted' = acted \ LoginErased(t)
         \/ ~fits /\ UNCHANGED <<present, logins, linked, refs, acted>>

ErasureNext ==
  \/ \E p \in Persons :
       \/ \E k \in RefKinds(p) : Refer(p, k)
       \/ \E r \in Clerks : StartErase(r, p) \/ \E a \in Logins : StartLink(r, p, a)
       \/ Unlink(p)
  \/ \E a \in Logins : Act(a)
  \/ \E r \in Clerks : WriteLink(r) \/ Erase(r)

ErasureSpec == ErasureInit /\ [][ErasureNext]_erasureVars

---------------------------------------------------------------------------
\* Properties.

\* Links and references are of their types; nothing points at who is gone.
ErasureTypeOK ==
  /\ present \subseteq Persons /\ logins \subseteq Logins /\ acted \subseteq logins
  /\ \A p \in Persons : linked[p] \in logins \cup {NoLogin} /\ refs[p] \subseteq RefKinds(p)
  /\ \A p \in Persons \ present : linked[p] = NoLogin /\ refs[p] = {}

\* "Everything that says what happened blocks" (deletion-policy.ts): work is never
\* erased, papers are not, unless they were handed in while the erasure ran.
HistoryBlocks ==
  [][\A p \in present : p \notin present' =>
       "work" \notin refs[p] /\ (~beside' => "papers" \notin refs[p])]_erasureVars

\* "an audit entry must not lose the name of who acted because that account was
\* removed a year later" (deletion-policy.ts), nor does a living person lose the
\* login that is theirs, unless a request wrote beside the erasure.
LoginsAreNotLost ==
  [][~beside' => \A a \in logins : a \notin logins' =>
       a \notin acted /\ \E p \in Persons : linked[p] = a /\ p \notin present']_erasureVars

\* Erasing a person takes nothing that says what happened, and no login but theirs.
NothingIsLost == []ErasureTypeOK /\ HistoryBlocks /\ LoginsAreNotLost
=============================================================================
