---------------------------- MODULE StaffRegister ----------------------------
(***************************************************************************)
(* The staff's own register of one day: saveStaffAttendance of             *)
(* staff-attendance.service.ts. One transaction holds an upsert for every  *)
(* entry, in the order of the form; a row that is written stays locked     *)
(* until the commit, and PostgreSQL breaks a circle of waits by undoing    *)
(* one of the transactions.                                                *)
(***************************************************************************)
EXTENDS Naturals, Sequences, FiniteSets

CONSTANTS Colleagues,  \* staff employed that day
          Recorders,     \* bound: saves there may be at once
          RegisterForms,   \* bound: the forms: sequences of [who, mark]
          MaxSaves     \* bound: saves that are ever committed

ASSUME FormAssumption ==
  /\ MaxSaves \in Nat
  /\ \A f \in RegisterForms :
       /\ Len(f) \in Nat \ {0} /\ DOMAIN f = 1..Len(f)
       /\ \A i \in 1..Len(f) : f[i].who \in Colleagues

VARIABLES
  marks,    \* staff -> mark of the day, "NONE" without a row
  saving,   \* office -> its form and the entries upserted so far
  saved     \* history: the forms committed, in that order

staffRegisterVars == <<marks, saving, saved>>

NoSave == [form |-> <<>>, at |-> 0]
Saving == {o \in Recorders : saving[o] # NoSave}
NextOf(o) == saving[o].form[saving[o].at + 1].who
Whole(o) == saving[o].at = Len(saving[o].form)

\* Faulty variant of Locked: no transaction around the upserts.
NothingLocked(o) == {}

\* The rows a save has written and not committed.
Locked(o) == {saving[o].form[i].who : i \in 1..saving[o].at}

\* The saves o waits for: nobody writes a row that another save holds.
WaitsFor(o) == IF Whole(o) THEN {} ELSE {q \in Saving \ {o} : NextOf(o) \in Locked(q)}

Last(is) == CHOOSE i \in is : \A j \in is : j <= i

WithEntries(old, form, n) ==
  [w \in Colleagues |-> LET is == {i \in 1..n : form[i].who = w}
                        IN  IF is = {} THEN old[w] ELSE form[Last(is)].mark]

---------------------------------------------------------------------------
StaffRegisterInit ==
  marks = [w \in Colleagues |-> "NONE"] /\ saving = [o \in Recorders |-> NoSave] /\ saved = <<>>

\* The date and the roster allow it; the marks read here go to the audit log only.
StartSave(o, form) ==
  /\ saving[o] = NoSave /\ saving' = [saving EXCEPT ![o] = [form |-> form, at |-> 0]]
  /\ UNCHANGED <<marks, saved>>

MayUpsert(o) == o \in Saving /\ ~Whole(o) /\ WaitsFor(o) = {}

\* Upserts without a lock are seen at once.
UpsertMark(o) ==
  /\ MayUpsert(o)
  /\ saving' = [saving EXCEPT ![o].at = @ + 1]
  /\ marks' = IF NextOf(o) \in Locked(o)' THEN marks
              ELSE [marks EXCEPT ![NextOf(o)] = saving[o].form[saving[o].at + 1].mark]
  /\ UNCHANGED saved

MayCommit(o) == o \in Saving /\ Whole(o) /\ Len(saved) < MaxSaves

CommitSave(o) ==
  /\ MayCommit(o)
  /\ marks' = [w \in Colleagues |-> IF w \in Locked(o) THEN WithEntries(marks, saving[o].form, saving[o].at)[w] ELSE marks[w]]
  /\ saved' = Append(saved, saving[o].form) /\ saving' = [saving EXCEPT ![o] = NoSave]

\* A set of saves of which every one waits for another.
Circle(o) ==
  \E S \in SUBSET Saving : o \in S /\ \A q \in S : WaitsFor(q) \cap S # {}

\* deadlock_timeout: one save of the circle is undone, and nothing of it was written.
UndoSave(o) ==
  /\ Circle(o) /\ saving' = [saving EXCEPT ![o] = NoSave]
  /\ UNCHANGED <<marks, saved>>

StaffRegisterNext ==
  \E o \in Recorders : (\E f \in RegisterForms : StartSave(o, f)) \/ UpsertMark(o) \/ CommitSave(o) \/ UndoSave(o)

StaffRegisterSpec == StaffRegisterInit /\ [][StaffRegisterNext]_staffRegisterVars
---------------------------------------------------------------------------
\* Properties.

\* What these forms say of a day, one after the other: of each colleague, the last
\* entry of the last form that names the colleague.
FormsNaming(w, forms) == {k \in 1..Len(forms) : \E i \in 1..Len(forms[k]) : forms[k][i].who = w}

Replay(forms) ==
  [w \in Colleagues |->
     LET naming == FormsNaming(w, forms)
         form == forms[Last(naming)]
     IN  IF naming = {} THEN "NONE"
         ELSE form[Last({i \in 1..Len(form) : form[i].who = w})].mark]

\* However saves of a day overlap, and whichever the database undoes, the day is
\* what the saves that went through say, each whole and one after the other: no
\* form is half there, and no mark is lost ("a day that was marked stays marked",
\* staff-attendance.service.ts). No set of saves is left waiting for each other,
\* in whatever order their forms name the staff.
DayIsTheSavesInOrder ==
  /\ marks = Replay(saved)
  /\ Saving # {} /\ Len(saved) < MaxSaves =>
       \E o \in Recorders : MayUpsert(o) \/ MayCommit(o) \/ Circle(o)
=============================================================================
