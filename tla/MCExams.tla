------------------------------ MODULE MCExams ------------------------------
(* Exams with small values, for TLC. *)
EXTENDS Exams, TLC

\* First year runs two programmes; English is common to both, physics is not.
BothYears == [year1 |-> [medical |-> {"english", "biology"}, ics |-> {"english", "physics"}],
              year2 |-> [medical |-> {"english"}]]

Form(g, s, d, from, to) ==
  [class |-> "year1", program |-> g, subject |-> s, date |-> d, start |-> from, end |-> to, max |-> 1]

\* English for all or for one programme, on the first day or undated, and
\* another subject at overlapping, touching and unknown hours.
EnglishAndMore ==
  {Form(NoProgram, "english", 1, 9, 11), Form("medical", "english", 1, 9, 11),
   Form("medical", "biology", 1, 10, NoTime), Form("medical", "biology", 2, NoTime, NoTime),
   Form("ics", "physics", NoDate, 11, 12), Form("ics", "biology", 1, 9, 10),
   [Form(NoProgram, "english", 1, 9, 11) EXCEPT !.class = "year2"]}

\* One subject for all and for one programme.
TwoForms == {Form(NoProgram, "english", 1, 9, 11), Form("medical", "english", 2, 9, 11)}

AnyDates == {[start |-> NoDate, end |-> NoDate]}
SomeDates == {[start |-> 1, end |-> 1], [start |-> 2, end |-> NoDate], [start |-> NoDate, end |-> NoDate]}
NoDeadline == {NoDate}
EarlyOrNone == {1, NoDate}

AllOps == {"update", "deadline", "create", "edit", "remove", "publish", "withdraw", "cancel",
           "restore", "delete"}

\* Bound: OneWriter, in every state.
OneAtATime == OneWriter'

OfficeSymmetry == Permutations(Papers) \cup Permutations(Office)
=============================================================================
