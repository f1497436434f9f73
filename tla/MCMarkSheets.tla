---------------------------- MODULE MCMarkSheets ----------------------------
(* MarkSheets with small values, for TLC. *)
EXTENDS MarkSheets, TLC

\* Two sections of one programme; one paper, which may be set again out of less.
OneProgramme == [year1 |-> [medical |-> {"english"}]]
Sheet(max) == [class |-> "year1", program |-> NoProgram, subject |-> "english", date |-> 1,
               start |-> 9, end |-> 11, max |-> max]
OneForm == {Sheet(2)}
TwoMaxima == {Sheet(1), Sheet(2)}
NoExamForms == {}

BothMedical == [c \in Sections |-> [class |-> "year1", program |-> "medical"]]

CONSTANTS c1, c2, s1, s2
OneEach == (s1 :> c1) @@ (s2 :> c2)

BlankOrFull == {[status |-> "PENDING", obtained |-> Nothing], [status |-> "ENTERED", obtained |-> 2]}

NoDeadline == {NoDate}
FirstDayOrNone == {0, NoDate}
Withdrawals == {"withdraw", "publish", "edit", "remove", "deadline"}
NoOps == {}
=============================================================================
