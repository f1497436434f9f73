----------------------------- MODULE MCResults -----------------------------
(* Results with small values, for TLC; the exam's are those of MCMarkSheets. *)
EXTENDS Results, TLC

OneProgramme == [year1 |-> [medical |-> {"english"}]]
OneForm == {[class |-> "year1", program |-> NoProgram, subject |-> "english", date |-> 1,
             start |-> 9, end |-> 11, max |-> 2]}
NoExamForms == {}
NoDeadline == {NoDate}
NoOps == {}

OneGroup == [c \in Sections |-> [class |-> "year1", program |-> "medical"]]
CONSTANTS c1, c2, s1, s2
OneEach == (s1 :> c1) @@ (s2 :> c2)
Together == [s \in Students |-> c1]

HalfOrFull == {[status |-> "ENTERED", obtained |-> 1], [status |-> "ENTERED", obtained |-> 2]}
FullMarks == {[status |-> "ENTERED", obtained |-> 2]}

PassOrNot == {[grade |-> "A", min |-> 5000], [grade |-> "F", min |-> 0]}

RegistrarSymmetry == Permutations(Registrars) \cup Permutations(Markers)
=============================================================================
