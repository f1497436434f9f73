-------------------------- MODULE MCExamsAndGrades --------------------------
(* Exams and GradeBook with small values, for TLC. The grade book of a finished
   exam shares no state with the exams being set: a behaviour follows one of the
   two, and the other stays as it began. *)
EXTENDS MCExams, GradeBook

\* Two programmes of one class: English for both, biology for the medical students
\* alone. Of 150.03, 50.00 is just short of 33.33 per cent, and 75.01 just short of
\* 50, which is what both round to.
TwoPapers ==
  [english |-> [class |-> "year1", program |-> AllProgrammes, max |-> 15003, passing |-> 3333],
   biology |-> [class |-> "year1", program |-> "medical", max |-> 5000, passing |-> 4000]]

\* Three medical students of one section, and one of the other programme.
CONSTANTS s1, s2, s3, s4
InTwoProgrammes ==
  LET In(program, section) ==
        [class |-> "year1", division |-> "boys", program |-> program, section |-> section]
  IN  [s \in {s1, s2, s3} |-> In("medical", "A")] @@ (s4 :> In("ics", "B"))

FewBands == {[grade |-> "A", min |-> 8000], [grade |-> "D", min |-> 5000], [grade |-> "F", min |-> 0]}

\* Just short of a pass in English and all of biology; just short of half of English,
\* which for a student of English alone is just short of a pass and of a D; all of it.
FewValues == {5000, 7501, 15003}

VARIABLE followed

FollowedInit == followed \in {"exams", "grades"} /\ ExamInit /\ GradeInit
FollowedNext ==
  \/ followed = "exams" /\ ExamNext /\ UNCHANGED <<followed, book, results>>
  \/ followed = "grades" /\ GradeNext /\ UNCHANGED <<followed, examVars>>
FollowedSpec == FollowedInit /\ [][FollowedNext]_<<followed, examVars, book, results>>

Alike == OfficeSymmetry \cup Permutations({s1, s2, s3})
=============================================================================
