-------------------------- MODULE MCMarksAndAccess --------------------------
(* MarkSheets and AccountAccess with small values, for TLC. The sheets of an exam
   and the sign-ins of one account share no state: a behaviour follows one of the
   two, and the other stays as it began, where time has nothing to count down, so
   that its fairness asks for nothing. *)
EXTENDS MCMarkSheets, AccountAccess

VARIABLE followed

\* Of the exams there may be, one stands for those that are not followed.
MarksOrAccessInit ==
  /\ followed \in {"marks", "access"} /\ MarkInit /\ AccessInit
  /\ followed = "access" => exam.deadline = NoDate /\ \A p \in DOMAIN papers : papers[p].max = 1
MarksOrAccessNext ==
  \/ followed = "marks" /\ MarkNext /\ UNCHANGED <<followed, accessVars>>
  \/ followed = "access" /\ AccessNext /\ UNCHANGED <<followed, allMarkVars>>

MarksOrAccessSpec ==
  /\ MarksOrAccessInit /\ [][MarksOrAccessNext]_<<followed, allMarkVars, accessVars>>
  /\ AccessFairness
=============================================================================
