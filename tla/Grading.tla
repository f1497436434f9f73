------------------------------ MODULE Grading ------------------------------
(***************************************************************************)
(* How a result is worked out: src/src/server/exams/grading.ts and         *)
(* exact.ts. Marks and percentages are whole numbers of hundredths.        *)
(*                                                                         *)
(* A subject is a record [max, passing, status, obtained], where obtained  *)
(* is Nothing while the status is PENDING; a student's subjects are a      *)
(* function from paper ids. Bands is a set of [grade, min].                *)
(***************************************************************************)
EXTENDS Integers, FiniteSets, Functions

\* null: no mark, no grade, no percentage, no position.
Nothing == -1
NoGrade == "none"

OverallPassingPercentage == 5000

\* A hundred per cent.
AllOfIt == 10000

---------------------------------------------------------------------------
\* exact.ts

\* The percentage that is stored and shown, half up.
PercentageHundredths(obtained, max) ==
  LET n == obtained * 10000
  IN  IF (n % max) * 2 >= max THEN n \div max + 1 ELSE n \div max

\* Faulty variant of ReachesPercentage: it asks the rounded percentage.
ReachesRounded(obtained, max, threshold) == PercentageHundredths(obtained, max) >= threshold

\* What a pass and a grade are decided on: never rounded.
ReachesPercentage(obtained, max, threshold) == obtained * 10000 >= threshold * max

---------------------------------------------------------------------------
\* One subject, and a student's whole result

\* The highest band the mark reaches, by its lower bound.
FindGrade(bands, obtained, max) ==
  LET reached == {b \in bands : ReachesPercentage(obtained, max, b.min)}
  IN  IF reached = {} THEN NoGrade
      ELSE (CHOOSE b \in reached : \A c \in reached : c.min <= b.min).grade

SubjectOutcome(x) ==
  CASE x.status = "PENDING" -> "PENDING"
    [] x.status = "ENTERED" /\ ReachesPercentage(x.obtained, x.max, x.passing) -> "PASS"
    [] OTHER -> "FAIL"

CalculateSubject(x, bands) ==
  IF x.status = "PENDING"
  THEN [outcome |-> "PENDING", percentage |-> Nothing, grade |-> NoGrade]
  ELSE [outcome |-> SubjectOutcome(x),
        percentage |-> PercentageHundredths(x.obtained, x.max),
        grade |-> FindGrade(bands, x.obtained, x.max)]

Marked(subjects) == {p \in DOMAIN subjects : subjects[p].status # "PENDING"}
TotalObtained(subjects) == SumFunctionOnSet([p \in DOMAIN subjects |-> subjects[p].obtained], Marked(subjects))

\* Every paper the student was due to sit, those with no mark yet included.
TotalMax(subjects) == SumFunction([p \in DOMAIN subjects |-> subjects[p].max])

CalculateResult(subjects, bands) ==
  LET outcomes == {SubjectOutcome(subjects[p]) : p \in DOMAIN subjects}
      obtained == TotalObtained(subjects)
      max == TotalMax(subjects)
      passed == "FAIL" \notin outcomes /\ ReachesPercentage(obtained, max, OverallPassingPercentage)
      outcome == IF "PENDING" \in outcomes THEN "INCOMPLETE" ELSE IF passed THEN "PASS" ELSE "FAIL"
  IN  [totalMax |-> max, totalObtained |-> obtained, outcome |-> outcome,
       percentage |-> PercentageHundredths(obtained, max),
       grade |-> IF outcome = "INCOMPLETE" THEN NoGrade ELSE FindGrade(bands, obtained, max)]

---------------------------------------------------------------------------
\* Positions. `results` is a function from students to [outcome, totalObtained, ...].

\* Faulty variant of Before: those who failed come first.
BeforeFailing(a, b) ==
  \/ a.outcome # "PASS" /\ b.outcome = "PASS"
  \/ (a.outcome = "PASS" <=> b.outcome = "PASS") /\ a.totalObtained > b.totalObtained

\* The order of the sort: passing students first, then the higher total.
Before(a, b) ==
  \/ a.outcome = "PASS" /\ b.outcome # "PASS"
  \/ (a.outcome = "PASS" <=> b.outcome = "PASS") /\ a.totalObtained > b.totalObtained

\* What the loop compares: neither the group nor the total changes.
Tied(a, b) == (a.outcome = "PASS" <=> b.outcome = "PASS") /\ a.totalObtained = b.totalObtained

\* A sort: nobody stands behind one who comes later in the order.
Sorted(ranked, results) ==
  CHOOSE order \in Injection(1 .. Cardinality(ranked), ranked) :
    \A i, j \in 1 .. Cardinality(ranked) : i < j => ~Before(results[order[j]], results[order[i]])

\* A tie shares a position, that of the first of it, and consumes the ones behind it.
PositionAlong(order, results, i) ==
  CHOOSE k \in 1 .. i :
    /\ k = 1 \/ ~Tied(results[order[k - 1]], results[order[k]])
    /\ \A j \in k + 1 .. i : Tied(results[order[j - 1]], results[order[j]])

AssignPositions(results) ==
  LET ranked == {s \in DOMAIN results : results[s].outcome # "INCOMPLETE"}
      order == Sorted(ranked, results)
      place(s) == CHOOSE i \in 1 .. Cardinality(ranked) : order[i] = s
  IN  [s \in DOMAIN results |-> IF s \in ranked THEN PositionAlong(order, results, place(s)) ELSE Nothing]

\* Faulty variant of RankingGroupKey: a class ranked across its programmes.
RankingKeyOfClass(scope, place) ==
  CASE scope = "SECTION" -> <<place.section>>
    [] scope = "CLASS" -> <<place.class>>
    [] OTHER -> <<place.class, place.division, place.program>>

\* place is [class, division, program, section]; the first three are the group.
RankingGroupKey(scope, place) ==
  CASE scope = "SECTION" -> <<place.section>>
    [] scope = "CLASS" -> <<place.class, place.program>>
    [] OTHER -> <<place.class, place.division, place.program>>

\* One ranking for each group of students with the same key.
AssignPositionsByScope(results, places, scope) ==
  [s \in DOMAIN results |->
     LET peers == {t \in DOMAIN results :
                     RankingGroupKey(scope, places[t]) = RankingGroupKey(scope, places[s])}
     IN  AssignPositions([t \in peers |-> results[t]])[s]]
=============================================================================
