----------------------------- MODULE GradeBook -----------------------------
(***************************************************************************)
(* The marks of one exam as they come in, and the figures every generation *)
(* of its results would store: results.service.ts over grading.ts. A mark  *)
(* may be entered, corrected, or taken back to PENDING, in any order.      *)
(***************************************************************************)
EXTENDS Grading

CONSTANTS Students,
          PaperOf,     \* id -> [class, program, max, passing]
          Places,     \* student -> [class, division, program, section]
          Bands, Scope,
          MarkValues  \* bound: the marks entered, those no paper's maximum allows among them

AllProgrammes == "all programmes"

\* What the tables hold: the rows are finitely many, a paper has marks to give, ...
ASSUME PapersAssumption ==
  /\ IsFiniteSet(DOMAIN PaperOf)
  /\ \A p \in DOMAIN PaperOf : PaperOf[p].max \in Nat \ {0} /\ PaperOf[p].passing \in 0 .. AllOfIt

\* ... the bands of the grading scale have a grade and a lower bound each of their own, ...
ASSUME BandsAssumption ==
  /\ \A b \in Bands : b.min \in 0 .. AllOfIt /\ b.grade # NoGrade
  /\ \A b, c \in Bands : b.grade = c.grade \/ b.min = c.min => b = c

\* ... and a section belongs to one group, so to one class, division and programme.
ASSUME PlacesAssumption ==
  /\ IsFiniteSet(Students) /\ Scope \in {"SECTION", "GROUP", "CLASS"} /\ MarkValues \subseteq Nat
  /\ \A s, t \in Students :
       Places[s].section = Places[t].section =>
         /\ Places[s].class = Places[t].class /\ Places[s].division = Places[t].division
         /\ Places[s].program = Places[t].program

VARIABLES
  book,     \* per student, per paper the student sits: [status, obtained]
  results   \* per student, what calculateResult makes of the student's marks

\* papersFor.
PapersFor(s) == {p \in DOMAIN PaperOf :
                   /\ PaperOf[p].class = Places[s].class
                   /\ PaperOf[p].program \in {AllProgrammes, Places[s].program}}

\* generateResults leaves out a student who sits no paper.
ASSUME EligibleAssumption == \A s \in Students : PapersFor(s) # {}

Unmarked == [status |-> "PENDING", obtained |-> Nothing]

\* What generateResults hands to calculateResult for a student with these marks.
SubjectsOf(s, rows) ==
  [p \in PapersFor(s) |-> [max |-> PaperOf[p].max, passing |-> PaperOf[p].passing,
                           status |-> rows[p].status, obtained |-> rows[p].obtained]]

Calculated(s, rows) == CalculateResult(SubjectsOf(s, rows), Bands)

GradeInit ==
  /\ book = [s \in Students |-> [p \in PapersFor(s) |-> Unmarked]]
  /\ results = [s \in Students |-> Calculated(s, book[s])]

\* The rows normaliseRows lets through.
Rows(p) == {Unmarked, [status |-> "ABSENT", obtained |-> 0]}
           \cup {[status |-> "ENTERED", obtained |-> v] : v \in {w \in MarkValues : w <= PaperOf[p].max}}

Mark(s, p, row) ==
  /\ p \in PapersFor(s) /\ row \in Rows(p)
  /\ book' = [book EXCEPT ![s][p] = row]
  /\ results' = [results EXCEPT ![s] = Calculated(s, [book[s] EXCEPT ![p] = row])]

GradeNext == \E s \in Students, p \in DOMAIN PaperOf : \E row \in Rows(p) : Mark(s, p, row)

GradeSpec == GradeInit /\ [][GradeNext]_<<book, results>>

\* The positions a generation would give now.
Positions == AssignPositionsByScope(results, Places, Scope)

---------------------------------------------------------------------------
\* Properties.

Peers(s, t) == RankingGroupKey(Scope, Places[s]) = RankingGroupKey(Scope, Places[t])

\* A percentage with what lies below a hundredth cut off: never rounded up.
CutOff(obtained, max) == (obtained * 10000) \div max

\* The grade is that of the highest band which the percentage, cut off, comes to.
GradeEarned(obtained, max, grade) ==
  LET reached == {b \in Bands : b.min <= CutOff(obtained, max)}
  IN  \/ reached = {} /\ grade = NoGrade
      \/ \E b \in reached : b.grade = grade /\ \A c \in reached : c.min <= b.min

\* "A student on 49.999% is below 50 and fails" (exact.ts:109), and one on
\* 89.999% gets no A+: every pass, every failure and every grade, of a subject and
\* over all of them, is what the percentage with nothing rounded up comes to, and
\* none is given before the last mark is in.
DecidedExactly ==
  \A s \in Students :
    LET sits == SubjectsOf(s, book[s])
        r == results[s]
        complete == \A p \in DOMAIN sits : sits[p].status # "PENDING"
        Passes(x) == x.status = "ENTERED" /\ CutOff(x.obtained, x.max) >= x.passing
    IN  /\ r.outcome = "INCOMPLETE" <=> ~complete
        /\ r.outcome = "PASS" <=>
             /\ \A p \in DOMAIN sits : Passes(sits[p])
             /\ CutOff(r.totalObtained, r.totalMax) >= OverallPassingPercentage
        /\ IF complete THEN GradeEarned(r.totalObtained, r.totalMax, r.grade) ELSE r.grade = NoGrade
        /\ \A p \in DOMAIN sits :
             LET x == sits[p]
                 y == CalculateSubject(x, Bands)
             IN  IF x.status = "PENDING" THEN y.outcome = "PENDING" /\ y.grade = NoGrade
                 ELSE /\ y.outcome = IF Passes(x) THEN "PASS" ELSE "FAIL"
                      /\ GradeEarned(x.obtained, x.max, y.grade)

\* 450, 450, 440 is 1st, 1st, 3rd: a position is one more than the classmates
\* strictly ahead, and a student whose marks are not all in has none.
PositionsAreHonest ==
  LET positions == Positions
      Ahead(s) == {t \in Students :
                     /\ Peers(s, t) /\ results[t].outcome # "INCOMPLETE"
                     /\ \/ results[t].outcome = "PASS" /\ results[s].outcome = "FAIL"
                        \/ /\ results[t].outcome = results[s].outcome
                           /\ results[t].totalObtained > results[s].totalObtained}
  IN  \A s \in Students :
        positions[s] = IF results[s].outcome = "INCOMPLETE" THEN Nothing ELSE Cardinality(Ahead(s)) + 1

\* "nobody is ever compared with a student sitting different papers": two
\* students are ranked together only if their totals are out of the same papers.
SameRankingSamePapers ==
  \A s, t \in Students :
    Peers(s, t) /\ "INCOMPLETE" \notin {results[s].outcome, results[t].outcome}
      => results[s].totalMax = results[t].totalMax

\* A position can be explained to the student who reads it: everybody it counts
\* sat the same papers, and exactly those ahead are counted.
RankedHonestly == SameRankingSamePapers /\ PositionsAreHonest

\* The percentage of an INCOMPLETE result "can only rise as the rest comes in".
OnlyRises ==
  \A s \in Students :
    (\A p \in PapersFor(s) : book[s][p].status # "PENDING" => book'[s][p] = book[s][p])
      => results'[s].percentage >= results[s].percentage

RisesWithTheRest == [][OnlyRises]_<<book, results>>

\* Every paper marked, before and after, and none lower; an absence stays one at worst.
BetterThan(new, old) ==
  \A p \in DOMAIN old :
    /\ "PENDING" \notin {old[p].status, new[p].status}
    /\ new[p].obtained >= old[p].obtained
    /\ new[p].status = "ABSENT" => old[p].status = "ABSENT"

\* A better mark hurts nobody it is given to: the student who had a result and
\* still has one neither fails for it nor falls behind.
HurtsNobody ==
  \A s \in Students :
    (\A t \in Students \ {s} : book'[t] = book[t]) /\ BetterThan(book'[s], book[s])
      => /\ results[s].outcome = "PASS" => results'[s].outcome = "PASS"
         /\ Positions'[s] <= Positions[s]

BetterMarkNeverHurts == [][HurtsNobody]_<<book, results>>

\* Marks count upwards: neither one that was missing nor one that is corrected
\* upwards costs its student a percentage, a pass or a place.
MarksCountUpwards == RisesWithTheRest /\ BetterMarkNeverHurts
=============================================================================
