------------------------------ MODULE Results ------------------------------
(***************************************************************************)
(* The results made from an exam's mark sheets: results.service.ts. A      *)
(* result is a row per student and version, of which one is current.       *)
(*                                                                         *)
(* generateResults reads the exam, its students, sheets, results and marks,*)
(* calculates, and writes in one transaction that looks at none of them    *)
(* again; setResultsPublished likewise, and tells the students once the    *)
(* transaction is over. A member of Registrars is one such request, beside *)
(* the markers and the office of MarkSheets. The reads of one request are  *)
(* one step here.                                                          *)
(***************************************************************************)
EXTENDS MarkSheets

G == INSTANCE Grading

CONSTANTS Registrars,
          Bands,        \* of the default grading scale
          Passing,      \* each paper's passing percentage, in hundredths
          MaxVersion    \* bound: generations of one exam

ASSUME ResultsAssumption == Bands # {} /\ Passing \in 0 .. 10000 /\ MaxVersion \in Nat \ {0}

VARIABLES
  results,    \* the rows: a function from pairs <<student, version>>
  registrar,  \* the request each registrar has in flight
  announced   \* the students the last announcement reached

resultVars == <<results, registrar, announced>>
allVars == <<examVars, markVars, resultVars>>

AtRest == [at |-> "idle", had |-> FALSE, version |-> 0, rows |-> <<>>]
Current == {k \in DOMAIN results : results[k].current}

---------------------------------------------------------------------------
\* What a generation reads and works out.

PapersOf(s) == {p \in DOMAIN papers : Sits(enrolled[s], papers[p])}

\* loadEligibleStudents, of whom a student with no paper is left out.
Eligible == {s \in Students : enrolled[s] # NoSection /\ PapersOf(s) # {}}

\* requiredMarkSheets: the sheets not started, or still a draft.
Blocked == \E s \in Eligible : \E p \in PapersOf(s) :
             \/ sheets[p][enrolled[s]] = NoSheet
             \/ sheets[p][enrolled[s]].status = "DRAFT"

\* The marks of the exam on a sheet that is no draft, on whichever sheet they are.
Counted(p, s) == marks[p][s] # NoMark /\ sheets[p][marks[p][s].section].status # "DRAFT"

SubjectsOf(s) ==
  [p \in PapersOf(s) |->
     [max |-> papers[p].max, passing |-> Passing,
      status |-> IF Counted(p, s) THEN marks[p][s].status ELSE "PENDING",
      obtained |-> IF Counted(p, s) THEN marks[p][s].obtained ELSE Nothing]]

NewRow(s) ==
  LET r == G!CalculateResult(SubjectsOf(s), Bands)
  IN  [current |-> TRUE, status |-> "DRAFT", outcome |-> r.outcome,
       total |-> r.totalObtained, of |-> r.totalMax]

Versions == {k[2] : k \in Current}

\* One more than the highest that is current.
NextVersion == 1 + CHOOSE v \in {0} \cup Versions : \A w \in Versions : w <= v

---------------------------------------------------------------------------
ResultInit ==
  /\ MarkInit
  /\ results = [k \in {} |-> AtRest]
  /\ registrar = [g \in Registrars |-> AtRest]
  /\ announced = {}

Receive(g, t) ==
  /\ registrar[g].at = "idle"
  /\ registrar' = [registrar EXCEPT ![g] = t]
  /\ UNCHANGED <<examVars, markVars, results, announced>>

Done(g) == registrar' = [registrar EXCEPT ![g] = AtRest]

StartGenerate(g, regenerate) ==
  /\ Exists /\ exam.status # "CANCELLED" /\ DOMAIN papers # {}
  /\ Eligible # {} /\ ~Blocked
  /\ Current # {} => regenerate
  /\ NextVersion <= MaxVersion
  /\ Receive(g, [at |-> "generate", had |-> Current # {}, version |-> NextVersion,
                 rows |-> [s \in Eligible |-> NewRow(s)]])

\* Faulty variant of Superseded: only the students who get a new result.
SupersededOwn(t) ==
  [k \in DOMAIN results |->
     IF t.had /\ k[1] \in DOMAIN t.rows THEN [results[k] EXCEPT !.current = FALSE] ELSE results[k]]

\* The old rows, none current any more if the request had seen one.
Superseded(t) ==
  [k \in DOMAIN results |-> IF t.had THEN [results[k] EXCEPT !.current = FALSE] ELSE results[k]]

\* The CHECKs results_version_positive and results_totals_sane.
Sane(t) == /\ t.version >= 1
           /\ \A s \in DOMAIN t.rows : 0 <= t.rows[s].total /\ t.rows[s].total <= t.rows[s].of

\* The CHECKs, and the two unique indexes of the table: (exam, student,
\* version), and one current result per student.
Storable(t) ==
  /\ Sane(t)
  /\ \A k \in DOMAIN results :
       k[1] \in DOMAIN t.rows => k[2] # t.version /\ ~Superseded(t)[k].current

Generate(g) ==
  LET t == registrar[g]
      old == Superseded(t)
  IN  /\ t.at = "generate" /\ Storable(t)
      /\ results' = [k \in DOMAIN old \cup ((DOMAIN t.rows) \X {t.version}) |->
                       IF k \in DOMAIN old THEN old[k] ELSE t.rows[k[1]]]
      /\ Done(g) /\ UNCHANGED <<examVars, markVars, announced>>

GenerateRefused(g) ==
  /\ registrar[g].at = "generate" /\ ~Storable(registrar[g])
  /\ Done(g) /\ UNCHANGED <<examVars, markVars, results, announced>>

Target(at) == IF at = "publish" THEN "PUBLISHED" ELSE "DRAFT"

\* setResultsPublished: refused when no current result would change.
StartSetPublished(g, at) ==
  /\ \E k \in Current : results[k].status # Target(at)
  /\ Receive(g, [AtRest EXCEPT !.at = at])

\* Faulty variant of Affected: every version of the exam's results.
AffectedVersions == DOMAIN results

\* The rows the update reaches: those current when it runs.
Affected == Current

SetPublished(g) ==
  LET t == registrar[g]
  IN  /\ t.at \in {"publish", "unpublish"}
      /\ results' = [k \in DOMAIN results |->
                       IF k \in Affected THEN [results[k] EXCEPT !.status = Target(t.at)] ELSE results[k]]
      /\ IF t.at = "publish" /\ Affected # {}
         THEN registrar' = [registrar EXCEPT ![g] = [AtRest EXCEPT !.at = "tell"]]
         ELSE Done(g)
      /\ UNCHANGED <<examVars, markVars, announced>>

\* notify: the students of every row of the exam that is PUBLISHED.
TellStudents(g) ==
  /\ registrar[g].at = "tell"
  /\ announced' = {k[1] : k \in {j \in DOMAIN results : results[j].status = "PUBLISHED"}}
  /\ Done(g) /\ UNCHANGED <<examVars, markVars, results>>

\* Its insert failed, or the host stopped before it: the results stay out.
TellFails(g) ==
  /\ registrar[g].at = "tell"
  /\ announced' = {}
  /\ Done(g) /\ UNCHANGED <<examVars, markVars, results>>

RegistrarStep(g) ==
  \/ \E regenerate \in BOOLEAN : StartGenerate(g, regenerate)
  \/ \E at \in {"publish", "unpublish"} : StartSetPublished(g, at)
  \/ Generate(g) \/ GenerateRefused(g) \/ SetPublished(g) \/ TellStudents(g) \/ TellFails(g)

AllAtRest == registrar = [g \in Registrars |-> AtRest]

ResultNext ==
  \/ MarkNext /\ UNCHANGED resultVars /\ (Serial => AllAtRest)
  \/ \E g \in Registrars : RegistrarStep(g) /\ (Serial => InFlight = {} /\ (AllAtRest \/ registrar[g] # AtRest))

ResultSpec == ResultInit /\ [][ResultNext]_allVars

---------------------------------------------------------------------------
\* Properties.

\* Every row is one the tables can hold: versions from 1, and totals no more
\* than was on offer (results_version_positive, results_totals_sane).
ResultTypeOK ==
  /\ DOMAIN results \subseteq Students \X (1 .. MaxVersion)
  /\ \A k \in DOMAIN results :
       /\ results[k].current \in BOOLEAN /\ results[k].status \in {"DRAFT", "PUBLISHED"}
       /\ results[k].outcome \in {"PASS", "FAIL", "INCOMPLETE"}
       /\ 0 <= results[k].total /\ results[k].total <= results[k].of
  /\ announced \subseteq Students

\* The results that are current are one generation's, for all its students:
\* none is left from an earlier one (generateResults, "all of it or none of it").
OneGenerationCurrent == \A j, k \in Current : j[2] = k[2]

\* "a class where half the results are out and half are not is worse than none
\* of them being out" (results.service.ts:932): publishing is all or nothing.
AllOutOrNone == \A j, k \in Current : results[j].status = results[k].status

\* What families can see is one whole generation of results, or none of it.
OneGenerationOut == ResultTypeOK /\ AllOutOrNone /\ OneGenerationCurrent

\* "Supersede rather than overwrite": a result that is not current any more
\* never changes again, nor does it become current or go.
SupersededStands ==
  [][\A k \in DOMAIN results \ Current : k \in DOMAIN results' /\ results'[k] = results[k]]_allVars

\* marks-access.ts:198: "Published marks are the source of a result card.
\* Correcting one is the office's decision, never a teacher's".
TeachersLeavePublishedMarks ==
  [][\A r \in Teachers, p \in Papers, s \in Students :
       marker[r].at = "save" /\ marker'[r] # marker[r] /\ marks'[p][s] # marks[p][s]
         => ~\E k \in Current : k[1] = s /\ results[k].status = "PUBLISHED"]_allVars
=============================================================================
