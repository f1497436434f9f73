--------------------------- MODULE AcademicSessions ---------------------------
(***************************************************************************)
(* The college's years and what runs in them, academic-structure.service.ts *)
(* over its unique indexes: sessions, of which one is current, the groups   *)
(* of a session (class, division and programme taken as one), the sections  *)
(* of a group and the curriculum. A handler reads, decides and writes in a  *)
(* transaction. Students and teachers put down in a section block its       *)
(* removal, there and again in the database.                                *)
(***************************************************************************)
EXTENDS Naturals, FiniteSets

CONSTANTS Years,     \* ids of sessions
          Combos,    \* class x division x programme
          Names,     \* names of sections, with "A"
          Topics,    \* entries of a curriculum
          Deans,     \* bound: requests there may be at once
          MaxPeriods \* bound: sections there may be

ASSUME YearAssumption == "A" \in Names /\ MaxPeriods \in Nat

VARIABLES
  years,     \* id -> is it current: no check of this file reads dates or status
  groups,    \* <<session, combo>>
  classes,   \* <<session, combo, name>> -> [active, used]: the sections
  syllabus,  \* <<session, topic>>
  reform,    \* the request each dean has in flight
  chosen,    \* history: a session has been made current
  undercut   \* history: a session was deleted that another request had changed meanwhile

academicVars == <<years, groups, classes, syllabus, reform, chosen, undercut>>

NoReform == [op |-> "none"]
SectionsOf(g) == {s \in DOMAIN classes : <<s[1], s[2]>> = g}
CombosIn(y) == {c \in Combos : <<y, c>> \in groups}

---------------------------------------------------------------------------
AcademicInit ==
  /\ years = <<>> /\ groups = {} /\ classes = <<>> /\ syllabus = {}
  /\ reform = [d \in Deans |-> NoReform] /\ chosen = FALSE /\ undercut = FALSE

Outrun(d, t) ==
  [e \in Deans |-> IF e = d THEN t
     ELSE IF reform[e] = NoReform THEN NoReform ELSE [reform[e] EXCEPT !.late = TRUE]]

\* A request that has read what it needs.
Prepared(d, t) ==
  /\ reform[d] = NoReform /\ reform' = [reform EXCEPT ![d] = t]
  /\ UNCHANGED <<years, groups, classes, syllabus, chosen, undercut>>

Wrote(d) == reform' = Outrun(d, NoReform) /\ UNCHANGED undercut

\* Handlers whose write uses nothing they read: one step.
AtOnce == Wrote("nobody")

\* createAcademicSession: a new session is not current.
CreateYear(y) ==
  /\ y \notin DOMAIN years /\ years' = [z \in DOMAIN years \cup {y} |-> z # y /\ years[z]]
  /\ AtOnce /\ UNCHANGED <<groups, classes, syllabus, chosen>>

StartCurrent(d, y) == Prepared(d, [op |-> "current", year |-> y, late |-> FALSE])

\* "we clear the old one first inside the same transaction"
WithCurrent(y) == [z \in DOMAIN years |-> z = y]

\* A session gone by then is not found; where another was made current since the
\* clearing looked, the index on the current session refuses. Nothing is written.
SetCurrent(d) ==
  LET t == reform[d]
  IN  /\ t.op = "current" /\ Wrote(d)
      /\ \E refused \in {t.year \notin DOMAIN years, t.late} :
           IF refused \/ t.year \notin DOMAIN years
             THEN UNCHANGED <<years, chosen>>
             ELSE years' = WithCurrent(t.year) /\ chosen' = TRUE
      /\ UNCHANGED <<groups, classes, syllabus>>

MayDeleteYear(y) == ~years[y] /\ CombosIn(y) = {} /\ \A k \in syllabus : k[1] # y

StartDeleteYear(d, y) == MayDeleteYear(y) /\ Prepared(d, [op |-> "delete", year |-> y, late |-> FALSE])

\* A foreign key refuses while anything is in it.
DeleteYear(d) ==
  LET y == reform[d].year
  IN  /\ reform[d].op = "delete" /\ reform' = Outrun(d, NoReform)
      /\ years' = IF CombosIn(y) = {} /\ \A k \in syllabus : k[1] # y
                  THEN [z \in DOMAIN years \ {y} |-> years[z]] ELSE years
      /\ undercut' = (undercut \/ (reform[d].late /\ years' # years))
      /\ UNCHANGED <<groups, classes, syllabus, chosen>>

---------------------------------------------------------------------------
\* The sections once those wanted are there too, unused.
WithSections(wanted) ==
  [s \in DOMAIN classes \cup wanted |-> IF s \in wanted THEN [active |-> TRUE, used |-> FALSE] ELSE classes[s]]

\* createAcademicGroup and createAcademicGroupsBulk: those there are not yet, each
\* with its first section.
StartGroups(d, y, combos, name) ==
  /\ combos \ CombosIn(y) # {}
  /\ Prepared(d, [op |-> "groups", year |-> y, combos |-> combos \ CombosIn(y), topics |-> {},
                  wanted |-> {<<y, c, name>> : c \in combos \ CombosIn(y)}, late |-> FALSE])

\* Faulty variant of NamesToCopy: nothing is put in the place of closed sections.
NamesActive(y, c) == {n \in Names : <<y, c, n>> \in DOMAIN classes /\ classes[<<y, c, n>>].active}

\* The active sections, or one named A.
NamesToCopy(y, c) == IF NamesActive(y, c) = {} THEN {"A"} ELSE NamesActive(y, c)

\* copySessionStructure: the groups read before; in the transaction the curriculum,
\* if it is to come too.
StartCopyYear(d, from, to, topics) ==
  /\ from # to
  /\ Prepared(d, [op |-> "groups", year |-> to, combos |-> CombosIn(from) \ CombosIn(to), topics |-> topics,
       wanted |-> UNION {{<<to, c, n>> : n \in NamesToCopy(from, c)} : c \in CombosIn(from) \ CombosIn(to)},
       late |-> FALSE])

\* One group of each kind in a session: a group made meanwhile undoes it all.
WriteGroups(d) ==
  LET t == reform[d]
      made == {<<t.year, c>> : c \in t.combos}
      fits == t.year \in DOMAIN years /\ made \cap groups = {}
  IN  /\ t.op = "groups" /\ Cardinality(DOMAIN classes \cup t.wanted) <= MaxPeriods /\ Wrote(d)
      /\ IF fits THEN /\ groups' = groups \cup made /\ classes' = WithSections(t.wanted)
                      /\ syllabus' = syllabus \cup {<<t.year, k>> : k \in {k \in Topics : \E z \in t.topics : <<z, k>> \in syllabus}}
                 ELSE UNCHANGED <<groups, classes, syllabus>>
      /\ UNCHANGED <<years, chosen>>

\* createSection and updateSection; and the college puts people down in one.
SaveSection(g, n, active) ==
  /\ Cardinality(DOMAIN classes \cup {<<g[1], g[2], n>>}) <= MaxPeriods
  /\ classes' = [s \in DOMAIN classes \cup {<<g[1], g[2], n>>} |->
       IF s = <<g[1], g[2], n>> THEN [active |-> active, used |-> s \in DOMAIN classes /\ classes[s].used]
                                ELSE classes[s]]
  /\ classes' # classes /\ AtOnce /\ UNCHANGED <<years, groups, syllabus, chosen>>

UseSection(s) ==
  /\ ~classes[s].used /\ classes' = [classes EXCEPT ![s].used = TRUE]
  /\ AtOnce /\ UNCHANGED <<years, groups, syllabus, chosen>>

\* deleteSection, and deleteAcademicGroup with all its sections.
StartDrop(d, sections, g) ==
  /\ \A s \in sections : ~classes[s].used
  /\ Prepared(d, [op |-> "drop", sections |-> sections, gone |-> g, late |-> FALSE])

\* deleteMany takes the sections there are by then; a foreign key refuses those in use.
DropSections(d) ==
  LET t == reform[d]
      going == {s \in DOMAIN classes : s \in t.sections \/ <<s[1], s[2]>> \in t.gone}
  IN  /\ t.op = "drop" /\ Wrote(d)
      /\ IF \A s \in going : ~classes[s].used
           THEN classes' = [s \in DOMAIN classes \ going |-> classes[s]] /\ groups' = groups \ t.gone
           ELSE UNCHANGED <<classes, groups>>
      /\ UNCHANGED <<years, syllabus, chosen>>

\* setCurriculum reads the list there is before its transaction, and takes from it
\* what is to go and what is to come; to save the list that is there writes no row of it.
StartCurriculum(d, y, topics) ==
  LET listed == {k[2] : k \in {k \in syllabus : k[1] = y}}
  IN  /\ listed # topics
      /\ Prepared(d, [op |-> "curriculum", year |-> y, cut |-> listed \ topics,
                      add |-> topics \ listed, late |-> FALSE])

\* It deletes by id, so that a row taken out and put back meanwhile stays; a row put
\* in meanwhile that it wants too, or a session gone, undoes it all.
SetCurriculum(d) ==
  LET t == reform[d]
  IN  /\ t.op = "curriculum" /\ Wrote(d)
      /\ \E going \in SUBSET t.cut :
           /\ going = t.cut \/ t.late
           /\ LET left == syllabus \ {<<t.year, k>> : k \in going}
                  new  == {<<t.year, k>> : k \in t.add}
              IN  syllabus' = IF t.year \in DOMAIN years /\ new \cap left = {} THEN left \cup new ELSE syllabus
      /\ UNCHANGED <<years, groups, classes, chosen>>

AcademicNext ==
  \/ \E y \in Years : CreateYear(y)
  \/ \E d \in Deans :
       \/ \E y \in DOMAIN years : \/ StartCurrent(d, y) \/ StartDeleteYear(d, y)
                                  \/ \E cs \in SUBSET Combos, n \in Names : StartGroups(d, y, cs, n)
                                  \/ \E z \in DOMAIN years, topics \in SUBSET {y} : StartCopyYear(d, y, z, topics)
                                  \/ \E topics \in SUBSET Topics : StartCurriculum(d, y, topics)
       \/ \E g \in groups : StartDrop(d, SectionsOf(g), {g})
       \/ \E s \in DOMAIN classes : StartDrop(d, {s}, {})
       \/ SetCurrent(d) \/ DeleteYear(d) \/ WriteGroups(d) \/ DropSections(d) \/ SetCurriculum(d)
  \/ \E g \in groups, n \in Names, active \in BOOLEAN : SaveSection(g, n, active)
  \/ \E s \in DOMAIN classes : UseSection(s)

AcademicSpec == AcademicInit /\ [][AcademicNext]_academicVars

---------------------------------------------------------------------------
\* Properties.

\* "Exactly one session can be current" (academic-structure.service.ts:120): never
\* two, and once one has been chosen there always is one, unless a session was
\* deleted that another request had changed since the deleter looked (as it may have
\* made it current).
OneYearIsCurrent ==
  LET current == {y \in DOMAIN years : years[y]}
  IN  Cardinality(current) <= 1 /\ (chosen /\ ~undercut => current # {})

\* Nothing hangs in the air: every section is of a group, every group and every
\* entry of the curriculum of a session that is there, whatever is deleted while
\* something else is being copied into it.
StructureHoldsTogether ==
  /\ \A s \in DOMAIN classes : <<s[1], s[2]>> \in groups
  /\ \A g \in groups : g[1] \in DOMAIN years
  /\ \A k \in syllabus : k[1] \in DOMAIN years

\* "a group without any section would be useless, so we never leave that state
\* behind" (academic-structure.service.ts, createAcademicGroup): however a group
\* comes, by itself, in bulk or in a copy, it comes with a section.
GroupsComeWithASection ==
  [][\A g \in groups' \ groups : \E s \in DOMAIN classes' : <<s[1], s[2]>> = g]_academicVars

\* One year is current, what runs in a year hangs together, and no group comes
\* without a section.
YearsHoldTogether == [](OneYearIsCurrent /\ StructureHoldsTogether) /\ GroupsComeWithASection
=============================================================================
