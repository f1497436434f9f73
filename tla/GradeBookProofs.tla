--------------------------- MODULE GradeBookProofs ---------------------------
(***************************************************************************)
(* For any students, papers, bands, places and marks: what the results say *)
(* of the marks, and the positions of each other. The invariant is that    *)
(* every row of the book was let through and every result is what is made  *)
(* of its student's rows; the rest are lemmas about sums, percentages, and *)
(* the order of a ranking. Induction over sets is done by the smallest set *)
(* for which a fact fails (SmallestSet), and so is the one a recursive sum *)
(* needs to be well defined at all (SumsExist).                            *)
(***************************************************************************)
EXTENDS GradeBook, FiniteSetTheorems, TLAPS

\* A set of numbers that is not empty has a first one.
LEMMA LeastNatural ==
  ASSUME NEW T \in SUBSET Nat, T # {}
  PROVE  \E m \in T : \A k \in T : m <= k
<1> DEFINE R == OpToRel(<, Nat)
<1>1. IsWellFoundedOn(R, Nat)
  BY NatLessThanWellFounded
<1>2. \A x, y \in Nat : x < y => <<x, y>> \in R
  BY DEF OpToRel
<1> HIDE DEF R
<1>3. PICK m \in T : \A k \in T : ~(<<k, m>> \in R)
  BY <1>1, WFMin
<1>4. \A k \in T : ~(k < m)
  BY <1>2, <1>3
<1> QED BY <1>4

\* A set of finite sets that is not empty has one with no smaller one in it: what
\* stands here for induction over finite sets.
LEMMA SmallestSet ==
  ASSUME NEW S, IsFiniteSet(S), NEW B \in SUBSET (SUBSET S), B # {}
  PROVE  \E T \in B : \A U \in B : U \subseteq T => U = T
<1> DEFINE R == StrictSubsetOrdering(S)
<1>1. IsWellFoundedOn(R, SUBSET S)
  BY FS_StrictSubsetOrderingWellFounded, FS_FiniteSubsetsOfFinite
<1>2. \A U, T \in SUBSET S : U \subseteq T /\ U # T => <<U, T>> \in R
  BY DEF StrictSubsetOrdering
<1> HIDE DEF R
<1>3. PICK T \in B : \A U \in B : ~(<<U, T>> \in R)
  BY <1>1, WFMin
<1> QED BY <1>2, <1>3

---------------------------------------------------------------------------
\* Sums. The sum of no figures is 0, and that of some is one of them and the rest.

Pick(S) == CHOOSE x \in S : TRUE

\* g is the running sum of f over the subsets of S.
Sums(g, f, S) ==
  g = [T \in SUBSET S |-> IF T = {} THEN 0 ELSE f[Pick(T)] + g[T \ {Pick(T)}]]

LEMMA SumIsChosen ==
  ASSUME NEW S, NEW f
  PROVE  SumFunctionOnSet(f, S) = (CHOOSE g : Sums(g, f, S))[S]
BY DEF SumFunctionOnSet, FoldFunctionOnSet, MapThenFoldSet, Sums, Pick

LEMMA SumsAgree ==
  ASSUME NEW f, NEW A, IsFiniteSet(A), NEW B, NEW g, NEW h, Sums(g, f, A), Sums(h, f, B),
         NEW W \in SUBSET A, W \subseteq B
  PROVE  g[W] = h[W]
<1> DEFINE apart == {U \in SUBSET A : U \subseteq B /\ g[U] # h[U]}
<1>1. SUFFICES ASSUME apart # {} PROVE FALSE
  OBVIOUS
<1>2. PICK T \in apart : \A U \in apart : U \subseteq T => U = T
  <2>1. apart \in SUBSET (SUBSET A)
    OBVIOUS
  <2> HIDE DEF apart
  <2> QED BY <1>1, <2>1, SmallestSet
<1>3. /\ g[T] = IF T = {} THEN 0 ELSE f[Pick(T)] + g[T \ {Pick(T)}]
      /\ h[T] = IF T = {} THEN 0 ELSE f[Pick(T)] + h[T \ {Pick(T)}]
  BY DEF Sums
<1>4. T # {}
  BY <1>3
<1>5. Pick(T) \in T
  BY <1>4 DEF Pick
<1>6. T \ {Pick(T)} \notin apart
  BY <1>2, <1>5
<1>7. g[T \ {Pick(T)}] = h[T \ {Pick(T)}]
  BY <1>6
<1> QED BY <1>3, <1>7

LEMMA SumsExist ==
  ASSUME NEW f, NEW S, IsFiniteSet(S)
  PROVE  \E g : Sums(g, f, S)
<1> DEFINE without == {U \in SUBSET S : ~\E g : Sums(g, f, U)}
<1>1. SUFFICES ASSUME without # {} PROVE FALSE
  <2>1. S \notin without => \E g : Sums(g, f, S)
    OBVIOUS
  <2> QED BY <1>1, <2>1
<1>2. PICK T \in without : \A U \in without : U \subseteq T => U = T
  <2>1. without \in SUBSET (SUBSET S)
    OBVIOUS
  <2> HIDE DEF without
  <2> QED BY <1>1, <2>1, SmallestSet
<1>3. \A U \in SUBSET T : U # T => \E g : Sums(g, f, U)
  BY <1>2
<1> DEFINE run(U) == CHOOSE g : Sums(g, f, U)
           all == [U \in SUBSET T |-> IF U = {} THEN 0 ELSE f[Pick(U)] + run(U \ {Pick(U)})[U \ {Pick(U)}]
                ]
<1>4. \A U \in SUBSET T : U # T => Sums(run(U), f, U)
  BY <1>3
<1>5. ASSUME NEW U \in SUBSET T, U # T PROVE all[U] = run(U)[U]
  <2>1. Sums(run(U), f, U) /\ IsFiniteSet(U)
    BY <1>4, <1>5, <1>2, FS_Subset
  <2> HIDE DEF run
  <2>2. CASE U = {}
    BY <2>1, <2>2 DEF Sums
  <2>3. CASE U # {}
    <3>1. PICK V : V = U \ {Pick(U)}
      OBVIOUS
    <3>2. Pick(U) \in U
      BY <2>3 DEF Pick
    <3>3. V \in SUBSET T /\ V # T /\ V \in SUBSET U
      BY <3>1, <3>2
    <3>4. Sums(run(V), f, V) /\ IsFiniteSet(V)
      BY <3>3, <1>4, <1>2, FS_Subset
    <3>5. run(V)[V] = run(U)[V]
      <4>1. PICK g, h : g = run(V) /\ h = run(U)
        OBVIOUS
      <4> QED BY <4>1, <3>3, <3>4, <2>1, SumsAgree
    <3>6. run(U)[U] = f[Pick(U)] + run(U)[V]
      BY <2>1, <2>3, <3>1 DEF Sums
    <3>7. all[U] = f[Pick(U)] + run(V)[V]
      BY <2>3, <3>1
    <3> QED BY <3>5, <3>6, <3>7
  <2> QED BY <2>2, <2>3
<1>6. Sums(all, f, T)
  <2>1. \A U \in SUBSET T : U # {} => all[U] = f[Pick(U)] + all[U \ {Pick(U)}]
    <3>1. SUFFICES ASSUME NEW U \in SUBSET T, U # {} PROVE all[U] = f[Pick(U)] + all[U \ {Pick(U)}]
      OBVIOUS
    <3>2. PICK V : V = U \ {Pick(U)}
      OBVIOUS
    <3>3. Pick(U) \in U
      BY <3>1 DEF Pick
    <3>4. V \in SUBSET T /\ V # T
      BY <3>2, <3>3
    <3>5. all[U] = f[Pick(U)] + run(V)[V]
      BY <3>1, <3>2
    <3> HIDE DEF all
    <3> QED BY <3>2, <3>4, <3>5, <1>5
  <2>2. all[{}] = 0 /\ all = [U \in SUBSET T |-> all[U]]
    OBVIOUS
  <2> HIDE DEF all
  <2> QED BY <2>1, <2>2 DEF Sums
<1> QED BY <1>2, <1>6

LEMMA SumPicks ==
  ASSUME NEW f, NEW S, IsFiniteSet(S)
  PROVE  /\ S = {} => SumFunctionOnSet(f, S) = 0
         /\ S # {} => SumFunctionOnSet(f, S) = f[Pick(S)] + SumFunctionOnSet(f, S \ {Pick(S)})
<1> DEFINE run(U) == CHOOSE g : Sums(g, f, U)
<1>1. \A U \in SUBSET S : IsFiniteSet(U) /\ Sums(run(U), f, U) /\ SumFunctionOnSet(f, U) = run(U)[U]
  BY SumsExist, SumIsChosen, FS_Subset
<1> HIDE DEF run
<1>2. S = {} => run(S)[S] = 0
  BY <1>1 DEF Sums
<1>3. ASSUME S # {} PROVE SumFunctionOnSet(f, S) = f[Pick(S)] + SumFunctionOnSet(f, S \ {Pick(S)})
  <2>1. PICK V : V = S \ {Pick(S)}
    OBVIOUS
  <2>2. run(S)[S] = f[Pick(S)] + run(S)[V]
    BY <1>1, <1>3, <2>1 DEF Sums
  <2>3. V \in SUBSET S
    BY <2>1
  <2>4. run(V)[V] = run(S)[V]
    <3>1. PICK g, h : g = run(V) /\ h = run(S)
      OBVIOUS
    <3> QED BY <3>1, <2>3, <1>1, SumsAgree
  <2> QED BY <1>1, <2>1, <2>2, <2>3, <2>4
<1> QED BY <1>1, <1>2, <1>3

LEMMA SumIsNatural ==
  ASSUME NEW f, NEW S, IsFiniteSet(S), \A x \in S : f[x] \in Nat
  PROVE  SumFunctionOnSet(f, S) \in Nat
<1> DEFINE odd == {U \in SUBSET S : SumFunctionOnSet(f, U) \notin Nat}
<1>1. SUFFICES ASSUME odd # {} PROVE FALSE
  <2>1. S \notin odd => SumFunctionOnSet(f, S) \in Nat
    OBVIOUS
  <2> QED BY <1>1, <2>1
<1>2. PICK T \in odd : \A U \in odd : U \subseteq T => U = T
  <2>1. odd \in SUBSET (SUBSET S)
    OBVIOUS
  <2> HIDE DEF odd
  <2> QED BY <1>1, <2>1, SmallestSet
<1>3. IsFiniteSet(T) /\ T \in SUBSET S /\ SumFunctionOnSet(f, T) \notin Nat
  BY FS_Subset
<1>4. T # {} /\ SumFunctionOnSet(f, T) = f[Pick(T)] + SumFunctionOnSet(f, T \ {Pick(T)})
  BY <1>3, SumPicks
<1>5. Pick(T) \in T
  BY <1>4 DEF Pick
<1>6. SumFunctionOnSet(f, T \ {Pick(T)}) \in Nat
  BY <1>2, <1>3, <1>5
<1>7. f[Pick(T)] \in Nat
  BY <1>3, <1>5
<1> QED BY <1>3, <1>4, <1>6, <1>7

\* Whichever is taken first.
LEMMA SumTakes ==
  ASSUME NEW f, NEW S, IsFiniteSet(S), \A x \in S : f[x] \in Nat, NEW x \in S
  PROVE  SumFunctionOnSet(f, S) = f[x] + SumFunctionOnSet(f, S \ {x})
<1> DEFINE Takes(U, y) == SumFunctionOnSet(f, U) = f[y] + SumFunctionOnSet(f, U \ {y})
           odd == {U \in SUBSET S : \E y \in U : ~Takes(U, y)}
<1>1. SUFFICES ASSUME odd # {} PROVE FALSE
  <2>1. S \notin odd => Takes(S, x)
    OBVIOUS
  <2> QED BY <1>1, <2>1
<1>2. PICK T \in odd : \A U \in odd : U \subseteq T => U = T
  <2>1. odd \in SUBSET (SUBSET S)
    OBVIOUS
  <2> HIDE DEF odd
  <2> QED BY <1>1, <2>1, SmallestSet
<1>3. T \in SUBSET S
  OBVIOUS
<1>4. PICK y \in T : ~Takes(T, y)
  OBVIOUS
<1>5. PICK z : z = Pick(T)
  OBVIOUS
<1>6. z \in T
  BY <1>4, <1>5 DEF Pick
<1>7. \A U \in SUBSET T : SumFunctionOnSet(f, U) \in Nat /\ IsFiniteSet(U)
  <2> SUFFICES ASSUME NEW U \in SUBSET T PROVE SumFunctionOnSet(f, U) \in Nat /\ IsFiniteSet(U)
    OBVIOUS
  <2>1. IsFiniteSet(U) /\ \A u \in U : f[u] \in Nat
    BY <1>3, FS_Subset
  <2> QED BY <2>1, SumIsNatural
<1>8. Takes(T, z)
  BY <1>5, <1>6, <1>7, SumPicks
<1>9. y # z
  BY <1>4, <1>8
<1>10. \A U \in SUBSET T : U # T => \A u \in U : Takes(U, u)
  BY <1>2, <1>3
<1> HIDE DEF odd
<1>11. Takes(T \ {z}, y) /\ Takes(T \ {y}, z)
  BY <1>4, <1>6, <1>9, <1>10
<1>12. PICK V : V = T \ {y, z}
  OBVIOUS
<1>13. (T \ {z}) \ {y} = V /\ (T \ {y}) \ {z} = V
  BY <1>12
<1>14. /\ SumFunctionOnSet(f, T) = f[z] + SumFunctionOnSet(f, T \ {z})
       /\ SumFunctionOnSet(f, T \ {z}) = f[y] + SumFunctionOnSet(f, V)
       /\ SumFunctionOnSet(f, T \ {y}) = f[z] + SumFunctionOnSet(f, V)
  BY <1>8, <1>11, <1>13
<1>15. /\ f[y] \in Nat /\ f[z] \in Nat /\ SumFunctionOnSet(f, V) \in Nat
  BY <1>3, <1>6, <1>7, <1>12
<1>16. SumFunctionOnSet(f, T) = f[y] + SumFunctionOnSet(f, T \ {y})
  BY <1>14, <1>15
<1> QED BY <1>4, <1>16

\* More figures, none of them lower, come to no less.
LEMMA SumGrows ==
  ASSUME NEW T, IsFiniteSet(T), NEW S \in SUBSET T, NEW f, NEW g,
         \A x \in S : f[x] \in Nat /\ f[x] <= g[x], \A x \in T : g[x] \in Nat
  PROVE  SumFunctionOnSet(f, S) <= SumFunctionOnSet(g, T)
<1> DEFINE odd == {U \in SUBSET T : ~(SumFunctionOnSet(f, U \cap S) <= SumFunctionOnSet(g, U))}
<1>1. SUFFICES ASSUME odd # {} PROVE FALSE
  <2>1. T \notin odd => SumFunctionOnSet(f, T \cap S) <= SumFunctionOnSet(g, T)
    OBVIOUS
  <2>2. T \cap S = S
    OBVIOUS
  <2> QED BY <1>1, <2>1, <2>2
<1>2. PICK U \in odd : \A V \in odd : V \subseteq U => V = U
  <2>1. odd \in SUBSET (SUBSET T)
    OBVIOUS
  <2> HIDE DEF odd
  <2> QED BY <1>1, <2>1, SmallestSet
<1>3. U \in SUBSET T /\ ~(SumFunctionOnSet(f, U \cap S) <= SumFunctionOnSet(g, U))
  OBVIOUS
<1>4. \A V \in SUBSET T : /\ IsFiniteSet(V) /\ SumFunctionOnSet(g, V) \in Nat
                          /\ IsFiniteSet(V \cap S) /\ SumFunctionOnSet(f, V \cap S) \in Nat
  <2> SUFFICES ASSUME NEW V \in SUBSET T
               PROVE  /\ IsFiniteSet(V) /\ SumFunctionOnSet(g, V) \in Nat
                      /\ IsFiniteSet(V \cap S) /\ SumFunctionOnSet(f, V \cap S) \in Nat
    OBVIOUS
  <2>1. IsFiniteSet(V) /\ V \cap S \in SUBSET T
    BY FS_Subset
  <2>2. IsFiniteSet(V \cap S)
    BY <2>1, FS_Subset
  <2>3. SumFunctionOnSet(g, V) \in Nat
    BY <2>1, SumIsNatural
  <2>4. SumFunctionOnSet(f, V \cap S) \in Nat
    BY <2>2, SumIsNatural
  <2> QED BY <2>1, <2>2, <2>3, <2>4
<1>5. U # {}
  <2>1. SumFunctionOnSet(f, {} \cap S) = 0 /\ SumFunctionOnSet(g, {}) = 0
    BY SumPicks, FS_EmptySet
  <2> QED BY <1>3, <2>1
<1>6. PICK x \in U : TRUE
  BY <1>5
<1>7. PICK V : V = U \ {x}
  OBVIOUS
<1>8. V \in SUBSET T /\ V \subseteq U /\ V # U
  BY <1>3, <1>7
<1>9. SumFunctionOnSet(f, V \cap S) <= SumFunctionOnSet(g, V)
  BY <1>2, <1>8
<1> HIDE DEF odd
<1>10. SumFunctionOnSet(g, U) = g[x] + SumFunctionOnSet(g, V) /\ g[x] \in Nat
  BY <1>3, <1>4, <1>7, SumTakes
<1>11. CASE x \in S
  <2>1. PICK W : W = U \cap S
    OBVIOUS
  <2>2. x \in W /\ W \ {x} = V \cap S /\ IsFiniteSet(W) /\ \A w \in W : f[w] \in Nat
    BY <1>3, <1>4, <1>7, <1>11, <2>1
  <2>3. SumFunctionOnSet(f, W) = f[x] + SumFunctionOnSet(f, V \cap S)
    BY <2>2, SumTakes
  <2>4. f[x] \in Nat /\ f[x] <= g[x]
    BY <1>11
  <2> QED BY <1>3, <1>4, <1>8, <1>9, <1>10, <2>1, <2>3, <2>4
<1>12. CASE x \notin S
  <2>1. U \cap S = V \cap S
    BY <1>7, <1>12
  <2>2. SumFunctionOnSet(f, U \cap S) = SumFunctionOnSet(f, V \cap S)
    BY <2>1
  <2>3. SumFunctionOnSet(f, U \cap S) <= SumFunctionOnSet(g, U)
    BY <1>4, <1>8, <1>9, <1>10, <2>2
  <2> QED BY <1>3, <2>3
<1> QED BY <1>11, <1>12

---------------------------------------------------------------------------
\* Percentages: whole numbers, and the rest of a division.

LEMMA Division ==
  ASSUME NEW n \in Nat, NEW m \in Nat \ {0}
  PROVE  /\ n \div m \in Nat /\ n % m \in Nat /\ n % m < m
         /\ n = m * (n \div m) + (n % m)
<1>1. n \div m \in Nat
  OBVIOUS
<1>2. n % m \in Nat
  OBVIOUS
<1>3. n % m < m
  OBVIOUS
<1>4. n = m * (n \div m) + (n % m)
  OBVIOUS
<1> QED BY <1>1, <1>2, <1>3, <1>4

LEMMA DivisionRises ==
  ASSUME NEW n \in Nat, NEW k \in Nat, n <= k, NEW m \in Nat \ {0}
  PROVE  /\ n \div m <= k \div m
         /\ n \div m = k \div m => n % m <= k % m
<1>1. PICK q \in Nat, r \in Nat : q = n \div m /\ r = n % m /\ n = m * q + r /\ r < m
  BY Division
<1>2. PICK u \in Nat, v \in Nat : u = k \div m /\ v = k % m /\ k = m * u + v /\ v < m
  BY Division
<1>3. q <= u
  <2>1. SUFFICES ASSUME u + 1 <= q PROVE FALSE
    OBVIOUS
  <2>2. m * (u + 1) <= m * q
    BY <2>1
  <2>3. m * (u + 1) = m * u + m /\ m * u \in Nat /\ m * q \in Nat
    OBVIOUS
  <2> QED BY <1>1, <1>2, <2>2, <2>3
<1>4. q = u => r <= v
  <2>1. m * u \in Nat
    OBVIOUS
  <2> QED BY <1>1, <1>2, <2>1
<1> QED BY <1>1, <1>2, <1>3, <1>4

\* What reaches a threshold exactly reaches it when the rest is cut off.
LEMMA ReachedIsReached ==
  ASSUME NEW n \in Nat, NEW m \in Nat \ {0}, NEW t \in Nat, n >= t * m
  PROVE  n \div m >= t
<1>1. PICK q \in Nat, r \in Nat : q = n \div m /\ n = m * q + r /\ r < m
  BY Division
<1>2. SUFFICES ASSUME q + 1 <= t PROVE FALSE
  BY <1>1
<1>3. m * (q + 1) <= t * m
  BY <1>2
<1>4. m * (q + 1) = m * q + m /\ m * q \in Nat
  OBVIOUS
<1> QED BY <1>1, <1>3, <1>4

LEMMA ReachesIfCutOffDoes ==
  ASSUME NEW n \in Nat, NEW m \in Nat \ {0}, NEW t \in Nat, n \div m >= t
  PROVE  n >= t * m
<1>1. PICK q \in Nat, r \in Nat : q = n \div m /\ n = m * q + r /\ r < m
  BY Division
<1>2. m * t <= m * q
  BY <1>1
<1>3. m * t = t * m /\ m * t \in Nat /\ m * q \in Nat
  OBVIOUS
<1> QED BY <1>1, <1>2, <1>3

\* A higher mark out of the same total is no lower a percentage.
LEMMA PercentageRises ==
  ASSUME NEW a \in Nat, NEW b \in Nat, a <= b, NEW m \in Nat \ {0}
  PROVE  /\ PercentageHundredths(a, m) \in Nat
         /\ PercentageHundredths(a, m) <= PercentageHundredths(b, m)
<1>1. PICK n \in Nat, k \in Nat : n = a * 10000 /\ k = b * 10000 /\ n <= k
  OBVIOUS
<1>2. PICK q \in Nat, r \in Nat, u \in Nat, v \in Nat :
        /\ q = n \div m /\ r = n % m /\ u = k \div m /\ v = k % m
        /\ q <= u /\ (q = u => r <= v)
  <2>1. n \div m \in Nat /\ n % m \in Nat /\ k \div m \in Nat /\ k % m \in Nat
    BY Division
  <2>2. n \div m <= k \div m /\ (n \div m = k \div m => n % m <= k % m)
    BY <1>1, DivisionRises
  <2> QED BY <2>1, <2>2
<1>3. /\ PercentageHundredths(a, m) = IF r * 2 >= m THEN q + 1 ELSE q
      /\ PercentageHundredths(b, m) = IF v * 2 >= m THEN u + 1 ELSE u
  BY <1>1, <1>2 DEF PercentageHundredths
<1> QED BY <1>2, <1>3

---------------------------------------------------------------------------
\* One student's subjects and what comes of them.

Statuses == {"PENDING", "ENTERED", "ABSENT"}

\* What a row of marks can be: nothing yet, a mark, or an absence for none.
SoundSubject(x) ==
  /\ x.max \in Nat \ {0} /\ x.passing \in Nat /\ x.status \in Statuses
  /\ x.status = "ABSENT" => x.obtained = 0
  /\ x.status # "PENDING" => x.obtained \in Nat

SoundSubjects(subjects) ==
  /\ IsFiniteSet(DOMAIN subjects) /\ DOMAIN subjects # {}
  /\ \A p \in DOMAIN subjects : SoundSubject(subjects[p])

LEMMA TotalsAreNumbers ==
  ASSUME NEW subjects, SoundSubjects(subjects)
  PROVE  TotalObtained(subjects) \in Nat /\ TotalMax(subjects) \in Nat \ {0}
<1> DEFINE D == DOMAIN subjects
           f == [p \in D |-> subjects[p].obtained]
           g == [p \in D |-> subjects[p].max]
<1>1. IsFiniteSet(D) /\ D # {} /\ \A p \in D : g[p] \in Nat \ {0}
  BY DEF SoundSubjects, SoundSubject
<1>2. Marked(subjects) \in SUBSET D /\ \A p \in Marked(subjects) : f[p] \in Nat
  BY DEF SoundSubjects, SoundSubject, Marked
<1>3. IsFiniteSet(Marked(subjects))
  BY <1>1, <1>2, FS_Subset
<1>4. TotalObtained(subjects) = SumFunctionOnSet(f, Marked(subjects))
  BY DEF TotalObtained
<1>5. TotalMax(subjects) = SumFunctionOnSet(g, D)
  BY DEF TotalMax, SumFunction
<1> HIDE DEF f, g, D
<1>6. TotalObtained(subjects) \in Nat
  BY <1>2, <1>3, <1>4, SumIsNatural
<1>7. PICK p \in D : TRUE
  BY <1>1
<1>8. SumFunctionOnSet(g, D) = g[p] + SumFunctionOnSet(g, D \ {p})
  BY <1>1, SumTakes
<1>9. IsFiniteSet(D \ {p}) /\ \A q \in D \ {p} : g[q] \in Nat
  BY <1>1, FS_Subset
<1>10. SumFunctionOnSet(g, D \ {p}) \in Nat
  BY <1>9, SumIsNatural
<1> QED BY <1>1, <1>5, <1>6, <1>8, <1>10

\* Of some bands with a bound on their lower bounds, one has the highest.
LEMMA SomeBandIsHighest ==
  ASSUME NEW top \in Nat, NEW reached, reached # {}, \A b \in reached : b.min \in Nat /\ b.min <= top
  PROVE  \E b \in reached : \A c \in reached : c.min <= b.min
<1> DEFINE gaps == {top - c.min : c \in reached}
<1>1. gaps \in SUBSET Nat /\ gaps # {}
  <2>1. \A c \in reached : top - c.min \in Nat
    OBVIOUS
  <2> QED BY <2>1
<1>2. /\ \A d \in reached : top - d.min \in gaps
      /\ \A m \in gaps : \E c \in reached : m = top - c.min
  OBVIOUS
<1> HIDE DEF gaps
<1>3. PICK m \in gaps : \A k \in gaps : m <= k
  BY <1>1, LeastNatural
<1>4. PICK b \in reached : m = top - b.min
  BY <1>2
<1>5. ASSUME NEW c \in reached PROVE c.min <= b.min
  <2>1. top - b.min <= top - c.min
    BY <1>2, <1>3, <1>4, Zenon
  <2>2. b.min \in Nat /\ c.min \in Nat
    OBVIOUS
  <2> QED BY <2>1, <2>2
<1> QED BY <1>5

Outcomes == {"PASS", "FAIL", "INCOMPLETE"}

\* What a result says of the subjects it is made from.
LEMMA ResultSays ==
  ASSUME NEW x, NEW r, r = CalculateResult(x, Bands)
  PROVE  /\ r.totalMax = TotalMax(x) /\ r.totalObtained = TotalObtained(x)
         /\ r.percentage = PercentageHundredths(TotalObtained(x), TotalMax(x))
         /\ r.outcome \in Outcomes
         /\ r.outcome = "INCOMPLETE" <=> \E p \in DOMAIN x : SubjectOutcome(x[p]) = "PENDING"
         /\ r.outcome = "PASS" <=>
              /\ \A p \in DOMAIN x : SubjectOutcome(x[p]) \notin {"PENDING", "FAIL"}
              /\ ReachesPercentage(TotalObtained(x), TotalMax(x), OverallPassingPercentage)
         /\ r.grade = IF r.outcome = "INCOMPLETE" THEN NoGrade
                      ELSE FindGrade(Bands, TotalObtained(x), TotalMax(x))
<1> DEFINE outcomes == {SubjectOutcome(x[p]) : p \in DOMAIN x}
           reaches == ReachesPercentage(TotalObtained(x), TotalMax(x), OverallPassingPercentage)
           outcome == IF "PENDING" \in outcomes THEN "INCOMPLETE"
                      ELSE IF "FAIL" \notin outcomes /\ reaches THEN "PASS" ELSE "FAIL"
<1>1. r = [totalMax |-> TotalMax(x), totalObtained |-> TotalObtained(x), outcome |-> outcome,
           percentage |-> PercentageHundredths(TotalObtained(x), TotalMax(x)),
           grade |-> IF outcome = "INCOMPLETE" THEN NoGrade
                     ELSE FindGrade(Bands, TotalObtained(x), TotalMax(x))]
  BY DEF CalculateResult
<1>2. \A o : o \in outcomes <=> \E p \in DOMAIN x : SubjectOutcome(x[p]) = o
  OBVIOUS
<1> HIDE DEF outcomes, outcome, reaches
<1>3. /\ r.totalMax = TotalMax(x) /\ r.totalObtained = TotalObtained(x)
      /\ r.percentage = PercentageHundredths(TotalObtained(x), TotalMax(x))
      /\ r.outcome = outcome
      /\ r.grade = IF outcome = "INCOMPLETE" THEN NoGrade
                   ELSE FindGrade(Bands, TotalObtained(x), TotalMax(x))
  BY <1>1
<1>4. r.outcome \in Outcomes /\ (r.outcome = "INCOMPLETE" <=> "PENDING" \in outcomes)
      /\ (r.outcome = "PASS" <=> "PENDING" \notin outcomes /\ "FAIL" \notin outcomes /\ reaches)
  BY <1>3 DEF Outcomes, outcome
<1> QED BY <1>2, <1>3, <1>4 DEF reaches

LEMMA OutcomeSays ==
  ASSUME NEW x, x.status \in Statuses
  PROVE  /\ SubjectOutcome(x) = "PENDING" <=> x.status = "PENDING"
         /\ SubjectOutcome(x) \notin {"PENDING", "FAIL"} <=>
              x.status = "ENTERED" /\ ReachesPercentage(x.obtained, x.max, x.passing)
BY DEF SubjectOutcome, Statuses

\* To reach a threshold exactly is to reach it with the rest cut off.
LEMMA ReachesWhatIsCutOff ==
  ASSUME NEW obtained \in Nat, NEW max \in Nat \ {0}, NEW t \in Nat
  PROVE  ReachesPercentage(obtained, max, t) <=> CutOff(obtained, max) >= t
<1>1. PICK n \in Nat : n = obtained * 10000
  OBVIOUS
<1>2. ReachesPercentage(obtained, max, t) <=> n >= t * max
  BY <1>1 DEF ReachesPercentage
<1>3. CutOff(obtained, max) = n \div max
  BY <1>1 DEF CutOff
<1> QED BY <1>2, <1>3, ReachedIsReached, ReachesIfCutOffDoes

LEMMA CutOffIsNatural ==
  ASSUME NEW obtained \in Nat, NEW max \in Nat \ {0} PROVE CutOff(obtained, max) \in Nat
<1>1. PICK n \in Nat : n = obtained * 10000
  OBVIOUS
<1>2. n \div max \in Nat
  BY Division
<1> QED BY <1>1, <1>2 DEF CutOff

\* The grade that is given is the highest one the mark reaches.
LEMMA GradeIsEarned ==
  ASSUME NEW obtained \in Nat, NEW max \in Nat \ {0}
  PROVE  GradeEarned(obtained, max, FindGrade(Bands, obtained, max))
<1> DEFINE reached == {b \in Bands : b.min <= CutOff(obtained, max)}
           asked == {b \in Bands : ReachesPercentage(obtained, max, b.min)}
           highest == CHOOSE b \in reached : \A c \in reached : c.min <= b.min
<1>0. AllOfIt \in Nat
  BY DEF AllOfIt
<1>1. \A b \in Bands : b.min \in Nat /\ b.min <= AllOfIt
  BY <1>0, BandsAssumption
<1>2. CutOff(obtained, max) \in Nat
  BY CutOffIsNatural
<1>3. \A b \in Bands : ReachesPercentage(obtained, max, b.min) <=> b.min <= CutOff(obtained, max)
  BY <1>1, <1>2, ReachesWhatIsCutOff
<1>4. reached = asked
  BY <1>3
<1>5. FindGrade(Bands, obtained, max) = IF reached = {} THEN NoGrade ELSE highest.grade
  <2>1. FindGrade(Bands, obtained, max)
          = IF asked = {} THEN NoGrade ELSE (CHOOSE b \in asked : \A c \in asked : c.min <= b.min).grade
    BY DEF FindGrade
  <2> HIDE DEF asked, reached
  <2> QED BY <1>4, <2>1
<1>6. \A b \in reached : b.min \in Nat /\ b.min <= AllOfIt
  BY <1>1
<1>7. GradeEarned(obtained, max, FindGrade(Bands, obtained, max)) <=>
        \/ reached = {} /\ FindGrade(Bands, obtained, max) = NoGrade
        \/ \E b \in reached : /\ b.grade = FindGrade(Bands, obtained, max)
                              /\ \A c \in reached : c.min <= b.min
  BY DEF GradeEarned
<1> HIDE DEF reached
<1>8. CASE reached = {}
  BY <1>5, <1>7, <1>8
<1>9. CASE reached # {}
  <2>1. \E b \in reached : \A c \in reached : c.min <= b.min
    BY <1>0, <1>6, <1>9, SomeBandIsHighest
  <2>2. highest \in reached /\ \A c \in reached : c.min <= highest.min
    BY <2>1
  <2> HIDE DEF highest
  <2> QED BY <1>5, <1>7, <1>9, <2>2
<1> QED BY <1>8, <1>9

---------------------------------------------------------------------------
\* The book holds rows that were let through, and the results are the book's.
BookIsSound ==
  /\ DOMAIN book = Students
  /\ \A s \in Students :
       DOMAIN book[s] = PapersFor(s) /\ \A p \in PapersFor(s) : book[s][p] \in Rows(p)

GradeInvariant == BookIsSound /\ results = [s \in Students |-> Calculated(s, book[s])]

LEMMA GradeInitHolds == GradeInit => GradeInvariant
BY DEF GradeInit, GradeInvariant, BookIsSound, Rows

LEMMA GradeStepKeeps ==
  ASSUME GradeInvariant, [GradeNext]_<<book, results>>
  PROVE  GradeInvariant'
<1>1. CASE UNCHANGED <<book, results>>
  BY <1>1 DEF GradeInvariant, BookIsSound, Calculated, SubjectsOf
<1>2. ASSUME NEW s \in Students, NEW p \in DOMAIN PaperOf, NEW row \in Rows(p), Mark(s, p, row)
      PROVE  GradeInvariant'
  <2>1. p \in PapersFor(s) /\ book' = [book EXCEPT ![s] = [book[s] EXCEPT ![p] = row]]
    BY <1>2 DEF Mark
  <2>2. BookIsSound'
    BY <2>1 DEF GradeInvariant, BookIsSound
  <2>3. book'[s] = [book[s] EXCEPT ![p] = row] /\ \A t \in Students \ {s} : book'[t] = book[t]
    BY <2>1 DEF GradeInvariant, BookIsSound
  <2>4. results' = [results EXCEPT ![s] = Calculated(s, book'[s])]
    BY <1>2, <2>3 DEF Mark
  <2>5. results' = [t \in Students |-> Calculated(t, book'[t])]
    BY <2>3, <2>4 DEF GradeInvariant
  <2> QED BY <2>2, <2>5 DEF GradeInvariant
<1> QED BY <1>1, <1>2 DEF GradeNext

LEMMA BookGivesSubjects ==
  ASSUME NEW b, NEW s \in Students, DOMAIN b = PapersFor(s), \A p \in PapersFor(s) : b[p] \in Rows(p)
  PROVE  SoundSubjects(SubjectsOf(s, b)) /\ DOMAIN SubjectsOf(s, b) = PapersFor(s)
<1>1. IsFiniteSet(PapersFor(s)) /\ PapersFor(s) # {} /\ PapersFor(s) \in SUBSET DOMAIN PaperOf
  BY PapersAssumption, EligibleAssumption, FS_Subset DEF PapersFor
<1>2. ASSUME NEW p \in PapersFor(s) PROVE SoundSubject(SubjectsOf(s, b)[p])
  <2>1. b[p] = Unmarked \/ b[p] = [status |-> "ABSENT", obtained |-> 0]
        \/ \E v \in Nat : b[p] = [status |-> "ENTERED", obtained |-> v]
    BY PlacesAssumption DEF Rows
  <2>2. SubjectsOf(s, b)[p] = [max |-> PaperOf[p].max, passing |-> PaperOf[p].passing,
                               status |-> b[p].status, obtained |-> b[p].obtained]
    BY DEF SubjectsOf
  <2>3. PaperOf[p].max \in Nat \ {0} /\ PaperOf[p].passing \in Nat
    <3>1. p \in DOMAIN PaperOf
      BY <1>1
    <3>2. AllOfIt \in Nat
      BY DEF AllOfIt
    <3> QED BY <3>1, <3>2, PapersAssumption
  <2> QED BY <2>1, <2>2, <2>3 DEF SoundSubject, Statuses, Unmarked
<1>3. DOMAIN SubjectsOf(s, b) = PapersFor(s)
  BY DEF SubjectsOf
<1> QED BY <1>1, <1>2, <1>3 DEF SoundSubjects

\* A subject is passed, failed and graded on what was obtained, cut off.
LEMMA SubjectExactly ==
  ASSUME NEW x, SoundSubject(x), NEW y, y = CalculateSubject(x, Bands)
  PROVE  LET passes == x.status = "ENTERED" /\ CutOff(x.obtained, x.max) >= x.passing
         IN  /\ SubjectOutcome(x) = "PENDING" <=> x.status = "PENDING"
             /\ SubjectOutcome(x) \notin {"PENDING", "FAIL"} <=> passes
             /\ IF x.status = "PENDING" THEN y.outcome = "PENDING" /\ y.grade = NoGrade
                ELSE /\ y.outcome = IF passes THEN "PASS" ELSE "FAIL"
                     /\ GradeEarned(x.obtained, x.max, y.grade)
<1> DEFINE passes == x.status = "ENTERED" /\ CutOff(x.obtained, x.max) >= x.passing
<1>1. x.status \in Statuses /\ x.max \in Nat \ {0} /\ x.passing \in Nat
  BY DEF SoundSubject
<1>2. CASE x.status = "PENDING"
  <2>1. SubjectOutcome(x) = "PENDING"
    BY <1>2 DEF SubjectOutcome
  <2>2. y = [outcome |-> "PENDING", percentage |-> Nothing, grade |-> NoGrade]
    BY <1>2 DEF CalculateSubject
  <2> QED BY <1>2, <2>1, <2>2
<1>3. CASE x.status # "PENDING"
  <2>1. x.obtained \in Nat
    BY <1>3 DEF SoundSubject
  <2>2. ReachesPercentage(x.obtained, x.max, x.passing) <=> CutOff(x.obtained, x.max) >= x.passing
    BY <1>1, <2>1, ReachesWhatIsCutOff
  <2>3. SubjectOutcome(x) = IF passes THEN "PASS" ELSE "FAIL"
    BY <1>3, <2>2 DEF SubjectOutcome
  <2>4. y.outcome = SubjectOutcome(x) /\ y.grade = FindGrade(Bands, x.obtained, x.max)
    BY <1>3 DEF CalculateSubject
  <2>5. GradeEarned(x.obtained, x.max, y.grade)
    BY <1>1, <2>1, <2>4, GradeIsEarned
  <2> HIDE DEF passes
  <2>6. /\ SubjectOutcome(x) # "PENDING" /\ (SubjectOutcome(x) \notin {"PENDING", "FAIL"} <=> passes)
        /\ y.outcome = IF passes THEN "PASS" ELSE "FAIL"
    BY <2>3, <2>4
  <2> QED BY <1>3, <2>5, <2>6 DEF passes
<1> QED BY <1>2, <1>3

\* Nothing is decided on a rounded figure, whoever has whatever marks.
LEMMA ResultExactly ==
  ASSUME NEW x, SoundSubjects(x), NEW r, r = CalculateResult(x, Bands)
  PROVE  LET complete == \A p \in DOMAIN x : x[p].status # "PENDING"
             Passes(y) == y.status = "ENTERED" /\ CutOff(y.obtained, y.max) >= y.passing
         IN  /\ r.outcome = "INCOMPLETE" <=> ~complete
             /\ r.outcome = "PASS" <=>
                  /\ \A p \in DOMAIN x : Passes(x[p])
                  /\ CutOff(r.totalObtained, r.totalMax) >= OverallPassingPercentage
             /\ IF complete THEN GradeEarned(r.totalObtained, r.totalMax, r.grade) ELSE r.grade = NoGrade
<1> DEFINE passed == {p \in DOMAIN x : x[p].status = "ENTERED" /\ CutOff(x[p].obtained, x[p].max) >= x[p].passing}
           obtained == TotalObtained(x)
           max == TotalMax(x)
<1>1. obtained \in Nat /\ max \in Nat \ {0}
  BY TotalsAreNumbers
<1>2. /\ r.totalMax = max /\ r.totalObtained = obtained
      /\ r.outcome = "INCOMPLETE" <=> \E p \in DOMAIN x : SubjectOutcome(x[p]) = "PENDING"
      /\ r.outcome = "PASS" <=>
           /\ \A p \in DOMAIN x : SubjectOutcome(x[p]) \notin {"PENDING", "FAIL"}
           /\ ReachesPercentage(obtained, max, OverallPassingPercentage)
      /\ r.grade = IF r.outcome = "INCOMPLETE" THEN NoGrade ELSE FindGrade(Bands, obtained, max)
  BY ResultSays
<1> HIDE DEF obtained, max
<1>3. ReachesPercentage(obtained, max, OverallPassingPercentage)
        <=> CutOff(obtained, max) >= OverallPassingPercentage
  <2>1. OverallPassingPercentage \in Nat
    BY DEF OverallPassingPercentage
  <2> QED BY <1>1, <2>1, ReachesWhatIsCutOff
<1>4. \A p \in DOMAIN x : /\ SubjectOutcome(x[p]) = "PENDING" <=> x[p].status = "PENDING"
                          /\ SubjectOutcome(x[p]) \notin {"PENDING", "FAIL"} <=> p \in passed
  BY SubjectExactly DEF SoundSubjects
<1>5. GradeEarned(obtained, max, FindGrade(Bands, obtained, max))
  BY <1>1, GradeIsEarned
<1> HIDE DEF passed
<1>6. r.outcome = "INCOMPLETE" <=> \E p \in DOMAIN x : x[p].status = "PENDING"
  BY <1>2, <1>4
<1>7. r.outcome = "PASS" <=>
        /\ \A p \in DOMAIN x : p \in passed
        /\ CutOff(r.totalObtained, r.totalMax) >= OverallPassingPercentage
  BY <1>2, <1>3, <1>4
<1>8. r.outcome # "INCOMPLETE" => GradeEarned(r.totalObtained, r.totalMax, r.grade)
  BY <1>2, <1>5
<1>9. r.outcome = "INCOMPLETE" => r.grade = NoGrade
  BY <1>2
<1> QED BY <1>6, <1>7, <1>8, <1>9 DEF passed

\* For any students, papers, bands and marks: every pass, failure and grade, of each
\* subject and over all of them, is the one the percentage comes to before rounding,
\* and none is given while a mark is missing.
THEOREM DecidedExactlyHolds == GradeSpec => []DecidedExactly
<1>1. GradeInvariant /\ [GradeNext]_<<book, results>> => GradeInvariant'
  BY GradeStepKeeps
<1>2. GradeInvariant => DecidedExactly
  <2> SUFFICES ASSUME GradeInvariant PROVE DecidedExactly
    OBVIOUS
  <2>1. ASSUME NEW s \in Students
        PROVE  /\ SoundSubjects(SubjectsOf(s, book[s]))
               /\ results[s] = CalculateResult(SubjectsOf(s, book[s]), Bands)
    BY BookGivesSubjects DEF GradeInvariant, BookIsSound, Calculated
  <2>2. \A s \in Students : \A p \in DOMAIN SubjectsOf(s, book[s]) : SoundSubject(SubjectsOf(s, book[s])[p])
    BY <2>1 DEF SoundSubjects
  <2> QED BY <2>1, <2>2, ResultExactly, SubjectExactly DEF DecidedExactly
<1> QED BY <1>1, <1>2, GradeInitHolds, PTL DEF GradeSpec

---------------------------------------------------------------------------
\* The order of a ranking and the positions along it.

\* The figures a student is ranked by.
Rankable(ranked, res) ==
  IsFiniteSet(ranked) /\ \A s \in ranked : res[s].outcome \in Outcomes /\ res[s].totalObtained \in Nat

\* In any ranking that is not empty there is one who comes before nobody.
LEMMA SomebodyIsLast ==
  ASSUME NEW ranked, NEW res, Rankable(ranked, res), ranked # {}
  PROVE  \E x \in ranked : \A t \in ranked : ~Before(res[x], res[t])
<1> DEFINE failed == {s \in ranked : res[s].outcome # "PASS"}
           last == IF failed = {} THEN ranked ELSE failed
           totals == {res[s].totalObtained : s \in last}
<1>1. last \in SUBSET ranked /\ last # {}
  OBVIOUS
<1>2. totals \in SUBSET Nat /\ totals # {}
  BY <1>1 DEF Rankable
<1>3. PICK m \in totals : \A k \in totals : m <= k
  <2> HIDE DEF totals
  <2> QED BY <1>2, LeastNatural
<1>4. PICK x \in last : m = res[x].totalObtained
  OBVIOUS
<1>5. \A t \in last : res[x].totalObtained <= res[t].totalObtained
  BY <1>3, <1>4
<1>6. ASSUME NEW t \in ranked PROVE ~Before(res[x], res[t])
  <2>1. res[x].totalObtained \in Nat /\ res[t].totalObtained \in Nat
    BY <1>1 DEF Rankable
  <2>2. CASE t \in last
    <3>1. res[x].totalObtained <= res[t].totalObtained
      BY <1>5, <2>2
    <3>2. res[x].outcome = "PASS" => res[t].outcome = "PASS"
      BY <2>2, <1>1
    <3> QED BY <2>1, <3>1, <3>2 DEF Before
  <2>3. CASE t \notin last
    <3>1. res[x].outcome # "PASS" /\ res[t].outcome = "PASS"
      BY <2>3, <1>4
    <3> QED BY <3>1 DEF Before
  <2> QED BY <2>2, <2>3
<1> QED BY <1>1, <1>6

InOrder(order, ranked, res) ==
  /\ order \in Injection(1 .. Cardinality(ranked), ranked)
  /\ \A i, j \in 1 .. Cardinality(ranked) : i < j => ~Before(res[order[j]], res[order[i]])

LEMMA OrderExists ==
  ASSUME NEW ranked, NEW res, Rankable(ranked, res)
  PROVE  \E order : InOrder(order, ranked, res)
<1> DEFINE odd == {U \in SUBSET ranked : ~\E order : InOrder(order, U, res)}
<1>1. SUFFICES ASSUME odd # {} PROVE FALSE
  <2>1. ranked \notin odd => \E order : InOrder(order, ranked, res)
    OBVIOUS
  <2> QED BY <1>1, <2>1
<1>2. PICK T \in odd : \A U \in odd : U \subseteq T => U = T
  <2>1. odd \in SUBSET (SUBSET ranked)
    OBVIOUS
  <2> HIDE DEF odd
  <2> QED BY <1>1, <2>1, SmallestSet DEF Rankable
<1>3. Rankable(T, res)
  BY FS_Subset DEF Rankable
<1>4. T # {}
  <2>1. SUFFICES ASSUME T = {} PROVE \E order : InOrder(order, T, res)
    OBVIOUS
  <2>2. 1 .. Cardinality(T) = {}
    BY <2>1, FS_EmptySet
  <2>3. [i \in {} |-> i] \in Injection({}, T)
    BY DEF Injection, IsInjective
  <2> QED BY <2>2, <2>3 DEF InOrder
<1>5. PICK x \in T : \A t \in T : ~Before(res[x], res[t])
  BY <1>3, <1>4, SomebodyIsLast
<1>6. PICK V : V = T \ {x}
  OBVIOUS
<1>7. V \in SUBSET ranked /\ V \subseteq T /\ V # T
  BY <1>6
<1>8. PICK before : InOrder(before, V, res)
  BY <1>2, <1>7
<1>9. ~\E o : InOrder(o, T, res)
  OBVIOUS
<1> HIDE DEF odd
<1>10. PICK n \in Nat : n = Cardinality(V) /\ Cardinality(T) = n + 1
  <2>1. IsFiniteSet(T) /\ IsFiniteSet(V) /\ Cardinality(V) = Cardinality(T) - 1
    BY <1>3, <1>6, FS_RemoveElement DEF Rankable
  <2>2. Cardinality(T) \in Nat /\ Cardinality(V) \in Nat
    BY <2>1, FS_CardinalityType
  <2> QED BY <2>1, <2>2
<1>11. before \in [1 .. n -> V] /\ \A i, j \in 1 .. n : before[i] = before[j] => i = j
  BY <1>8, <1>10 DEF InOrder, Injection, IsInjective
<1> DEFINE order == [i \in 1 .. n + 1 |-> IF i = n + 1 THEN x ELSE before[i]]
<1>12. order \in [1 .. n + 1 -> T] /\ \A i, j \in 1 .. n + 1 : order[i] = order[j] => i = j
  BY <1>6, <1>11
<1>13. ASSUME NEW i \in 1 .. n + 1, NEW j \in 1 .. n + 1, i < j
       PROVE  ~Before(res[order[j]], res[order[i]])
  <2>1. CASE j = n + 1
    <3>1. order[j] = x /\ order[i] \in T
      BY <1>12, <2>1
    <3> QED BY <1>5, <3>1
  <2>2. CASE j # n + 1
    <3>1. i \in 1 .. n /\ j \in 1 .. n /\ order[i] = before[i] /\ order[j] = before[j]
      BY <1>13, <2>2
    <3> QED BY <1>8, <1>10, <1>13, <3>1 DEF InOrder
  <2> QED BY <2>1, <2>2
<1> HIDE DEF order
<1>14. order \in Injection(1 .. n + 1, T)
  BY <1>12 DEF Injection, IsInjective
<1>15. InOrder(order, T, res)
  BY <1>10, <1>13, <1>14 DEF InOrder
<1> QED BY <1>9, <1>15

LEMMA OrderOfFigures ==
  ASSUME NEW a, NEW b, NEW c,
         a.totalObtained \in Nat, b.totalObtained \in Nat, c.totalObtained \in Nat
  PROVE  /\ Tied(a, a) /\ (Tied(a, b) => ~Before(a, b))
         /\ Tied(a, b) /\ Tied(b, c) => Tied(a, c)
         /\ ~Before(b, a) /\ ~Tied(a, b) => Before(a, b)
         /\ ~Before(b, a) /\ Before(b, c) => Before(a, c)
         /\ Before(a, b) /\ Tied(b, c) => Before(a, c)
BY DEF Tied, Before

\* An order reaches everybody it ranks.
LEMMA OrderReachesAll ==
  ASSUME NEW ranked, NEW res, NEW order, Rankable(ranked, res), InOrder(order, ranked, res)
  PROVE  /\ Cardinality(ranked) \in Nat
         /\ \A i \in 1 .. Cardinality(ranked) : order[i] \in ranked
         /\ \A i, j \in 1 .. Cardinality(ranked) : order[i] = order[j] => i = j
         /\ \A s \in ranked : \E i \in 1 .. Cardinality(ranked) : order[i] = s
<1>1. PICK n \in Nat : n = Cardinality(ranked)
  BY FS_CardinalityType DEF Rankable
<1>2. IsFiniteSet(1 .. n) /\ Cardinality(1 .. n) = n /\ IsFiniteSet(ranked)
  BY FS_Interval DEF Rankable
<1>3. order \in Injection(1 .. n, ranked)
  BY <1>1 DEF InOrder
<1>4. order \in Surjection(1 .. n, ranked)
  BY <1>1, <1>2, <1>3, FS_Injection
<1>5. order \in [1 .. n -> ranked] /\ \A i, j \in 1 .. n : order[i] = order[j] => i = j
  BY <1>3 DEF Injection, IsInjective
<1>6. \A s \in ranked : \E i \in 1 .. n : order[i] = s
  BY <1>4 DEF Surjection
<1> QED BY <1>1, <1>5, <1>6

\* k is where the row of ties begins in which the i-th stands.
RowBegins(order, res, i, k) ==
  /\ k \in 1 .. i
  /\ k = 1 \/ ~Tied(res[order[k - 1]], res[order[k]])
  /\ \A j \in k + 1 .. i : Tied(res[order[j - 1]], res[order[j]])

LEMMA SomeRowBegins ==
  ASSUME NEW order, NEW res, NEW i \in Nat \ {0}
  PROVE  \E k \in 1 .. i : RowBegins(order, res, i, k)
<1> DEFINE ks == {k \in 1 .. i : \A j \in k + 1 .. i : Tied(res[order[j - 1]], res[order[j]])}
<1>1. ks \in SUBSET Nat /\ i \in ks
  OBVIOUS
<1>2. PICK k \in ks : \A m \in ks : k <= m
  <2> HIDE DEF ks
  <2> QED BY <1>1, LeastNatural
<1>3. k \in 1 .. i /\ \A j \in k + 1 .. i : Tied(res[order[j - 1]], res[order[j]])
  OBVIOUS
<1>4. ASSUME k # 1, Tied(res[order[k - 1]], res[order[k]]) PROVE FALSE
  <2>1. k - 1 \in 1 .. i
    BY <1>3, <1>4
  <2>2. ASSUME NEW j \in (k - 1) + 1 .. i PROVE Tied(res[order[j - 1]], res[order[j]])
    <3>1. j = k \/ j \in k + 1 .. i
      BY <1>3
    <3> QED BY <1>3, <1>4, <3>1
  <2>3. k - 1 \in ks
    BY <2>1, <2>2
  <2> QED BY <1>2, <1>3, <2>3
<1> QED BY <1>3, <1>4 DEF RowBegins

\* All of the row are tied with the one it begins for.
LEMMA RowIsTied ==
  ASSUME NEW order, NEW res, NEW i \in Nat \ {0}, NEW k \in 1 .. i, RowBegins(order, res, i, k),
         \A j \in 1 .. i : res[order[j]].totalObtained \in Nat
  PROVE  \A j \in k .. i : Tied(res[order[j]], res[order[i]])
<1> DEFINE odd == {d \in 0 .. i - k : ~Tied(res[order[i - d]], res[order[i]])}
<1>1. SUFFICES ASSUME odd # {} PROVE FALSE
  <2>1. SUFFICES ASSUME NEW j \in k .. i, odd = {} PROVE Tied(res[order[j]], res[order[i]])
    BY <1>1
  <2>2. PICK d \in 0 .. i - k : d = i - j /\ i - d = j
    OBVIOUS
  <2>3. d \notin odd
    BY <2>1
  <2> QED BY <2>2, <2>3
<1>2. PICK d \in odd : \A e \in odd : d <= e
  <2>1. odd \in SUBSET Nat
    OBVIOUS
  <2> HIDE DEF odd
  <2> QED BY <1>1, <2>1, LeastNatural
<1>3. d \in 0 .. i - k /\ ~Tied(res[order[i - d]], res[order[i]])
  OBVIOUS
<1>4. d # 0
  <2>1. Tied(res[order[i]], res[order[i]])
    BY DEF Tied
  <2> QED BY <1>3, <2>1
<1>5. PICK j \in k + 1 .. i : j = i - d + 1
  BY <1>3, <1>4
<1>6. d - 1 \in 0 .. i - k /\ i - (d - 1) = j /\ i - d = j - 1 /\ j - 1 \in 1 .. i /\ j \in 1 .. i
  BY <1>3, <1>4, <1>5
<1>7. d - 1 \notin odd
  BY <1>2, <1>3
<1>8. Tied(res[order[j]], res[order[i]])
  BY <1>6, <1>7
<1>9. Tied(res[order[j - 1]], res[order[j]])
  BY <1>5 DEF RowBegins
<1>10. Tied(res[order[j - 1]], res[order[i]])
  BY <1>8, <1>9 DEF Tied
<1> QED BY <1>3, <1>6, <1>10

\* The row begins one after those who come before.
LEMMA PositionCounts ==
  ASSUME NEW ranked, NEW res, NEW order, Rankable(ranked, res), InOrder(order, ranked, res),
         NEW i \in 1 .. Cardinality(ranked), NEW k, RowBegins(order, res, i, k)
  PROVE  k = Cardinality({t \in ranked : Before(res[t], res[order[i]])}) + 1
<1> DEFINE ahead == {t \in ranked : Before(res[t], res[order[i]])}
<1>1. PICK n \in Nat : n = Cardinality(ranked)
  BY OrderReachesAll
<1>2. /\ \A j \in 1 .. n : order[j] \in ranked
      /\ \A j, m \in 1 .. n : order[j] = order[m] => j = m
      /\ \A s \in ranked : \E j \in 1 .. n : order[j] = s
  BY <1>1, OrderReachesAll
<1>3. \A j \in 1 .. n : res[order[j]].totalObtained \in Nat
  BY <1>2 DEF Rankable
<1>4. i \in 1 .. n /\ i \in Nat \ {0} /\ k \in 1 .. i /\ k \in 1 .. n
  BY <1>1 DEF RowBegins
<1>5. \A j, m \in 1 .. n : j < m => ~Before(res[order[m]], res[order[j]])
  BY <1>1 DEF InOrder
<1>6. \A j \in k .. i : Tied(res[order[j]], res[order[i]])
  <2>1. \A j \in 1 .. i : res[order[j]].totalObtained \in Nat
    BY <1>3, <1>4
  <2> QED BY <1>4, <2>1, RowIsTied
<1>7. ASSUME NEW j \in 1 .. n PROVE Before(res[order[j]], res[order[i]]) <=> j < k
  <2>1. CASE j < k
    <3>1. k - 1 \in 1 .. n /\ k # 1
      BY <1>4, <2>1
    <3>2. ~Tied(res[order[k - 1]], res[order[k]]) /\ ~Before(res[order[k]], res[order[k - 1]])
      BY <1>4, <1>5, <3>1 DEF RowBegins
    <3>3. Before(res[order[k - 1]], res[order[k]])
      BY <1>3, <1>4, <3>1, <3>2, OrderOfFigures
    <3>4. Before(res[order[j]], res[order[k]])
      <4>1. CASE j = k - 1
        BY <3>3, <4>1
      <4>2. CASE j # k - 1
        <5>1. ~Before(res[order[k - 1]], res[order[j]])
          BY <1>4, <1>5, <2>1, <3>1, <4>2
        <5> QED BY <1>3, <1>4, <3>1, <3>3, <5>1, OrderOfFigures
      <4> QED BY <4>1, <4>2
    <3>5. Tied(res[order[k]], res[order[i]])
      BY <1>4, <1>6
    <3>6. Before(res[order[j]], res[order[i]])
      BY <1>3, <1>4, <3>4, <3>5, OrderOfFigures
    <3> QED BY <2>1, <3>6
  <2>2. CASE k <= j /\ j <= i
    <3>1. Tied(res[order[j]], res[order[i]])
      BY <1>4, <1>6, <2>2
    <3>2. ~Before(res[order[j]], res[order[i]])
      BY <1>3, <1>4, <3>1, OrderOfFigures
    <3> QED BY <1>4, <2>2, <3>2
  <2>3. CASE i < j
    BY <1>4, <1>5, <2>3
  <2> QED BY <1>4, <2>1, <2>2, <2>3
<1>8. \A j \in 1 .. k - 1 : j \in 1 .. n /\ j < k
  BY <1>4
<1> DEFINE first == [j \in 1 .. k - 1 |-> order[j]]
<1>9. first \in Bijection(1 .. k - 1, ahead)
  <2>1. \A j \in 1 .. k - 1 : order[j] \in ahead
    BY <1>2, <1>7, <1>8
  <2>2. \A t \in ahead : \E j \in 1 .. k - 1 : order[j] = t
    <3>1. SUFFICES ASSUME NEW t \in ahead PROVE \E j \in 1 .. k - 1 : order[j] = t
      OBVIOUS
    <3>2. PICK j \in 1 .. n : order[j] = t
      BY <1>2
    <3>3. j < k
      BY <1>7, <3>2
    <3> QED BY <1>4, <3>2, <3>3
  <2>3. \A j, m \in 1 .. k - 1 : order[j] = order[m] => j = m
    BY <1>2, <1>8
  <2> HIDE DEF ahead
  <2>4. first \in [1 .. k - 1 -> ahead]
    BY <2>1
  <2>5. first \in Injection(1 .. k - 1, ahead)
    BY <2>3, <2>4 DEF Injection, IsInjective
  <2>6. first \in Surjection(1 .. k - 1, ahead)
    BY <2>2, <2>4 DEF Surjection
  <2> QED BY <2>5, <2>6 DEF Bijection
<1> HIDE DEF first, ahead
<1>10. ExistsBijection(1 .. k - 1, ahead)
  BY <1>9 DEF ExistsBijection
<1>11. IsFiniteSet(1 .. k - 1) /\ Cardinality(1 .. k - 1) = k - 1
  <2>1. 1 \in Int /\ k - 1 \in Int /\ (1 > k - 1 => k - 1 = 0) /\ (k - 1) - 1 + 1 = k - 1
    BY <1>4
  <2> QED BY <2>1, FS_Interval
<1>12. Cardinality(ahead) = k - 1
  BY <1>10, <1>11, FS_Bijection
<1>13. k = Cardinality(ahead) + 1
  BY <1>4, <1>12
<1> QED BY <1>13 DEF ahead

\* The position assigned is one more than the number of those who come before.
LEMMA SortedIsInOrder ==
  ASSUME NEW ranked, NEW res, Rankable(ranked, res)
  PROVE  InOrder(Sorted(ranked, res), ranked, res)
<1>1. PICK o : InOrder(o, ranked, res)
  BY OrderExists
<1>2. \E p \in Injection(1 .. Cardinality(ranked), ranked) :
        \A i, j \in 1 .. Cardinality(ranked) : i < j => ~Before(res[p[j]], res[p[i]])
  BY <1>1 DEF InOrder
<1> QED BY <1>2 DEF Sorted, InOrder

LEMMA PlacePosition ==
  ASSUME NEW ranked, NEW res, NEW order, Rankable(ranked, res), InOrder(order, ranked, res),
         NEW s \in ranked
  PROVE  PositionAlong(order, res, CHOOSE i \in 1 .. Cardinality(ranked) : order[i] = s)
           = Cardinality({t \in ranked : Before(res[t], res[s])}) + 1
<1>1. PICK i : i = CHOOSE j \in 1 .. Cardinality(ranked) : order[j] = s
  OBVIOUS
<1>2. i \in 1 .. Cardinality(ranked) /\ order[i] = s /\ Cardinality(ranked) \in Nat
  BY <1>1, OrderReachesAll
<1>3. PICK k : k = PositionAlong(order, res, i)
  OBVIOUS
<1>4. RowBegins(order, res, i, k)
  <2>1. i \in Nat \ {0}
    BY <1>2
  <2>2. \E m \in 1 .. i : /\ m = 1 \/ ~Tied(res[order[m - 1]], res[order[m]])
                          /\ \A j \in m + 1 .. i : Tied(res[order[j - 1]], res[order[j]])
    BY <2>1, SomeRowBegins DEF RowBegins
  <2> QED BY <1>3, <2>2 DEF PositionAlong, RowBegins
<1>5. k = Cardinality({t \in ranked : Before(res[t], res[order[i]])}) + 1
  BY <1>2, <1>4, PositionCounts
<1> QED BY <1>1, <1>2, <1>3, <1>5

LEMMA AssignedPosition ==
  ASSUME NEW res, Rankable({t \in DOMAIN res : res[t].outcome # "INCOMPLETE"}, res),
         NEW s \in DOMAIN res
  PROVE  LET ranked == {t \in DOMAIN res : res[t].outcome # "INCOMPLETE"}
         IN  AssignPositions(res)[s] =
               IF s \in ranked THEN Cardinality({t \in ranked : Before(res[t],
                    res[s])}) + 1 ELSE Nothing
<1> DEFINE ranked == {t \in DOMAIN res : res[t].outcome # "INCOMPLETE"}
           order == Sorted(ranked, res)
<1>1. AssignPositions(res)[s] =
        IF s \in ranked
        THEN PositionAlong(order, res, CHOOSE i \in 1 .. Cardinality(ranked) : order[i] = s)
        ELSE Nothing
  BY DEF AssignPositions
<1>2. Rankable(ranked, res)
  OBVIOUS
<1> HIDE DEF ranked, order
<1>3. InOrder(order, ranked, res)
  BY <1>2, SortedIsInOrder DEF order
<1>4. s \in ranked => PositionAlong(order, res, CHOOSE i \in 1 .. Cardinality(ranked) : order[i] = s)
                         = Cardinality({t \in ranked : Before(res[t], res[s])}) + 1
  BY <1>2, <1>3, PlacePosition
<1>5. AssignPositions(res)[s] =
        IF s \in ranked THEN Cardinality({t \in ranked : Before(res[t], res[s])}) + 1 ELSE Nothing
  BY <1>1, <1>4
<1> QED BY <1>5 DEF ranked

---------------------------------------------------------------------------
\* The results of the book, ranked.

LEMMA ResultsAreSound ==
  ASSUME GradeInvariant, NEW s \in Students
  PROVE  /\ results[s] = CalculateResult(SubjectsOf(s, book[s]), Bands)
         /\ SoundSubjects(SubjectsOf(s, book[s])) /\ DOMAIN SubjectsOf(s, book[s]) = PapersFor(s)
         /\ results[s].outcome \in Outcomes
         /\ results[s].totalObtained \in Nat /\ results[s].totalMax \in Nat \ {0}
         /\ results[s].totalMax = TotalMax(SubjectsOf(s, book[s]))
         /\ results[s].totalObtained = TotalObtained(SubjectsOf(s, book[s]))
         /\ results[s].percentage = PercentageHundredths(results[s].totalObtained, results[s].totalMax)
<1>1. PICK x : x = SubjectsOf(s, book[s])
  OBVIOUS
<1>2. PICK r : r = results[s]
  OBVIOUS
<1>3. r = CalculateResult(x, Bands)
  BY <1>1, <1>2 DEF GradeInvariant, Calculated
<1>4. SoundSubjects(x) /\ DOMAIN x = PapersFor(s)
  BY <1>1, BookGivesSubjects DEF GradeInvariant, BookIsSound
<1>5. /\ r.totalMax = TotalMax(x) /\ r.totalObtained = TotalObtained(x) /\ r.outcome \in Outcomes
      /\ r.percentage = PercentageHundredths(TotalObtained(x), TotalMax(x))
  BY <1>3, ResultSays
<1>6. TotalObtained(x) \in Nat /\ TotalMax(x) \in Nat \ {0}
  BY <1>4, TotalsAreNumbers
<1> QED BY <1>1, <1>2, <1>3, <1>4, <1>5, <1>6

\* What the papers of a student come to, whatever the marks.
LEMMA MaxOfThePapers ==
  ASSUME NEW s, NEW rows
  PROVE  TotalMax(SubjectsOf(s, rows)) = SumFunction([p \in PapersFor(s) |-> PaperOf[p].max])
<1>1. [p \in DOMAIN SubjectsOf(s, rows) |-> SubjectsOf(s, rows)[p].max]
        = [p \in PapersFor(s) |-> PaperOf[p].max]
  BY DEF SubjectsOf
<1> QED BY <1>1 DEF TotalMax

LEMMA PeersSitTheSame ==
  ASSUME NEW s \in Students, NEW t \in Students, Peers(s, t)
  PROVE  PapersFor(s) = PapersFor(t)
<1>1. Places[s].class = Places[t].class /\ Places[s].program = Places[t].program
  BY PlacesAssumption DEF Peers, RankingGroupKey
<1> QED BY <1>1 DEF PapersFor

LEMMA SameRankingSamePapersHolds == GradeInvariant => SameRankingSamePapers
<1> SUFFICES ASSUME GradeInvariant, NEW s \in Students, NEW t \in Students, Peers(s, t)
             PROVE  results[s].totalMax = results[t].totalMax
  BY DEF SameRankingSamePapers
<1>1. /\ results[s].totalMax = SumFunction([p \in PapersFor(s) |-> PaperOf[p].max])
      /\ results[t].totalMax = SumFunction([p \in PapersFor(t) |-> PaperOf[p].max])
  BY ResultsAreSound, MaxOfThePapers
<1> QED BY <1>1, PeersSitTheSame

\* The classmates who come before a student, by what assignPositions compares.
InFront(s) ==
  {t \in Students : Peers(s, t) /\ results[t].outcome # "INCOMPLETE" /\ Before(results[t], results[s])}

LEMMA PositionOf ==
  ASSUME GradeInvariant, NEW s \in Students
  PROVE  Positions[s] = IF results[s].outcome = "INCOMPLETE" THEN Nothing
                        ELSE Cardinality(InFront(s)) + 1
<1> DEFINE peers == {t \in DOMAIN results : RankingGroupKey(Scope,
     Places[t]) = RankingGroupKey(Scope, Places[s])}
           res == [t \in peers |-> results[t]]
           ranked == {t \in DOMAIN res : res[t].outcome # "INCOMPLETE"}
<1>1. DOMAIN results = Students
  BY DEF GradeInvariant
<1>2. Positions[s] = AssignPositions(res)[s]
  BY <1>1 DEF Positions, AssignPositionsByScope
<1>3. \A t : t \in peers <=> t \in Students /\ Peers(s, t)
  BY <1>1 DEF Peers
<1>4. s \in peers /\ DOMAIN res = peers /\ \A t \in peers : res[t] = results[t]
  BY <1>3 DEF Peers
<1>5. \A t : t \in ranked <=> t \in Students /\ Peers(s, t) /\ results[t].outcome # "INCOMPLETE"
  BY <1>3, <1>4
<1>6. Rankable(ranked, res)
  <2>1. IsFiniteSet(ranked)
    <3>1. ranked \in SUBSET Students
      BY <1>5
    <3> HIDE DEF ranked
    <3> QED BY <3>1, PlacesAssumption, FS_Subset
  <2>2. ASSUME NEW t \in ranked PROVE res[t].outcome \in Outcomes /\ res[t].totalObtained \in Nat
    <3>1. t \in Students /\ res[t] = results[t]
      BY <1>4, <1>5
    <3> HIDE DEF res, ranked
    <3> QED BY <3>1, ResultsAreSound
  <2> HIDE DEF res, ranked
  <2> QED BY <2>1, <2>2 DEF Rankable
<1>7. AssignPositions(res)[s] =
        IF s \in ranked THEN Cardinality({t \in ranked : Before(res[t], res[s])}) + 1 ELSE Nothing
  <2> HIDE DEF res
  <2> QED BY <1>4, <1>6, AssignedPosition
<1>8. s \in ranked <=> results[s].outcome # "INCOMPLETE"
  BY <1>4
<1>9. {t \in ranked : Before(res[t], res[s])} = InFront(s)
  <2> HIDE DEF res, peers, ranked
  <2>1. \A t \in ranked : res[t] = results[t]
    BY <1>3, <1>4, <1>5
  <2> QED BY <1>4, <1>5, <2>1 DEF InFront
<1> HIDE DEF res, peers, ranked
<1> QED BY <1>2, <1>7, <1>8, <1>9

LEMMA PositionsAreHonestHolds == GradeInvariant => PositionsAreHonest
<1> SUFFICES ASSUME GradeInvariant PROVE PositionsAreHonest
  OBVIOUS
<1> DEFINE Ahead(s) ==
             {t \in Students :
                /\ Peers(s, t) /\ results[t].outcome # "INCOMPLETE"
                /\ \/ results[t].outcome = "PASS" /\ results[s].outcome = "FAIL"
                   \/ /\ results[t].outcome = results[s].outcome
                      /\ results[t].totalObtained > results[s].totalObtained}
<1>1. ASSUME NEW s \in Students, results[s].outcome # "INCOMPLETE" PROVE InFront(s) = Ahead(s)
  <2>1. \A t \in Students : results[t].outcome \in Outcomes
    BY ResultsAreSound
  <2> QED BY <1>1, <2>1 DEF InFront, Before, Outcomes
<1>2. ASSUME NEW s \in Students
      PROVE  Positions[s] = IF results[s].outcome = "INCOMPLETE" THEN Nothing ELSE Cardinality(Ahead(s)) +
           1
  <2> HIDE DEF Ahead
  <2> QED BY <1>1, <1>2, PositionOf
<1> HIDE DEF Ahead
<1>3. \A s \in Students :
        Positions[s] = IF results[s].outcome = "INCOMPLETE" THEN Nothing ELSE Cardinality(Ahead(s)) + 1
  BY <1>2
<1> QED BY <1>3 DEF PositionsAreHonest, Ahead

\* For any students, papers, places and scope: who is ranked together sat the same
\* papers, and a position is one more than the number of those strictly ahead, with
\* ties sharing it; who has a mark missing has none.
THEOREM RankedHonestlyHolds == GradeSpec => []RankedHonestly
<1>1. GradeInvariant /\ [GradeNext]_<<book, results>> => GradeInvariant'
  BY GradeStepKeeps
<1>2. GradeInvariant => RankedHonestly
  BY SameRankingSamePapersHolds, PositionsAreHonestHolds DEF RankedHonestly
<1> QED BY <1>1, <1>2, GradeInitHolds, PTL DEF GradeSpec

---------------------------------------------------------------------------
\* Marks count upwards.

LEMMA ObtainedGrows ==
  ASSUME NEW x, NEW y, SoundSubjects(x), SoundSubjects(y), DOMAIN x = DOMAIN y,
         \A p \in DOMAIN x : x[p].status # "PENDING" =>
           y[p].status # "PENDING" /\ x[p].obtained <= y[p].obtained
  PROVE  TotalObtained(x) <= TotalObtained(y)
<1> DEFINE f == [p \in DOMAIN x |-> x[p].obtained]
           g == [p \in DOMAIN y |-> y[p].obtained]
<1>1. Marked(x) \in SUBSET Marked(y) /\ Marked(y) \in SUBSET DOMAIN y /\ Marked(x) \in SUBSET DOMAIN x
  BY DEF Marked
<1>2. \A p \in Marked(x) : f[p] \in Nat /\ f[p] <= g[p]
  BY DEF Marked, SoundSubjects, SoundSubject
<1>3. \A p \in Marked(y) : g[p] \in Nat
  BY DEF Marked, SoundSubjects, SoundSubject
<1>4. IsFiniteSet(Marked(y))
  BY <1>1, FS_Subset DEF SoundSubjects
<1>5. TotalObtained(x) = SumFunctionOnSet(f, Marked(x)) /\ TotalObtained(y) = SumFunctionOnSet(g,
     Marked(y))
  BY DEF TotalObtained
<1> HIDE DEF f, g
<1> QED BY <1>1, <1>2, <1>3, <1>4, <1>5, SumGrows

\* What is known of every result, now and after any step.
ResultsFit ==
  \A s \in Students :
    /\ results[s] = CalculateResult(SubjectsOf(s, book[s]), Bands)
    /\ SoundSubjects(SubjectsOf(s, book[s])) /\ DOMAIN SubjectsOf(s, book[s]) = PapersFor(s)
    /\ results[s].outcome \in Outcomes
    /\ results[s].totalObtained \in Nat /\ results[s].totalMax \in Nat \ {0}
    /\ results[s].totalMax = TotalMax(SubjectsOf(s, book[s]))
    /\ results[s].totalObtained = TotalObtained(SubjectsOf(s, book[s]))
    /\ results[s].percentage = PercentageHundredths(results[s].totalObtained, results[s].totalMax)

PositionsFit ==
  \A s \in Students :
    Positions[s] = IF results[s].outcome = "INCOMPLETE" THEN Nothing ELSE Cardinality(InFront(s)) + 1

LEMMA ResultsFitHolds == GradeInvariant => ResultsFit
BY ResultsAreSound DEF ResultsFit

LEMMA PositionsFitHolds == GradeInvariant => PositionsFit
BY PositionOf DEF PositionsFit

LEMMA NextFits == GradeInvariant' => ResultsFit' /\ PositionsFit'
BY ResultsFitHolds, PositionsFitHolds, PTL

LEMMA TheRestOnlyAdds ==
  ASSUME ResultsFit, ResultsFit', NEW s \in Students,
         \A p \in PapersFor(s) : book[s][p].status # "PENDING" => book'[s][p] = book[s][p]
  PROVE  results'[s].percentage >= results[s].percentage
<1>1. PICK x, y : x = SubjectsOf(s, book[s]) /\ y = SubjectsOf(s, book'[s])
  OBVIOUS
<1>2. SoundSubjects(x) /\ SoundSubjects(y) /\ DOMAIN x = PapersFor(s) /\ DOMAIN y = PapersFor(s)
  BY <1>1 DEF ResultsFit
<1>3. ASSUME NEW p \in DOMAIN x, x[p].status # "PENDING"
      PROVE  y[p].status # "PENDING" /\ x[p].obtained <= y[p].obtained
  <2>1. x[p].status = book[s][p].status /\ x[p].obtained = book[s][p].obtained
    BY <1>1, <1>2 DEF SubjectsOf
  <2>2. y[p].status = book'[s][p].status /\ y[p].obtained = book'[s][p].obtained
    BY <1>1, <1>2 DEF SubjectsOf
  <2>3. x[p].obtained \in Nat
    BY <1>2, <1>3 DEF SoundSubjects, SoundSubject
  <2>4. book'[s][p] = book[s][p]
    BY <1>2, <1>3, <2>1
  <2> QED BY <1>3, <2>1, <2>2, <2>3, <2>4
<1>4. TotalObtained(x) <= TotalObtained(y)
  BY <1>2, <1>3, ObtainedGrows
<1>5. TotalMax(x) = TotalMax(y)
  BY <1>1, MaxOfThePapers
<1>6. PICK a \in Nat, b \in Nat, m \in Nat \ {0} :
        /\ a = TotalObtained(x) /\ b = TotalObtained(y) /\ m = TotalMax(x)
        /\ results[s].percentage = PercentageHundredths(a, m)
        /\ results'[s].percentage = PercentageHundredths(b, m)
  BY <1>1, <1>2, <1>5, TotalsAreNumbers DEF ResultsFit
<1>7. PercentageHundredths(a, m) \in Nat /\ PercentageHundredths(b, m) \in Nat
  BY PercentageRises
<1>8. PercentageHundredths(a, m) <= PercentageHundredths(b, m)
  BY <1>4, <1>6, PercentageRises
<1> QED BY <1>6, <1>7, <1>8

LEMMA ReachesMore ==
  ASSUME NEW a \in Nat, NEW b \in Nat, a <= b, NEW m \in Nat, NEW t \in Nat, ReachesPercentage(a, m, t)
  PROVE  ReachesPercentage(b, m, t)
BY DEF ReachesPercentage

\* A better mark: a pass stays one, nothing is missing, and the total is no lower.
LEMMA BetterIsBetter ==
  ASSUME ResultsFit, ResultsFit', NEW s \in Students, DOMAIN book[s] = PapersFor(s),
         BetterThan(book'[s], book[s])
  PROVE  /\ results[s].outcome = "PASS" => results'[s].outcome = "PASS"
         /\ results[s].outcome # "INCOMPLETE" /\ results'[s].outcome # "INCOMPLETE"
         /\ results[s].totalObtained <= results'[s].totalObtained
<1>1. PICK x, y : x = SubjectsOf(s, book[s]) /\ y = SubjectsOf(s, book'[s])
  OBVIOUS
<1>2. SoundSubjects(x) /\ SoundSubjects(y) /\ DOMAIN x = PapersFor(s) /\ DOMAIN y = PapersFor(s)
  BY <1>1 DEF ResultsFit
<1>3. ASSUME NEW p \in PapersFor(s)
      PROVE  /\ x[p].max = y[p].max /\ x[p].passing = y[p].passing
             /\ x[p].max \in Nat /\ x[p].passing \in Nat
             /\ x[p].status \in Statuses /\ y[p].status \in Statuses
             /\ x[p].status # "PENDING" /\ y[p].status # "PENDING"
             /\ y[p].status = "ABSENT" => x[p].status = "ABSENT"
             /\ x[p].obtained \in Nat /\ y[p].obtained \in Nat /\ x[p].obtained <= y[p].obtained
  <2>1. /\ x[p].max = PaperOf[p].max /\ x[p].passing = PaperOf[p].passing
        /\ x[p].status = book[s][p].status /\ x[p].obtained = book[s][p].obtained
    BY <1>1 DEF SubjectsOf
  <2>2. /\ y[p].max = PaperOf[p].max /\ y[p].passing = PaperOf[p].passing
        /\ y[p].status = book'[s][p].status /\ y[p].obtained = book'[s][p].obtained
    BY <1>1 DEF SubjectsOf
  <2>3. SoundSubject(x[p]) /\ SoundSubject(y[p])
    BY <1>2 DEF SoundSubjects
  <2>4. /\ "PENDING" \notin {book[s][p].status, book'[s][p].status}
        /\ book'[s][p].obtained >= book[s][p].obtained
        /\ book'[s][p].status = "ABSENT" => book[s][p].status = "ABSENT"
    BY DEF BetterThan
  <2> QED BY <2>1, <2>2, <2>3, <2>4 DEF SoundSubject
<1>4. TotalObtained(x) <= TotalObtained(y)
  BY <1>2, <1>3, ObtainedGrows
<1>5. TotalMax(x) = TotalMax(y)
  BY <1>1, MaxOfThePapers
<1>6. TotalObtained(x) \in Nat /\ TotalObtained(y) \in Nat /\ TotalMax(x) \in Nat
  BY <1>2, TotalsAreNumbers
<1>7. PICK r, q : r = results[s] /\ q = results'[s]
  OBVIOUS
<1>8. /\ r = CalculateResult(x, Bands) /\ q = CalculateResult(y, Bands)
      /\ r.totalObtained = TotalObtained(x) /\ q.totalObtained = TotalObtained(y)
  BY <1>1, <1>7 DEF ResultsFit
<1>9. r.outcome # "INCOMPLETE" /\ q.outcome # "INCOMPLETE"
  <2>1. \A p \in PapersFor(s) : SubjectOutcome(x[p]) # "PENDING" /\ SubjectOutcome(y[p]) # "PENDING"
    BY <1>3, OutcomeSays
  <2> QED BY <1>2, <1>8, <2>1, ResultSays
<1>10. ASSUME r.outcome = "PASS" PROVE q.outcome = "PASS"
  <2>1. /\ \A p \in PapersFor(s) : SubjectOutcome(x[p]) \notin {"PENDING", "FAIL"}
        /\ ReachesPercentage(TotalObtained(x), TotalMax(x), OverallPassingPercentage)
    BY <1>2, <1>8, <1>10, ResultSays
  <2>2. ASSUME NEW p \in PapersFor(s) PROVE SubjectOutcome(y[p]) \notin {"PENDING", "FAIL"}
    <3>1. PICK u, v : u = x[p] /\ v = y[p]
      OBVIOUS
    <3>2. u.status = "ENTERED" /\ ReachesPercentage(u.obtained, u.max, u.passing)
      BY <1>3, <2>1, <3>1, OutcomeSays
    <3>3. v.status = "ENTERED"
      BY <1>3, <3>1, <3>2 DEF Statuses
    <3>4. ReachesPercentage(v.obtained, u.max, u.passing)
      BY <1>3, <3>1, <3>2, ReachesMore
    <3>5. ReachesPercentage(v.obtained, v.max, v.passing)
      BY <1>3, <3>1, <3>4
    <3> QED BY <3>1, <3>3, <3>5, OutcomeSays DEF Statuses
  <2>3. OverallPassingPercentage \in Nat
    BY DEF OverallPassingPercentage
  <2>4. ReachesPercentage(TotalObtained(y), TotalMax(y), OverallPassingPercentage)
    BY <1>4, <1>5, <1>6, <2>1, <2>3, ReachesMore
  <2> QED BY <1>2, <1>8, <2>2, <2>4, ResultSays
<1> QED BY <1>4, <1>7, <1>8, <1>9, <1>10

LEMMA NobodyOvertakes ==
  ASSUME GradeInvariant, GradeInvariant', NEW s \in Students,
         \A t \in Students \ {s} : book'[t] = book[t], BetterThan(book'[s], book[s])
  PROVE  Positions'[s] <= Positions[s]
<1>1. ResultsFit /\ PositionsFit /\ ResultsFit' /\ PositionsFit'
  BY ResultsFitHolds, PositionsFitHolds, NextFits
<1>2. /\ results[s].outcome = "PASS" => results'[s].outcome = "PASS"
      /\ results[s].outcome # "INCOMPLETE" /\ results'[s].outcome # "INCOMPLETE"
      /\ results[s].totalObtained <= results'[s].totalObtained
  BY <1>1, BetterIsBetter DEF GradeInvariant, BookIsSound
<1>3. \A t \in Students \ {s} : results'[t] = results[t]
  BY DEF GradeInvariant, Calculated, SubjectsOf
<1>4. InFront(s)' \in SUBSET InFront(s)
  <2>1. SUFFICES ASSUME NEW t \in Students, Peers(s, t), results'[t].outcome # "INCOMPLETE",
                        Before(results'[t], results'[s])
                 PROVE  t \in InFront(s)
    BY DEF InFront, Peers
  <2>2. PICK a, b, c : a = results'[t] /\ b = results'[s] /\ c = results[s]
    OBVIOUS
  <2>3. a.totalObtained \in Nat /\ b.totalObtained \in Nat /\ c.totalObtained \in Nat
    BY <1>1, <2>2 DEF ResultsFit
  <2>4. t # s
    BY <2>1, <2>2, <2>3 DEF Before
  <2>5. results[t] = a
    BY <1>3, <2>2, <2>4
  <2>6. Before(a, c)
    BY <1>2, <2>1, <2>2, <2>3 DEF Before
  <2> QED BY <2>1, <2>2, <2>5, <2>6 DEF InFront
<1>5. IsFiniteSet(InFront(s))
  <2>1. InFront(s) \in SUBSET Students
    BY DEF InFront
  <2> QED BY <2>1, PlacesAssumption, FS_Subset
<1>6. PICK A, B : A = InFront(s)' /\ B = InFront(s)
  OBVIOUS
<1>7. IsFiniteSet(A) /\ Cardinality(A) <= Cardinality(B)
  BY <1>4, <1>5, <1>6, FS_Subset
<1>8. Cardinality(A) \in Nat /\ Cardinality(B) \in Nat
  BY <1>5, <1>6, <1>7, FS_CardinalityType
<1>9. Positions[s] = Cardinality(B) + 1 /\ Positions'[s] = Cardinality(A) + 1
  BY <1>1, <1>2, <1>6 DEF PositionsFit
<1> QED BY <1>7, <1>8, <1>9

LEMMA StepsCountUpwards ==
  ASSUME GradeInvariant, GradeInvariant'
  PROVE  OnlyRises /\ HurtsNobody
<1>1. ResultsFit /\ ResultsFit'
  BY ResultsFitHolds, NextFits
<1>2. OnlyRises
  BY <1>1, TheRestOnlyAdds DEF OnlyRises
<1>3. HurtsNobody
  <2> SUFFICES ASSUME NEW s \in Students, \A t \in Students \ {s} : book'[t] = book[t],
                      BetterThan(book'[s], book[s])
               PROVE  /\ results[s].outcome = "PASS" => results'[s].outcome = "PASS"
                      /\ Positions'[s] <= Positions[s]
    BY DEF HurtsNobody
  <2>1. DOMAIN book[s] = PapersFor(s)
    BY DEF GradeInvariant, BookIsSound
  <2>2. results[s].outcome = "PASS" => results'[s].outcome = "PASS"
    BY <1>1, <2>1, BetterIsBetter
  <2> QED BY <2>2, NobodyOvertakes
<1> QED BY <1>2, <1>3

\* For any students, papers and marks, entered and corrected in any order: while marks
\* come in a percentage only rises, and a better mark costs its student neither the
\* pass nor a place.
THEOREM MarksCountUpwardsHolds == GradeSpec => MarksCountUpwards
<1>1. GradeInvariant /\ [GradeNext]_<<book, results>> => GradeInvariant'
  BY GradeStepKeeps
<1>2. GradeInvariant /\ GradeInvariant' => OnlyRises /\ HurtsNobody
  BY StepsCountUpwards
<1> QED BY <1>1, <1>2, GradeInitHolds, PTL
        DEF GradeSpec, MarksCountUpwards, RisesWithTheRest, BetterMarkNeverHurts

---------------------------------------------------------------------------
\* What the table lets in.

\* The CHECKs results_totals_sane and results_percentage_valid.
ResultsAreSane ==
  \A s \in Students :
    /\ results[s].totalObtained \in 0 .. results[s].totalMax
    /\ results[s].percentage \in 0 .. AllOfIt

LEMMA ObtainedWithinMax ==
  ASSUME NEW x, SoundSubjects(x), \A p \in Marked(x) : x[p].obtained <= x[p].max
  PROVE  TotalObtained(x) <= TotalMax(x)
<1> DEFINE f == [p \in DOMAIN x |-> x[p].obtained]
           g == [p \in DOMAIN x |-> x[p].max]
<1>1. Marked(x) \in SUBSET DOMAIN x /\ IsFiniteSet(DOMAIN x)
  BY DEF Marked, SoundSubjects
<1>2. \A p \in Marked(x) : f[p] \in Nat /\ f[p] <= g[p]
  BY DEF Marked, SoundSubjects, SoundSubject
<1>3. \A p \in DOMAIN x : g[p] \in Nat
  BY DEF SoundSubjects, SoundSubject
<1>4. TotalObtained(x) = SumFunctionOnSet(f, Marked(x)) /\ TotalMax(x) = SumFunctionOnSet(g, DOMAIN x)
  BY DEF TotalObtained, TotalMax, SumFunction
<1> HIDE DEF f, g
<1> QED BY <1>1, <1>2, <1>3, <1>4, SumGrows

LEMMA AllOfItIsTheMost ==
  ASSUME NEW a \in Nat, NEW m \in Nat \ {0}, a <= m
  PROVE  PercentageHundredths(a, m) \in 0 .. AllOfIt
<1>1. PICK n \in Nat : n = m * 10000
  OBVIOUS
<1>2. n \div m = 10000 /\ n % m = 0
  <2>1. PICK q \in Nat, r \in Nat : q = n \div m /\ r = n % m /\ n = m * q + r /\ r < m
    BY Division
  <2>2. q <= 10000
    <3>1. SUFFICES ASSUME 10001 <= q PROVE FALSE
      OBVIOUS
    <3>2. m * 10001 <= m * q
      BY <3>1
    <3>3. m * 10001 = n + m /\ m * q \in Nat
      BY <1>1
    <3> QED BY <2>1, <3>2, <3>3
  <2>3. 10000 <= q
    <3>1. SUFFICES ASSUME q + 1 <= 10000 PROVE FALSE
      OBVIOUS
    <3>2. m * (q + 1) <= m * 10000
      BY <3>1
    <3>3. m * (q + 1) = m * q + m /\ m * q \in Nat
      OBVIOUS
    <3> QED BY <1>1, <2>1, <3>2, <3>3
  <2>4. q = 10000
    BY <2>2, <2>3
  <2>5. n = m * 10000 + r
    BY <2>1, <2>4
  <2> QED BY <1>1, <2>1, <2>4, <2>5
<1>3. PercentageHundredths(m, m) = 10000
  <2>1. ~((n % m) * 2 >= m)
    BY <1>2
  <2> QED BY <1>1, <1>2, <2>1 DEF PercentageHundredths
<1>4. /\ PercentageHundredths(a, m) \in Nat
      /\ PercentageHundredths(a, m) <= PercentageHundredths(m, m)
  BY PercentageRises
<1>5. PercentageHundredths(m, m) = AllOfIt /\ AllOfIt \in Nat
  BY <1>3 DEF AllOfIt
<1> QED BY <1>4, <1>5

LEMMA ResultIsSane ==
  ASSUME GradeInvariant, NEW s \in Students
  PROVE  /\ results[s].totalObtained \in 0 .. results[s].totalMax
         /\ results[s].percentage \in 0 .. AllOfIt
<1>1. PICK x : x = SubjectsOf(s, book[s])
  OBVIOUS
<1>2. SoundSubjects(x) /\ DOMAIN x = PapersFor(s)
  BY <1>1, ResultsAreSound
<1>3. \A p \in Marked(x) : x[p].obtained <= x[p].max
  <2>1. SUFFICES ASSUME NEW p \in PapersFor(s), book[s][p].status # "PENDING"
                 PROVE  book[s][p].obtained <= PaperOf[p].max
    BY <1>1, <1>2 DEF Marked, SubjectsOf
  <2>2. PICK row : row = book[s][p]
    OBVIOUS
  <2>3. row \in Rows(p) /\ row.status # "PENDING"
    BY <2>1, <2>2 DEF GradeInvariant, BookIsSound
  <2>4. PaperOf[p].max \in Nat
    BY PapersAssumption DEF PapersFor
  <2>5. row.obtained <= PaperOf[p].max
    <3>1. CASE row = [status |-> "ABSENT", obtained |-> 0]
      BY <2>4, <3>1
    <3>2. CASE row = Unmarked
      BY <2>3, <3>2 DEF Unmarked
    <3>3. CASE \E v \in MarkValues : v <= PaperOf[p].max /\ row = [status |-> "ENTERED", obtained |-> v]
      BY <3>3
    <3> QED BY <2>3, <3>1, <3>2, <3>3 DEF Rows
  <2> QED BY <2>2, <2>5
<1>4. PICK a \in Nat, m \in Nat \ {0} :
        /\ a = results[s].totalObtained /\ m = results[s].totalMax /\ a <= m
        /\ results[s].percentage = PercentageHundredths(a, m)
  <2>1. TotalObtained(x) <= TotalMax(x)
    BY <1>2, <1>3, ObtainedWithinMax
  <2>2. /\ results[s].totalObtained = TotalObtained(x) /\ results[s].totalMax = TotalMax(x)
        /\ results[s].totalObtained \in Nat /\ results[s].totalMax \in Nat \ {0}
        /\ results[s].percentage = PercentageHundredths(results[s].totalObtained, results[s].totalMax)
    BY <1>1, ResultsAreSound
  <2> QED BY <2>1, <2>2
<1>5. PercentageHundredths(a, m) \in 0 .. AllOfIt
  BY <1>4, AllOfItIsTheMost
<1> QED BY <1>4, <1>5

\* For any students, papers and marks that were let through: a result never claims more
\* than was on offer nor more than a hundred per cent, so the table's CHECKs never
\* refuse one.
THEOREM ResultsAreSaneHolds == GradeSpec => []ResultsAreSane
<1>1. GradeInvariant /\ [GradeNext]_<<book, results>> => GradeInvariant'
  BY GradeStepKeeps
<1>2. GradeInvariant => ResultsAreSane
  BY ResultIsSane DEF ResultsAreSane
<1> QED BY <1>1, <1>2, GradeInitHolds, PTL DEF GradeSpec

==============================================================================
