------------------------------ MODULE SumFacts ------------------------------
(***************************************************************************)
(* Sums of the values of a function over a finite set: what                *)
(* SumFunctionOnSet of the Functions module returns, how it changes when   *)
(* an element comes or goes, and when one sum is at most another.  The     *)
(* arguments by induction are arguments about a least counterexample.      *)
(***************************************************************************)
EXTENDS Integers, FiniteSets, Functions, FiniteSetTheorems, TLAPS

Pick(s) == CHOOSE x \in s : TRUE

\* g is the function the fold of Functions defines over the subsets of S.
Totals(g, q, S) ==
    g = [s \in SUBSET S |-> IF s = {} THEN 0 ELSE q[Pick(s)] + g[s \ {Pick(s)}]]

LEMMA SumIsTotals ==
  ASSUME NEW q, NEW S
  PROVE  SumFunctionOnSet(q, S) = (CHOOSE g : Totals(g, q, S))[S]
  BY DEF SumFunctionOnSet, FoldFunctionOnSet, MapThenFoldSet, Totals, Pick

\* Among finite sets there is one no other is a proper subset of.
LEMMA MinimalSet ==
  ASSUME NEW Bad, Bad # {}, \A s \in Bad : IsFiniteSet(s)
  PROVE  \E s \in Bad : \A t \in Bad : t \subseteq s => t = s
<1> DEFINE S == UNION Bad
<1>1. Bad \subseteq FiniteSubsetsOf(S)
  BY DEF FiniteSubsetsOf
<1>2. IsWellFoundedOn(StrictSubsetOrdering(S), FiniteSubsetsOf(S))
  BY FS_StrictSubsetOrderingWellFounded
<1>3. PICK s \in Bad : \A t \in Bad : ~ (<<t, s>> \in StrictSubsetOrdering(S))
  BY <1>1, <1>2, WFMin
<1>4. ASSUME NEW t \in Bad, t \subseteq s, t # s PROVE FALSE
  BY <1>3, <1>4 DEF StrictSubsetOrdering
<1> QED
  BY <1>4

LEMMA FiniteRest ==
  ASSUME NEW s, IsFiniteSet(s), NEW x
  PROVE  IsFiniteSet(s \ {x})
  BY FS_RemoveElement

LEMMA PickIn == \A s : s # {} => Pick(s) \in s
  BY DEF Pick

\* On the subsets that two of them share, two such functions agree.
LEMMA TotalsAgree ==
  ASSUME NEW q, NEW S, IsFiniteSet(S), NEW T \in SUBSET S,
         NEW f, Totals(f, q, S), NEW g, Totals(g, q, T)
  PROVE  \A s \in SUBSET T : f[s] = g[s]
<1> DEFINE Bad == {s \in SUBSET T : f[s] # g[s]}
<1> SUFFICES ASSUME Bad # {} PROVE FALSE
  OBVIOUS
<1>0. Bad # {}
  OBVIOUS
<1>1. \A s \in Bad : IsFiniteSet(s)
  BY FS_Subset
<1> HIDE DEF Bad
<1>2. PICK s \in Bad : \A t \in Bad : t \subseteq s => t = s
  BY <1>0, <1>1, MinimalSet
<1> USE DEF Bad
<1> DEFINE p == Pick(s)
<1>3. f[s] = IF s = {} THEN 0 ELSE q[p] + f[s \ {p}]
  BY DEF Totals
<1>4. g[s] = IF s = {} THEN 0 ELSE q[p] + g[s \ {p}]
  BY DEF Totals
<1>5. s # {}
  BY <1>3, <1>4
<1>6. s \ {p} \notin Bad
  BY <1>2, <1>5, PickIn
<1>7. f[s \ {p}] = g[s \ {p}]
  BY <1>6
<1> QED
  BY <1>3, <1>4, <1>5, <1>7

\* There is such a function.
LEMMA TotalsExist ==
  ASSUME NEW q, NEW S, IsFiniteSet(S)
  PROVE  \E g : Totals(g, q, S)
<1> DEFINE Bad == {T \in SUBSET S : ~ \E g : Totals(g, q, T)}
<1> SUFFICES ASSUME Bad # {} PROVE FALSE
  OBVIOUS
<1>0. Bad # {}
  OBVIOUS
<1>1. \A T \in Bad : IsFiniteSet(T)
  BY FS_Subset
<1> HIDE DEF Bad
<1>2. PICK T \in Bad : \A U \in Bad : U \subseteq T => U = T
  BY <1>0, <1>1, MinimalSet
<1>3. T \in SUBSET S /\ ~ \E g : Totals(g, q, T)
  BY DEF Bad
<1> DEFINE G(U) == CHOOSE g : Totals(g, q, U)
           Rest(s) == s \ {Pick(s)}
           g == [s \in SUBSET T |-> IF s = {} THEN 0 ELSE q[Pick(s)] + G(Rest(s))[Rest(s)]]
<1>4. ASSUME NEW U \in SUBSET T, U # T PROVE Totals(G(U), q, U)
  <2>1. U \notin Bad /\ U \in SUBSET S
    BY <1>2, <1>3, <1>4
  <2>2. \E h : Totals(h, q, U)
    BY <2>1 DEF Bad
  <2> QED
    BY <2>2
<1>5. ASSUME NEW s \in SUBSET T, s # {} PROVE g[Rest(s)] = G(Rest(s))[Rest(s)]
  <2> DEFINE u == Rest(s)
  <2>1. u \in SUBSET T /\ u # T
    BY <1>5, PickIn
  <2>2. Totals(G(u), q, u)
    BY <1>4, <2>1
  <2>3. CASE u = {}
    <3> HIDE DEF G
    <3> QED BY <2>1, <2>2, <2>3 DEF Totals
  <2>4. CASE u # {}
    <3> DEFINE v == Rest(u)
    <3>1. v \in SUBSET u /\ v \in SUBSET T /\ v # T
      BY <2>1, <2>4, PickIn
    <3>2. Totals(G(v), q, v)
      BY <1>4, <3>1
    <3>3. IsFiniteSet(u)
      BY <1>3, <2>1, FS_Subset
    <3> HIDE DEF G, u, v
    <3>4. \A t \in SUBSET v : G(u)[t] = G(v)[t]
      BY <2>2, <3>1, <3>2, <3>3, TotalsAgree
    <3>5. G(u)[u] = q[Pick(u)] + G(u)[v]
      BY <2>2, <2>4 DEF Totals, v
    <3>6. g[u] = q[Pick(u)] + G(v)[v]
      BY <2>1, <2>4 DEF v
    <3>7. g[u] = G(u)[u]
      BY <3>4, <3>5, <3>6
    <3> QED
      BY <3>7 DEF u
  <2> QED
    BY <2>3, <2>4
<1>6. Totals(g, q, T)
  <2> HIDE DEF G
  <2> QED
    BY <1>5 DEF Totals
<1> QED
  BY <1>3, <1>6

\* The equation the sum is defined by.
LEMMA SumEquation ==
  ASSUME NEW q, NEW S, IsFiniteSet(S)
  PROVE  SumFunctionOnSet(q, S) =
           IF S = {} THEN 0 ELSE q[Pick(S)] + SumFunctionOnSet(q, S \ {Pick(S)})
<1> DEFINE G(U) == CHOOSE g : Totals(g, q, U)
           R == S \ {Pick(S)}
<1>1. Totals(G(S), q, S) /\ Totals(G(R), q, R)
  BY TotalsExist, FiniteRest
<1>2. SumFunctionOnSet(q, S) = G(S)[S] /\ SumFunctionOnSet(q, R) = G(R)[R]
  BY SumIsTotals
<1> HIDE DEF G
<1>3. R \in SUBSET S
  OBVIOUS
<1> HIDE DEF R
<1>4. G(S)[R] = G(R)[R]
  BY <1>1, <1>3, TotalsAgree
<1>5. G(S)[S] = IF S = {} THEN 0 ELSE q[Pick(S)] + G(S)[R]
  BY <1>1 DEF Totals, R
<1> QED
  BY <1>2, <1>4, <1>5 DEF R

-----------------------------------------------------------------------------
(***************************************************************************)
(* What is used elsewhere.                                                 *)
(***************************************************************************)

\* A sum over nothing is nothing.
LEMMA SumEmpty == \A q : SumFunctionOnSet(q, {}) = 0
  BY SumEquation, FS_EmptySet

\* A sum of naturals is a natural.
LEMMA SumType ==
  ASSUME NEW D, NEW q \in [D -> Nat], NEW S \in SUBSET D, IsFiniteSet(S)
  PROVE  SumFunctionOnSet(q, S) \in Nat
<1> DEFINE Bad == {T \in SUBSET S : SumFunctionOnSet(q, T) \notin Nat}
<1> SUFFICES ASSUME Bad # {} PROVE FALSE
  OBVIOUS
<1>0. Bad # {}
  OBVIOUS
<1>1. \A T \in Bad : IsFiniteSet(T)
  BY FS_Subset
<1> HIDE DEF Bad
<1>2. PICK T \in Bad : \A U \in Bad : U \subseteq T => U = T
  BY <1>0, <1>1, MinimalSet
<1>3. T \in SUBSET S /\ SumFunctionOnSet(q, T) \notin Nat
  BY DEF Bad
<1> DEFINE R == T \ {Pick(T)}
<1>4. SumFunctionOnSet(q, T) = IF T = {} THEN 0 ELSE q[Pick(T)] + SumFunctionOnSet(q, R)
  BY <1>1, SumEquation
<1>5. T # {} /\ Pick(T) \in T
  BY <1>3, <1>4, PickIn
<1>6. R \notin Bad /\ R \in SUBSET S
  BY <1>2, <1>3, <1>5
<1>7. SumFunctionOnSet(q, R) \in Nat
  BY <1>6 DEF Bad
<1>8. q[Pick(T)] \in Nat
  BY <1>3, <1>5
<1> QED
  BY <1>3, <1>4, <1>5, <1>7, <1>8

\* Any element can be taken out of a sum.
LEMMA SumRemove ==
  ASSUME NEW D, NEW q \in [D -> Nat], NEW S \in SUBSET D, IsFiniteSet(S), NEW x \in S
  PROVE  SumFunctionOnSet(q, S) = q[x] + SumFunctionOnSet(q, S \ {x})
<1> DEFINE Holds(T) == \A y \in T : SumFunctionOnSet(q, T) = q[y] + SumFunctionOnSet(q, T \ {y})
           Bad == {T \in SUBSET S : ~ Holds(T)}
<1> SUFFICES ASSUME Bad # {} PROVE FALSE
  OBVIOUS
<1>0. Bad # {}
  OBVIOUS
<1>1. \A T \in Bad : IsFiniteSet(T)
  BY FS_Subset
<1> HIDE DEF Bad
<1>2. PICK T \in Bad : \A U \in Bad : U \subseteq T => U = T
  BY <1>0, <1>1, MinimalSet
<1>3. T \in SUBSET S /\ ~ Holds(T) /\ IsFiniteSet(T)
  BY <1>1 DEF Bad
<1>4. PICK y \in T : SumFunctionOnSet(q, T) # q[y] + SumFunctionOnSet(q, T \ {y})
  BY <1>3
<1> DEFINE p == Pick(T)
<1>5. p \in T /\ SumFunctionOnSet(q, T) = q[p] + SumFunctionOnSet(q, T \ {p})
  BY <1>3, <1>4, SumEquation, PickIn
<1>6. p # y
  BY <1>4, <1>5
<1>7. Holds(T \ {p}) /\ Holds(T \ {y})
  <2>1. T \ {p} \notin Bad /\ T \ {y} \notin Bad
    BY <1>2, <1>5
  <2> QED
    BY <1>3, <2>1 DEF Bad
<1> DEFINE R == T \ {p, y}
<1>8. (T \ {p}) \ {y} = R /\ (T \ {y}) \ {p} = R
  OBVIOUS
<1>9. SumFunctionOnSet(q, T \ {p}) = q[y] + SumFunctionOnSet(q, R)
  BY <1>6, <1>7, <1>8
<1>10. SumFunctionOnSet(q, T \ {y}) = q[p] + SumFunctionOnSet(q, R)
  BY <1>5, <1>6, <1>7, <1>8
<1>11. SumFunctionOnSet(q, R) \in Nat /\ q[p] \in Nat /\ q[y] \in Nat
  <2>1. R \in SUBSET D /\ IsFiniteSet(R)
    BY <1>3, FS_Subset
  <2> QED
    BY <1>3, <1>5, <2>1, SumType
<1> QED
  BY <1>4, <1>5, <1>9, <1>10, <1>11

\* An element that was not there adds its value.
LEMMA SumAdd ==
  ASSUME NEW D, NEW q \in [D -> Nat], NEW S \in SUBSET D, IsFiniteSet(S), NEW x \in D, x \notin S
  PROVE  SumFunctionOnSet(q, S \cup {x}) = q[x] + SumFunctionOnSet(q, S)
<1>1. IsFiniteSet(S \cup {x}) /\ S \cup {x} \in SUBSET D /\ (S \cup {x}) \ {x} = S
  BY FS_AddElement
<1> QED
  BY <1>1, SumRemove

\* A sum over fewer elements is at most as much.
LEMMA SumMonotone ==
  ASSUME NEW D, NEW q \in [D -> Nat], NEW S \in SUBSET D, IsFiniteSet(S), NEW T \in SUBSET S
  PROVE  SumFunctionOnSet(q, T) <= SumFunctionOnSet(q, S)
<1> DEFINE Bad == {U \in SUBSET S : T \subseteq U /\ ~ SumFunctionOnSet(q, T) <= SumFunctionOnSet(q, U)}
<1> SUFFICES ASSUME Bad # {} PROVE FALSE
  OBVIOUS
<1>0. Bad # {}
  OBVIOUS
<1>1. \A U \in Bad : IsFiniteSet(U)
  BY FS_Subset
<1> HIDE DEF Bad
<1>2. PICK U \in Bad : \A V \in Bad : V \subseteq U => V = U
  BY <1>0, <1>1, MinimalSet
<1>3. /\ U \in SUBSET S /\ T \subseteq U /\ IsFiniteSet(U)
      /\ ~ SumFunctionOnSet(q, T) <= SumFunctionOnSet(q, U)
  BY <1>1 DEF Bad
<1>4. SumFunctionOnSet(q, T) \in Nat
  BY FS_Subset, SumType
<1>5. PICK x \in U : x \notin T
  BY <1>3, <1>4
<1> DEFINE V == U \ {x}
<1>6. V \notin Bad /\ V \in SUBSET S /\ T \subseteq V
  BY <1>2, <1>3, <1>5
<1>7. SumFunctionOnSet(q, T) <= SumFunctionOnSet(q, V)
  BY <1>6 DEF Bad
<1>8. SumFunctionOnSet(q, U) = q[x] + SumFunctionOnSet(q, V)
  BY <1>3, SumRemove
<1>9. SumFunctionOnSet(q, V) \in Nat /\ q[x] \in Nat
  <2>1. V \in SUBSET D /\ IsFiniteSet(V)
    BY <1>6, FS_Subset
  <2> QED
    BY <1>3, <2>1, SumType
<1> QED
  BY <1>3, <1>4, <1>7, <1>8, <1>9

\* A sum is at most another when what only the first has counts for nothing.
LEMMA SumAtMost ==
  ASSUME NEW D, NEW q \in [D -> Nat], NEW S \in SUBSET D, IsFiniteSet(S),
         NEW T \in SUBSET D, IsFiniteSet(T), \A x \in T \ S : q[x] = 0
  PROVE  SumFunctionOnSet(q, T) <= SumFunctionOnSet(q, S)
<1> DEFINE Bad == {U \in SUBSET T : ~ SumFunctionOnSet(q, U) <= SumFunctionOnSet(q, S)}
<1> SUFFICES ASSUME Bad # {} PROVE FALSE
  OBVIOUS
<1>0. Bad # {}
  OBVIOUS
<1>1. \A U \in Bad : IsFiniteSet(U)
  BY FS_Subset
<1> HIDE DEF Bad
<1>2. PICK U \in Bad : \A V \in Bad : V \subseteq U => V = U
  BY <1>0, <1>1, MinimalSet
<1>3. /\ U \in SUBSET T /\ IsFiniteSet(U)
      /\ ~ SumFunctionOnSet(q, U) <= SumFunctionOnSet(q, S)
  BY <1>1 DEF Bad
<1>4. PICK x \in U : x \notin S
  BY <1>3, SumMonotone
<1> DEFINE V == U \ {x}
<1>5. V \notin Bad /\ V \in SUBSET T
  BY <1>2, <1>3, <1>4
<1>6. SumFunctionOnSet(q, V) <= SumFunctionOnSet(q, S)
  BY <1>5 DEF Bad
<1>7. SumFunctionOnSet(q, U) = 0 + SumFunctionOnSet(q, V)
  BY <1>3, <1>4, SumRemove
<1>8. SumFunctionOnSet(q, V) \in Nat
  <2>1. V \in SUBSET D /\ IsFiniteSet(V)
    BY <1>5, FS_Subset
  <2> QED
    BY <2>1, SumType
<1> QED
  BY <1>3, <1>6, <1>7, <1>8

\* Functions that agree on a set have the same sum over it.
LEMMA SumAgree ==
  ASSUME NEW q, NEW r, NEW S, IsFiniteSet(S), \A x \in S : q[x] = r[x]
  PROVE  SumFunctionOnSet(q, S) = SumFunctionOnSet(r, S)
<1> DEFINE Bad == {T \in SUBSET S : SumFunctionOnSet(q, T) # SumFunctionOnSet(r, T)}
<1> SUFFICES ASSUME Bad # {} PROVE FALSE
  OBVIOUS
<1>0. Bad # {}
  OBVIOUS
<1>1. \A T \in Bad : IsFiniteSet(T)
  BY FS_Subset
<1> HIDE DEF Bad
<1>2. PICK T \in Bad : \A U \in Bad : U \subseteq T => U = T
  BY <1>0, <1>1, MinimalSet
<1>3. T \in SUBSET S /\ SumFunctionOnSet(q, T) # SumFunctionOnSet(r, T) /\ IsFiniteSet(T)
  BY <1>1 DEF Bad
<1> DEFINE R == T \ {Pick(T)}
<1>4. /\ SumFunctionOnSet(q, T) = IF T = {} THEN 0 ELSE q[Pick(T)] + SumFunctionOnSet(q, R)
      /\ SumFunctionOnSet(r, T) = IF T = {} THEN 0 ELSE r[Pick(T)] + SumFunctionOnSet(r, R)
  BY <1>3, SumEquation
<1>5. T # {} /\ Pick(T) \in T
  BY <1>3, <1>4, PickIn
<1>6. R \notin Bad /\ R \in SUBSET S
  BY <1>2, <1>3, <1>5
<1>7. SumFunctionOnSet(q, R) = SumFunctionOnSet(r, R)
  BY <1>6 DEF Bad
<1> QED
  BY <1>3, <1>4, <1>5, <1>7

\* A set of natural numbers that is not empty has a smallest element.
LEMMA SmallestNumber ==
  ASSUME NEW S \in SUBSET Nat, S # {}
  PROVE  \E x \in S : \A y \in S : x <= y
<1> DEFINE Less == {p \in Nat \X Nat : p[1] < p[2]}
<1>1. IsWellFoundedOn(Less, Nat)
  BY NatLessThanWellFounded DEF OpToRel
<1> HIDE DEF Less
<1>2. PICK x \in S : \A y \in S : ~ (<<y, x>> \in Less)
  BY <1>1, WFMin
<1>3. ASSUME NEW y \in S PROVE x <= y
  <2>1. x \in Nat /\ y \in Nat
    OBVIOUS
  <2>2. ~ (y < x)
    BY <1>2, <2>1 DEF Less
  <2> QED
    BY <2>1, <2>2
<1> QED
  BY <1>3

\* One value changed, and the sum with it.
LEMMA SumChange ==
  ASSUME NEW D, NEW q \in [D -> Nat], NEW r \in [D -> Nat], NEW S \in SUBSET D, IsFiniteSet(S),
         NEW x \in D, \A y \in S : y # x => r[y] = q[y]
  PROVE  /\ x \in S => SumFunctionOnSet(r, S) + q[x] = SumFunctionOnSet(q, S) + r[x]
         /\ x \notin S => SumFunctionOnSet(r, S) = SumFunctionOnSet(q, S)
<1>1. CASE x \notin S
  BY <1>1, SumAgree
<1>2. CASE x \in S
  <2> DEFINE R == S \ {x}
  <2>1. IsFiniteSet(R) /\ R \in SUBSET D
    BY FiniteRest
  <2>2. SumFunctionOnSet(r, R) = SumFunctionOnSet(q, R)
    BY <2>1, SumAgree
  <2>3. SumFunctionOnSet(r, S) = r[x] + SumFunctionOnSet(r, R)
    BY <1>2, SumRemove
  <2>4. SumFunctionOnSet(q, S) = q[x] + SumFunctionOnSet(q, R)
    BY <1>2, SumRemove
  <2>5. SumFunctionOnSet(q, R) \in Nat /\ q[x] \in Nat /\ r[x] \in Nat
    BY <2>1, SumType
  <2> QED
    BY <1>2, <2>2, <2>3, <2>4, <2>5
<1> QED
  BY <1>1, <1>2

\* A sum of values of which none is above b.
LEMMA SumBound ==
  ASSUME NEW D, NEW q \in [D -> Nat], NEW S \in SUBSET D, IsFiniteSet(S),
         NEW b \in Nat, \A x \in S : q[x] <= b
  PROVE  SumFunctionOnSet(q, S) <= Cardinality(S) * b
<1> DEFINE Bad == {T \in SUBSET S : ~ SumFunctionOnSet(q, T) <= Cardinality(T) * b}
<1> SUFFICES ASSUME Bad # {} PROVE FALSE
  OBVIOUS
<1>0. Bad # {}
  OBVIOUS
<1>1. \A T \in Bad : IsFiniteSet(T)
  BY FS_Subset
<1> HIDE DEF Bad
<1>2. PICK T \in Bad : \A U \in Bad : U \subseteq T => U = T
  BY <1>0, <1>1, MinimalSet
<1>3. /\ T \in SUBSET S /\ IsFiniteSet(T)
      /\ ~ SumFunctionOnSet(q, T) <= Cardinality(T) * b
  BY <1>1 DEF Bad
<1>4. CASE T = {}
  <2>1. SumFunctionOnSet(q, T) = 0 /\ Cardinality(T) = 0
    BY <1>4, SumEmpty, FS_EmptySet
  <2> QED
    BY <1>3, <2>1
<1>5. CASE T # {}
  <2>1. PICK x \in T : TRUE
    BY <1>5
  <2> DEFINE R == T \ {x}
  <2>2. R \notin Bad /\ R \in SUBSET S
    BY <1>2, <1>3
  <2>3. SumFunctionOnSet(q, R) <= Cardinality(R) * b
    BY <2>2 DEF Bad
  <2>4. SumFunctionOnSet(q, T) = q[x] + SumFunctionOnSet(q, R)
    BY <1>3, SumRemove
  <2>5. IsFiniteSet(R) /\ Cardinality(R) = Cardinality(T) - 1
    BY <1>3, FS_RemoveElement
  <2>6. SumFunctionOnSet(q, R) \in Nat /\ q[x] \in Nat /\ q[x] <= b
    BY <1>3, <2>2, <2>5, SumType
  <2>7. Cardinality(T) \in Nat /\ Cardinality(R) \in Nat
    BY <1>3, <2>5, FS_CardinalityType
  <2> HIDE DEF R
  <2>8. Cardinality(T) * b = Cardinality(R) * b + b
    BY <2>5, <2>7
  <2>9. Cardinality(R) * b \in Nat
    BY <2>7
  <2> QED
    BY <1>3, <2>3, <2>4, <2>6, <2>8, <2>9
<1> QED
  BY <1>4, <1>5

\* A finite set of natural numbers that is not empty has a largest element.
LEMMA LargestNumber ==
  ASSUME NEW S \in SUBSET Nat, IsFiniteSet(S), S # {}
  PROVE  \E x \in S : \A y \in S : x >= y
<1> DEFINE Bad == {T \in SUBSET S : T # {} /\ ~ \E x \in T : \A y \in T : x >= y}
<1> SUFFICES ASSUME Bad # {} PROVE FALSE
  OBVIOUS
<1>0. Bad # {}
  OBVIOUS
<1>1. \A T \in Bad : IsFiniteSet(T)
  BY FS_Subset
<1> HIDE DEF Bad
<1>2. PICK T \in Bad : \A U \in Bad : U \subseteq T => U = T
  BY <1>0, <1>1, MinimalSet
<1>3. /\ T \in SUBSET S /\ T # {}
      /\ ~ \E x \in T : \A y \in T : x >= y
  BY DEF Bad
<1>4. PICK z \in T : TRUE
  BY <1>3
<1> DEFINE R == T \ {z}
<1>5. R \notin Bad /\ R \in SUBSET S
  BY <1>2, <1>3
<1>6. R # {}
  BY <1>3, <1>4
<1>7. PICK x \in R : \A y \in R : x >= y
  BY <1>5, <1>6 DEF Bad
<1>8. x \in Nat /\ z \in Nat
  BY <1>3
<1>9. CASE x >= z
  BY <1>3, <1>7, <1>9
<1>10. CASE z >= x
  <2>1. ASSUME NEW y \in T PROVE z >= y
    <3>1. CASE y = z
      BY <1>8, <3>1
    <3>2. CASE y # z
      BY <1>3, <1>7, <1>8, <1>10, <3>2
    <3> QED
      BY <3>1, <3>2
  <2> QED
    BY <1>3, <2>1
<1> QED
  BY <1>8, <1>9, <1>10

\* A sum of naturals is nothing only if each of them is.
LEMMA SumZero ==
  ASSUME NEW D, NEW q \in [D -> Nat], NEW S \in SUBSET D, IsFiniteSet(S),
         SumFunctionOnSet(q, S) = 0
  PROVE  \A x \in S : q[x] = 0
<1> SUFFICES ASSUME NEW x \in S PROVE q[x] = 0
  OBVIOUS
<1>1. SumFunctionOnSet(q, S) = q[x] + SumFunctionOnSet(q, S \ {x})
  BY SumRemove
<1>2. SumFunctionOnSet(q, S \ {x}) \in Nat /\ q[x] \in Nat
  BY FiniteRest, SumType
<1> QED
  BY <1>1, <1>2

\* A sum does not depend on what its terms are indexed by.
LEMMA SumAlong ==
  ASSUME NEW D, NEW q \in [D -> Nat], NEW E, NEW r \in [E -> Nat], NEW P \in SUBSET E, IsFiniteSet(P),
         NEW f \in [P -> D], \A x, y \in P : f[x] = f[y] => x = y,
         \A x \in P : q[f[x]] = r[x]
  PROVE  SumFunctionOnSet(q, {f[x] : x \in P}) = SumFunctionOnSet(r, P)
<1> DEFINE Image(T) == {f[x] : x \in T}
           Bad == {T \in SUBSET P : SumFunctionOnSet(q, Image(T)) # SumFunctionOnSet(r, T)}
<1> SUFFICES ASSUME Bad # {} PROVE FALSE
  OBVIOUS
<1>0. Bad # {}
  OBVIOUS
<1>1. \A T \in Bad : IsFiniteSet(T)
  BY FS_Subset
<1> HIDE DEF Bad
<1>2. PICK T \in Bad : \A U \in Bad : U \subseteq T => U = T
  BY <1>0, <1>1, MinimalSet
<1>3. T \in SUBSET P /\ IsFiniteSet(T) /\ SumFunctionOnSet(q, Image(T)) # SumFunctionOnSet(r, T)
  BY <1>1 DEF Bad
<1>4. CASE T = {}
  <2>1. Image(T) = {}
    BY <1>4
  <2> QED
    BY <1>3, <1>4, <2>1, SumEmpty
<1>5. CASE T # {}
  <2>1. PICK x \in T : TRUE
    BY <1>5
  <2> DEFINE R == T \ {x}
  <2>2. R \notin Bad /\ R \in SUBSET P
    BY <1>2, <1>3
  <2>3. SumFunctionOnSet(q, Image(R)) = SumFunctionOnSet(r, R)
    BY <2>2 DEF Bad
  <2>4. SumFunctionOnSet(r, T) = r[x] + SumFunctionOnSet(r, R)
    BY <1>3, SumRemove
  <2>5. Image(T) = Image(R) \cup {f[x]} /\ f[x] \notin Image(R)
    BY <1>3
  <2>6. IsFiniteSet(Image(R))
    <3>1. [y \in R |-> f[y]] \in Surjection(R, Image(R))
      BY <1>3 DEF Surjection
    <3> QED
      BY <1>3, <3>1, FiniteRest, FS_Surjection
  <2>7. Image(R) \in SUBSET D /\ f[x] \in D
    BY <1>3
  <2> HIDE DEF Image, R
  <2>8. SumFunctionOnSet(q, Image(T)) = q[f[x]] + SumFunctionOnSet(q, Image(R))
    BY <2>5, <2>6, <2>7, SumAdd
  <2> QED
    BY <1>3, <2>3, <2>4, <2>8
<1> QED
  BY <1>4, <1>5

\* The sizes of the parts a function divides a set into add up to the size of the set.
LEMMA SumOfFibres ==
  ASSUME NEW S, IsFiniteSet(S), NEW K, IsFiniteSet(K), NEW g \in [S -> K]
  PROVE  SumFunctionOnSet([k \in K |-> Cardinality({i \in S : g[i] = k})], K) = Cardinality(S)
<1> DEFINE Part(T, k) == {i \in T : g[i] = k}
           q(T) == [k \in K |-> Cardinality(Part(T, k))]
           Bad == {T \in SUBSET S : SumFunctionOnSet(q(T), K) # Cardinality(T)}
<1> SUFFICES ASSUME Bad # {} PROVE FALSE
  OBVIOUS
<1>0. Bad # {}
  OBVIOUS
<1>1. \A T \in Bad : IsFiniteSet(T)
  BY FS_Subset
<1> HIDE DEF Bad
<1>2. PICK T \in Bad : \A U \in Bad : U \subseteq T => U = T
  BY <1>0, <1>1, MinimalSet
<1>3. T \in SUBSET S /\ IsFiniteSet(T) /\ SumFunctionOnSet(q(T), K) # Cardinality(T)
  BY <1>1 DEF Bad
<1>4. ASSUME NEW U \in SUBSET S, NEW k \in K
      PROVE  IsFiniteSet(U) /\ IsFiniteSet(Part(U, k)) /\ Cardinality(Part(U, k)) \in Nat
  <2>1. IsFiniteSet(U)
    BY FS_Subset
  <2>2. IsFiniteSet(Part(U, k))
    BY <2>1, FS_Subset
  <2> HIDE DEF Part
  <2> QED
    BY <2>1, <2>2, FS_CardinalityType
<1>5. \A U \in SUBSET S : q(U) \in [K -> Nat]
  BY <1>4
<1>6. CASE T = {}
  <2>1. \A k \in K : Part(T, k) = {}
    BY <1>6
  <2> HIDE DEF Part
  <2>2. \A k \in K : q(T)[k] = 0
    BY <2>1, FS_EmptySet
  <2>3. SumFunctionOnSet(q(T), {}) = 0 /\ IsFiniteSet({}) /\ Cardinality(T) = 0
    BY <1>6, SumEmpty, FS_EmptySet
  <2>4. q(T) \in [K -> Nat]
    BY <1>3, <1>5
  <2> HIDE DEF q
  <2>5. SumFunctionOnSet(q(T), K) <= SumFunctionOnSet(q(T), {})
    BY <2>2, <2>3, <2>4, SumAtMost
  <2>6. SumFunctionOnSet(q(T), K) \in Nat
    BY <2>4, SumType
  <2> QED
    BY <1>3, <2>3, <2>5, <2>6
<1>7. CASE T # {}
  <2>1. PICK x \in T : TRUE
    BY <1>7
  <2> DEFINE R == T \ {x}
             c == g[x]
  <2>2. R \in SUBSET S /\ R \notin Bad /\ c \in K
    BY <1>2, <1>3
  <2>3. SumFunctionOnSet(q(R), K) = Cardinality(R)
    BY <2>2 DEF Bad
  <2>4. Cardinality(R) = Cardinality(T) - 1 /\ Cardinality(T) \in Nat
    BY <1>3, FS_RemoveElement, FS_CardinalityType
  <2>5. \A k \in K : k # c => Part(T, k) = Part(R, k)
    OBVIOUS
  <2>6. Part(R, c) = Part(T, c) \ {x} /\ x \in Part(T, c)
    OBVIOUS
  <2>7. /\ IsFiniteSet(Part(T, c)) /\ Cardinality(Part(T, c)) \in Nat
        /\ Cardinality(Part(R, c)) \in Nat
    BY <1>3, <1>4, <2>2
  <2> HIDE DEF Part
  <2>8. Cardinality(Part(R, c)) = Cardinality(Part(T, c)) - 1
    BY <2>6, <2>7, FS_RemoveElement
  <2>9. \A k \in K : k # c => q(T)[k] = q(R)[k]
    BY <2>5
  <2>10. q(R)[c] = Cardinality(Part(R, c)) /\ q(T)[c] = Cardinality(Part(T, c))
    BY <2>2
  <2>11. q(T) \in [K -> Nat] /\ q(R) \in [K -> Nat]
    BY <1>3, <1>5, <2>2
  <2> HIDE DEF q, R, c
  <2>12. SumFunctionOnSet(q(T), K) + q(R)[c] = SumFunctionOnSet(q(R), K) + q(T)[c]
    BY <2>2, <2>9, <2>11, SumChange
  <2>13. SumFunctionOnSet(q(T), K) \in Nat
    BY <2>11, SumType
  <2> QED
    BY <1>3, <2>3, <2>4, <2>7, <2>8, <2>10, <2>12, <2>13
<1> QED
  BY <1>6, <1>7
=============================================================================
