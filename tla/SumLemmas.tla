----------------------------- MODULE SumLemmas -----------------------------
(***************************************************************************)
(* Facts about SumFunctionOnSet(f, S), the sum of f[x] over the elements x *)
(* of a finite set S, which the models use for reserved amounts, charges   *)
(* and counters.  The community modules define it by a recursive function  *)
(* that takes the elements one by one, in the order CHOOSE gives; what is  *)
(* proved here is that the function exists, and that the order does not    *)
(* matter.  Induction is over a set of subsets of S: the facts that the    *)
(* library states with an operator parameter are not available.            *)
(***************************************************************************)
EXTENDS Integers, FiniteSets, Functions, FiniteSetTheorems, TLAPS

FirstOf(s) == CHOOSE x \in s : TRUE

\* g sums f over every subset of S, taking the first element first.
Sums(g, f, S) ==
  g = [s \in SUBSET S |-> IF s = {} THEN 0 ELSE f[FirstOf(s)] + g[s \ {FirstOf(s)}]]

LEMMA SumsValue ==
  ASSUME NEW g, NEW f, NEW S, Sums(g, f, S), NEW s \in SUBSET S
  PROVE  g[s] = IF s = {} THEN 0 ELSE f[FirstOf(s)] + g[s \ {FirstOf(s)}]
BY DEF Sums

LEMMA SumsIntro ==
  ASSUME NEW V, NEW f, NEW S, NEW g, g = [s \in SUBSET S |-> V[s]],
         \A s \in SUBSET S :
           g[s] = IF s = {} THEN 0 ELSE f[FirstOf(s)] + g[s \ {FirstOf(s)}]
  PROVE  Sums(g, f, S)
BY DEF Sums

\* Whatever holds of some subset of a finite set holds of a smallest one.
LEMMA SmallestSubset ==
  ASSUME NEW S, IsFiniteSet(S), NEW T, T \subseteq SUBSET S, T # {}
  PROVE  \E s \in T : IsFiniteSet(s) /\ \A t \in T : ~(t \subseteq s /\ t # s)
<1>1. IsWellFoundedOn(StrictSubsetOrdering(S), FiniteSubsetsOf(S))
  BY FS_StrictSubsetOrderingWellFounded
<1>2. T \subseteq FiniteSubsetsOf(S)
  BY FS_Subset DEF FiniteSubsetsOf
<1>3. PICK s \in T : \A t \in T : ~(<<t, s>> \in StrictSubsetOrdering(S))
  BY <1>1, <1>2, WFMin
<1>4. IsFiniteSet(s)
  BY FS_Subset
<1>. QED
  BY <1>3, <1>4 DEF StrictSubsetOrdering

\* Induction over the subsets of a finite set, for a property given as a set.
LEMMA SubsetInduction ==
  ASSUME NEW S, IsFiniteSet(S), NEW P,
         \A s \in SUBSET S : (\A x \in s : s \ {x} \in P) => s \in P
  PROVE  S \in P
<1>. SUFFICES ASSUME S \notin P PROVE FALSE
  OBVIOUS
<1>. DEFINE T == {s \in SUBSET S : s \notin P}
<1>0. T \subseteq SUBSET S /\ T # {}
  OBVIOUS
<1>. HIDE DEF T
<1>1. PICK s \in T : \A t \in T : ~(t \subseteq s /\ t # s)
  BY <1>0, SmallestSubset
<1>. USE DEF T
<1>2. \A x \in s : s \ {x} \in P
  BY <1>1
<1>. QED
  BY <1>2

\* Two such functions agree where both are defined.
LEMMA SumsUnique ==
  ASSUME NEW f, NEW S, NEW T, IsFiniteSet(S), NEW g, NEW h,
         Sums(g, f, S), Sums(h, f, T)
  PROVE  \A s \in SUBSET S : s \subseteq T => g[s] = h[s]
<1>. DEFINE D == {s \in SUBSET S : s \subseteq T /\ g[s] # h[s]}
<1>. SUFFICES ASSUME D # {} PROVE FALSE
  OBVIOUS
<1>0. D \subseteq SUBSET S /\ D # {}
  OBVIOUS
<1>. HIDE DEF D
<1>1. PICK s \in D : \A t \in D : ~(t \subseteq s /\ t # s)
  BY <1>0, SmallestSubset
<1>. USE DEF D
<1>2. s # {}
  BY DEF Sums
<1>3. FirstOf(s) \in s
  BY <1>2 DEF FirstOf
<1>4. g[s \ {FirstOf(s)}] = h[s \ {FirstOf(s)}]
  BY <1>1, <1>3
<1>. QED
  BY <1>2, <1>4 DEF Sums

\* Such a function exists.
LEMMA SumsExist ==
  ASSUME NEW f, NEW S, IsFiniteSet(S)
  PROVE  \E g : Sums(g, f, S)
<1>. DEFINE D == {s \in SUBSET S : ~\E g : Sums(g, f, s)}
<1>. SUFFICES ASSUME D # {} PROVE FALSE
  OBVIOUS
<1>0. D \subseteq SUBSET S /\ D # {}
  OBVIOUS
<1>. HIDE DEF D
<1>1. PICK m \in D : IsFiniteSet(m) /\ \A t \in D : ~(t \subseteq m /\ t # m)
  BY <1>0, SmallestSubset
<1>. USE DEF D
<1>. DEFINE G(s) == CHOOSE g : Sums(g, f, s)
            Rest  == m \ {FirstOf(m)}
            V(s)  == IF s = m
                       THEN IF m = {} THEN 0 ELSE f[FirstOf(m)] + G(Rest)[Rest]
                       ELSE G(s)[s]
            g     == [s \in SUBSET m |-> V(s)]
<1>2. ASSUME NEW s \in SUBSET m, s # m
      PROVE  Sums(G(s), f, s) /\ IsFiniteSet(s)
  BY <1>1, <1>2, FS_Subset
<1>. HIDE DEF G
<1>3. ASSUME NEW s \in SUBSET m
      PROVE  g[s] = IF s = {} THEN 0 ELSE f[FirstOf(s)] + g[s \ {FirstOf(s)}]
  <2>1. CASE s = {}
    <3>1. CASE s = m
      BY <2>1, <3>1
    <3>2. CASE s # m
      BY <1>2, <2>1, <3>2, SumsValue
    <3>. QED
      BY <3>1, <3>2
  <2>2. CASE s # {}
    <3>. DEFINE t == s \ {FirstOf(s)}
    <3>1. FirstOf(s) \in s
      BY <2>2 DEF FirstOf
    <3>2. t \subseteq s /\ t # s /\ t # m /\ t \in SUBSET m
      BY <3>1
    <3>3. g[t] = G(t)[t]
      BY <3>2
    <3>4. CASE s = m
      BY <2>2, <3>3, <3>4
    <3>5. CASE s # m
      <4>1. G(s)[s] = f[FirstOf(s)] + G(s)[t]
        BY <1>2, <2>2, <3>5, SumsValue
      <4>2. G(s)[t] = G(t)[t]
        BY <1>2, <3>2, <3>5, SumsUnique
      <4>. QED
        BY <2>2, <3>3, <3>5, <4>1, <4>2
    <3>. QED
      BY <3>4, <3>5
  <2>. QED
    BY <2>1, <2>2
<1>4. Sums(g, f, m)
  <2>. HIDE DEF g
  <2>1. g = [s \in SUBSET m |-> g[s]]
    BY DEF g
  <2>. QED
    BY <1>3, <2>1, SumsIntro
<1>. QED
  BY <1>1, <1>4

\* The sum is the value of that function.
LEMMA SumIsSums ==
  ASSUME NEW f, NEW S
  PROVE  SumFunctionOnSet(f, S) = (CHOOSE g : Sums(g, f, S))[S]
BY DEF SumFunctionOnSet, FoldFunctionOnSet, MapThenFoldSet, Sums, FirstOf

-----------------------------------------------------------------------------
(***************************************************************************)
(* The facts to cite.                                                      *)
(***************************************************************************)

\* The sum over no element.
LEMMA SumEmpty == ASSUME NEW f PROVE SumFunctionOnSet(f, {}) = 0
<1>1. IsFiniteSet({})
  BY FS_EmptySet
<1>2. \E g : Sums(g, f, {})
  BY <1>1, SumsExist
<1>3. Sums(CHOOSE g : Sums(g, f, {}), f, {})
  BY <1>2
<1>. QED
  BY <1>3, SumIsSums, SumsValue

\* The first element, and the sum over the others.
LEMMA SumFirst ==
  ASSUME NEW f, NEW S, IsFiniteSet(S), S # {}
  PROVE  /\ FirstOf(S) \in S
         /\ SumFunctionOnSet(f, S) =
              f[FirstOf(S)] + SumFunctionOnSet(f, S \ {FirstOf(S)})
<1>. DEFINE G(s) == CHOOSE g : Sums(g, f, s)
            R == S \ {FirstOf(S)}
<1>1. FirstOf(S) \in S
  BY DEF FirstOf
<1>2. R \subseteq S /\ IsFiniteSet(R)
  BY FS_Subset
<1>3. Sums(G(S), f, S) /\ Sums(G(R), f, R)
  BY <1>2, SumsExist
<1>4. SumFunctionOnSet(f, S) = G(S)[S] /\ SumFunctionOnSet(f, R) = G(R)[R]
  BY SumIsSums
<1>. HIDE DEF G
<1>5. G(S)[S] = f[FirstOf(S)] + G(S)[R]
  BY <1>3, SumsValue
<1>6. G(S)[R] = G(R)[R]
  <2>1. \A s \in SUBSET S : s \subseteq R => G(S)[s] = G(R)[s]
    BY <1>3, SumsUnique
  <2>. QED
    BY <1>2, <2>1
<1>. QED
  BY <1>1, <1>4, <1>5, <1>6

\* A sum of natural numbers is one.
LEMMA SumNat ==
  ASSUME NEW S, IsFiniteSet(S), NEW f, \A x \in S : f[x] \in Nat
  PROVE  SumFunctionOnSet(f, S) \in Nat
<1>. DEFINE P == {s \in SUBSET S : SumFunctionOnSet(f, s) \in Nat}
<1>1. {} \in P
  BY SumEmpty
<1>2. ASSUME NEW s \in SUBSET S, \A x \in s : s \ {x} \in P
      PROVE  s \in P
  <2>1. CASE s = {}
    BY <1>1, <2>1
  <2>2. CASE s # {}
    <3>1. IsFiniteSet(s)
      BY FS_Subset
    <3>2. /\ FirstOf(s) \in s
          /\ SumFunctionOnSet(f, s) =
               f[FirstOf(s)] + SumFunctionOnSet(f, s \ {FirstOf(s)})
      BY <2>2, <3>1, SumFirst
    <3>3. SumFunctionOnSet(f, s \ {FirstOf(s)}) \in Nat
      BY <1>2, <3>2
    <3>. QED
      BY <3>2, <3>3
  <2>. QED
    BY <2>1, <2>2
<1>. HIDE DEF P
<1>3. S \in P
  BY <1>1, <1>2, SubsetInduction
<1>. QED
  BY <1>3 DEF P

\* Any element may be taken first.
LEMMA SumRemove ==
  ASSUME NEW S, IsFiniteSet(S), NEW f, \A x \in S : f[x] \in Nat, NEW x \in S
  PROVE  SumFunctionOnSet(f, S) = f[x] + SumFunctionOnSet(f, S \ {x})
<1>. DEFINE P == {s \in SUBSET S : \A y \in s :
                    SumFunctionOnSet(f, s) = f[y] + SumFunctionOnSet(f, s \ {y})}
<1>1. {} \in P
  OBVIOUS
<1>2. ASSUME NEW s \in SUBSET S, \A y \in s : s \ {y} \in P
      PROVE  s \in P
  <2>. SUFFICES ASSUME NEW y \in s
                PROVE  SumFunctionOnSet(f, s) =
                         f[y] + SumFunctionOnSet(f, s \ {y})
    OBVIOUS
  <2>. DEFINE z == FirstOf(s)
  <2>1. IsFiniteSet(s) /\ IsFiniteSet(s \ {y}) /\ IsFiniteSet((s \ {z}) \ {y})
    BY FS_Subset
  <2>2. /\ z \in s
        /\ SumFunctionOnSet(f, s) = f[z] + SumFunctionOnSet(f, s \ {z})
    BY <2>1, SumFirst
  <2>. HIDE DEF z
  <2>3. CASE y = z
    BY <2>2, <2>3
  <2>4. CASE y # z
    <3>1. SumFunctionOnSet(f, s \ {z}) =
            f[y] + SumFunctionOnSet(f, (s \ {z}) \ {y})
      BY <1>2, <2>2, <2>4
    <3>2. SumFunctionOnSet(f, s \ {y}) =
            f[z] + SumFunctionOnSet(f, (s \ {y}) \ {z})
      BY <1>2, <2>2, <2>4
    <3>3. (s \ {y}) \ {z} = (s \ {z}) \ {y}
      OBVIOUS
    <3>4. SumFunctionOnSet(f, (s \ {z}) \ {y}) \in Nat
      BY <2>1, SumNat
    <3>5. f[y] \in Nat /\ f[z] \in Nat
      BY <2>2
    <3>6. SumFunctionOnSet(f, (s \ {y}) \ {z}) =
            SumFunctionOnSet(f, (s \ {z}) \ {y})
      BY <3>3
    <3>. QED
      BY <2>2, <3>1, <3>2, <3>4, <3>5, <3>6
  <2>. QED
    BY <2>3, <2>4
<1>. HIDE DEF P
<1>3. S \in P
  BY <1>1, <1>2, SubsetInduction
<1>. QED
  BY <1>3 DEF P

\* Adding an element adds its value.
LEMMA SumAdd ==
  ASSUME NEW S, IsFiniteSet(S), NEW f, NEW x, x \notin S,
         \A y \in S \cup {x} : f[y] \in Nat
  PROVE  SumFunctionOnSet(f, S \cup {x}) = f[x] + SumFunctionOnSet(f, S)
<1>1. IsFiniteSet(S \cup {x})
  BY FS_AddElement
<1>2. (S \cup {x}) \ {x} = S
  OBVIOUS
<1>3. SumFunctionOnSet(f, S \cup {x}) =
        f[x] + SumFunctionOnSet(f, (S \cup {x}) \ {x})
  BY <1>1, SumRemove
<1>. QED
  BY <1>2, <1>3

\* Functions that agree on S have the same sum.
LEMMA SumAgrees ==
  ASSUME NEW S, IsFiniteSet(S), NEW f, NEW g, \A x \in S : f[x] = g[x]
  PROVE  SumFunctionOnSet(f, S) = SumFunctionOnSet(g, S)
<1>. DEFINE P == {s \in SUBSET S :
                    SumFunctionOnSet(f, s) = SumFunctionOnSet(g, s)}
<1>1. {} \in P
  BY SumEmpty
<1>2. ASSUME NEW s \in SUBSET S, \A x \in s : s \ {x} \in P
      PROVE  s \in P
  <2>1. CASE s = {}
    BY <1>1, <2>1
  <2>2. CASE s # {}
    <3>1. IsFiniteSet(s)
      BY FS_Subset
    <3>2. /\ FirstOf(s) \in s
          /\ SumFunctionOnSet(f, s) =
               f[FirstOf(s)] + SumFunctionOnSet(f, s \ {FirstOf(s)})
          /\ SumFunctionOnSet(g, s) =
               g[FirstOf(s)] + SumFunctionOnSet(g, s \ {FirstOf(s)})
      BY <2>2, <3>1, SumFirst
    <3>. QED
      BY <1>2, <3>2
  <2>. QED
    BY <2>1, <2>2
<1>. HIDE DEF P
<1>3. S \in P
  BY <1>1, <1>2, SubsetInduction
<1>. QED
  BY <1>3 DEF P

\* Larger values have the larger sum.
LEMMA SumMonotone ==
  ASSUME NEW S, IsFiniteSet(S), NEW f, NEW g,
         \A x \in S : f[x] \in Nat /\ g[x] \in Nat /\ f[x] <= g[x]
  PROVE  SumFunctionOnSet(f, S) <= SumFunctionOnSet(g, S)
<1>. DEFINE P == {s \in SUBSET S :
                    SumFunctionOnSet(f, s) <= SumFunctionOnSet(g, s)}
<1>1. {} \in P
  BY SumEmpty
<1>2. ASSUME NEW s \in SUBSET S, \A x \in s : s \ {x} \in P
      PROVE  s \in P
  <2>1. CASE s = {}
    BY <1>1, <2>1
  <2>2. CASE s # {}
    <3>1. IsFiniteSet(s) /\ IsFiniteSet(s \ {FirstOf(s)})
      BY FS_Subset
    <3>2. /\ FirstOf(s) \in s
          /\ SumFunctionOnSet(f, s) =
               f[FirstOf(s)] + SumFunctionOnSet(f, s \ {FirstOf(s)})
          /\ SumFunctionOnSet(g, s) =
               g[FirstOf(s)] + SumFunctionOnSet(g, s \ {FirstOf(s)})
      BY <2>2, <3>1, SumFirst
    <3>3. /\ SumFunctionOnSet(f, s \ {FirstOf(s)}) \in Nat
          /\ SumFunctionOnSet(g, s \ {FirstOf(s)}) \in Nat
      BY <3>1, SumNat
    <3>4. SumFunctionOnSet(f, s \ {FirstOf(s)}) <=
            SumFunctionOnSet(g, s \ {FirstOf(s)})
      BY <1>2, <3>2
    <3>. QED
      BY <3>2, <3>3, <3>4
  <2>. QED
    BY <2>1, <2>2
<1>. HIDE DEF P
<1>3. S \in P
  BY <1>1, <1>2, SubsetInduction
<1>. QED
  BY <1>3 DEF P

\* The sum over a disjoint union is the sum of the sums.
LEMMA SumUnion ==
  ASSUME NEW S, NEW T, IsFiniteSet(S), IsFiniteSet(T), S \cap T = {},
         NEW f, \A x \in S \cup T : f[x] \in Nat
  PROVE  SumFunctionOnSet(f, S \cup T) =
           SumFunctionOnSet(f, S) + SumFunctionOnSet(f, T)
<1>. DEFINE P == {t \in SUBSET T : SumFunctionOnSet(f, S \cup t) =
                    SumFunctionOnSet(f, S) + SumFunctionOnSet(f, t)}
<1>0. SumFunctionOnSet(f, S) \in Nat
  BY SumNat
<1>1. {} \in P
  BY <1>0, SumEmpty
<1>2. ASSUME NEW t \in SUBSET T, \A x \in t : t \ {x} \in P
      PROVE  t \in P
  <2>1. CASE t = {}
    BY <1>1, <2>1
  <2>2. CASE t # {}
    <3>1. PICK x \in t : TRUE
      BY <2>2
    <3>2. /\ IsFiniteSet(t) /\ IsFiniteSet(t \ {x})
          /\ IsFiniteSet(S \cup (t \ {x}))
      BY FS_Subset, FS_Union
    <3>3. SumFunctionOnSet(f, t) = f[x] + SumFunctionOnSet(f, t \ {x})
      BY <3>1, <3>2, SumRemove
    <3>4. SumFunctionOnSet(f, (S \cup (t \ {x})) \cup {x}) =
            f[x] + SumFunctionOnSet(f, S \cup (t \ {x}))
      BY <3>1, <3>2, SumAdd
    <3>5. (S \cup (t \ {x})) \cup {x} = S \cup t
      BY <3>1
    <3>6. SumFunctionOnSet(f, S \cup (t \ {x})) =
            SumFunctionOnSet(f, S) + SumFunctionOnSet(f, t \ {x})
      BY <1>2, <3>1
    <3>7. SumFunctionOnSet(f, t \ {x}) \in Nat
      BY <3>2, SumNat
    <3>8. f[x] \in Nat
      BY <3>1
    <3>. QED
      BY <1>0, <3>3, <3>4, <3>5, <3>6, <3>7, <3>8
  <2>. QED
    BY <2>1, <2>2
<1>. HIDE DEF P
<1>3. T \in P
  BY <1>1, <1>2, SubsetInduction
<1>. QED
  BY <1>3 DEF P

\* A part has at most the sum of the whole.
LEMMA SumOfPart ==
  ASSUME NEW S, IsFiniteSet(S), NEW T, T \subseteq S, NEW f,
         \A x \in S : f[x] \in Nat
  PROVE  SumFunctionOnSet(f, T) <= SumFunctionOnSet(f, S)
<1>1. IsFiniteSet(T) /\ IsFiniteSet(S \ T) /\ T \cup (S \ T) = S
  BY FS_Subset
<1>2. SumFunctionOnSet(f, T \cup (S \ T)) =
        SumFunctionOnSet(f, T) + SumFunctionOnSet(f, S \ T)
  BY <1>1, SumUnion
<1>3. SumFunctionOnSet(f, T) \in Nat /\ SumFunctionOnSet(f, S \ T) \in Nat
  BY <1>1, SumNat
<1>4. SumFunctionOnSet(f, T \cup (S \ T)) = SumFunctionOnSet(f, S)
  BY <1>1
<1>. QED
  BY <1>2, <1>3, <1>4

\* Summing per part of a partition, and then the parts, sums the whole.
LEMMA SumPartition ==
  ASSUME NEW E, IsFiniteSet(E), NEW R, IsFiniteSet(R),
         NEW f, \A x \in R : f[x] \in Nat,
         NEW F, \A e \in E : F[e] \subseteq R,
         \A d, e \in E : d # e => F[d] \cap F[e] = {},
         NEW g, \A e \in E : g[e] = SumFunctionOnSet(f, F[e])
  PROVE  SumFunctionOnSet(g, E) = SumFunctionOnSet(f, UNION {F[e] : e \in E})
<1>. DEFINE U(s) == UNION {F[e] : e \in s}
            P == {s \in SUBSET E : SumFunctionOnSet(g, s) = SumFunctionOnSet(f, U(s))}
<1>0. \A e \in E : g[e] \in Nat
  <2>1. ASSUME NEW e \in E PROVE SumFunctionOnSet(f, F[e]) \in Nat
    <3>1. IsFiniteSet(F[e]) /\ \A x \in F[e] : f[x] \in Nat
      BY FS_Subset
    <3>. QED
      BY <3>1, SumNat
  <2>. QED
    BY <2>1
<1>1. {} \in P
  <2>1. U({}) = {}
    OBVIOUS
  <2>. QED
    BY <2>1, SumEmpty
<1>2. ASSUME NEW s \in SUBSET E, \A x \in s : s \ {x} \in P
      PROVE  s \in P
  <2>1. CASE s = {}
    BY <1>1, <2>1
  <2>2. CASE s # {}
    <3>1. PICK x \in s : TRUE
      BY <2>2
    <3>. DEFINE rest == s \ {x}
    <3>2. IsFiniteSet(s) /\ \A e \in s : g[e] \in Nat
      BY <1>0, FS_Subset
    <3>3. SumFunctionOnSet(g, s) = g[x] + SumFunctionOnSet(g, rest)
      BY <3>1, <3>2, SumRemove
    <3>4. U(s) = F[x] \cup U(rest) /\ F[x] \cap U(rest) = {}
      BY <3>1
    <3>5. F[x] \subseteq R /\ U(rest) \subseteq R
      BY <3>1
    <3>. HIDE DEF U
    <3>6. /\ IsFiniteSet(F[x]) /\ IsFiniteSet(U(rest))
          /\ \A y \in F[x] \cup U(rest) : f[y] \in Nat
      <4>1. IsFiniteSet(F[x]) /\ IsFiniteSet(U(rest))
        BY <3>5, FS_Subset
      <4>. QED
        BY <3>5, <4>1
    <3>7. SumFunctionOnSet(f, F[x] \cup U(rest)) =
            SumFunctionOnSet(f, F[x]) + SumFunctionOnSet(f, U(rest))
      BY <3>4, <3>6, SumUnion
    <3>8. SumFunctionOnSet(g, rest) = SumFunctionOnSet(f, U(rest))
      BY <1>2, <3>1
    <3>9. g[x] = SumFunctionOnSet(f, F[x])
      BY <3>1
    <3>. QED
      BY <3>3, <3>4, <3>7, <3>8, <3>9
  <2>. QED
    BY <2>1, <2>2
<1>. HIDE DEF P
<1>3. E \in P
  BY <1>1, <1>2, SubsetInduction
<1>. QED
  BY <1>3 DEF P

\* The sum of zeros.
LEMMA SumZero ==
  ASSUME NEW S, IsFiniteSet(S), NEW f, f = [x \in S |-> 0]
  PROVE  SumFunctionOnSet(f, S) = 0
<1>. DEFINE P == {s \in SUBSET S : SumFunctionOnSet(f, s) = 0}
<1>1. ASSUME NEW s \in SUBSET S, \A x \in s : s \ {x} \in P
      PROVE  s \in P
  <2>1. CASE s = {}
    BY <2>1, SumEmpty
  <2>2. CASE s # {}
    <3>1. PICK x \in s : TRUE
      BY <2>2
    <3>2. IsFiniteSet(s) /\ \A y \in s : f[y] \in Nat
      BY FS_Subset
    <3>3. SumFunctionOnSet(f, s) = f[x] + SumFunctionOnSet(f, s \ {x})
      BY <3>1, <3>2, SumRemove
    <3>4. SumFunctionOnSet(f, s \ {x}) = 0 /\ f[x] = 0
      BY <1>1, <3>1
    <3>. QED
      BY <3>3, <3>4
  <2>. QED
    BY <2>1, <2>2
<1>2. S \in P
  <2>. HIDE DEF P
  <2>. QED
    BY <1>1, SubsetInduction
<1>. QED
  BY <1>2

\* Multiplication distributes over addition.
LEMMA Distributes ==
  \A x, y, z \in Nat : x * (y + z) = x * y + x * z /\ (y + z) * x = y * x + z * x
OBVIOUS

\* A product of natural numbers is one.
LEMMA Products == \A x, y \in Nat : x * y \in Nat
OBVIOUS

\* Multiplication commutes and associates.
LEMMA Commutes ==
  \A x, y, z \in Nat : x * y = y * x /\ x * (y * z) = (x * y) * z
OBVIOUS

\* The sum of a * f + b is a times the sum of f, and b for each element.
LEMMA SumLinear ==
  ASSUME NEW S, IsFiniteSet(S), NEW f, NEW g, NEW a \in Nat, NEW b \in Nat,
         \A x \in S : f[x] \in Nat /\ g[x] = a * f[x] + b
  PROVE  SumFunctionOnSet(g, S) = a * SumFunctionOnSet(f, S) + b * Cardinality(S)
<1>. DEFINE P == {s \in SUBSET S : SumFunctionOnSet(g, s) =
                    a * SumFunctionOnSet(f, s) + b * Cardinality(s)}
<1>0. \A x, y \in Nat : x * y \in Nat
  BY Products
<1>1. ASSUME NEW s \in SUBSET S, \A x \in s : s \ {x} \in P
      PROVE  s \in P
  <2>1. CASE s = {}
    <3>1. SumFunctionOnSet(g, s) = 0 /\ SumFunctionOnSet(f, s) = 0 /\ Cardinality(s) = 0
      BY <2>1, SumEmpty, FS_EmptySet
    <3>. QED
      BY <3>1
  <2>2. CASE s # {}
    <3>1. PICK x \in s : TRUE
      BY <2>2
    <3>. DEFINE rest == s \ {x}
    <3>2. IsFiniteSet(s) /\ \A y \in s : f[y] \in Nat /\ g[y] \in Nat
      BY <1>0, FS_Subset
    <3>3. /\ SumFunctionOnSet(g, s) = g[x] + SumFunctionOnSet(g, rest)
          /\ SumFunctionOnSet(f, s) = f[x] + SumFunctionOnSet(f, rest)
      BY <3>1, <3>2, SumRemove
    <3>4. /\ SumFunctionOnSet(g, rest) =
               a * SumFunctionOnSet(f, rest) + b * Cardinality(rest)
          /\ g[x] = a * f[x] + b
      BY <1>1, <3>1
    <3>5. IsFiniteSet(rest) /\ \A y \in rest : f[y] \in Nat
      BY <3>2, FS_Subset
    <3>6. SumFunctionOnSet(f, rest) \in Nat /\ Cardinality(rest) \in Nat /\ f[x] \in Nat
      BY <3>1, <3>2, <3>5, SumNat, FS_CardinalityType
    <3>7. Cardinality(s) = Cardinality(rest) + 1
      <4>1. Cardinality(rest) = Cardinality(s) - 1 /\ Cardinality(s) \in Nat
        BY <3>1, <3>2, FS_RemoveElement, FS_CardinalityType
      <4>. QED
        BY <4>1
    <3>8. a * (f[x] + SumFunctionOnSet(f, rest)) =
            a * f[x] + a * SumFunctionOnSet(f, rest)
      BY <3>6, Distributes
    <3>12. b * (Cardinality(rest) + 1) = b * Cardinality(rest) + b
      <4>1. b * (Cardinality(rest) + 1) = b * Cardinality(rest) + b * 1 /\ b * 1 = b
        BY <3>6, Distributes
      <4>. QED
        BY <4>1
    <3>9. /\ a * SumFunctionOnSet(f, rest) \in Nat /\ b * Cardinality(rest) \in Nat
          /\ a * f[x] \in Nat
      BY <1>0, <3>6
    <3>10. SumFunctionOnSet(g, s) =
             a * f[x] + b + (a * SumFunctionOnSet(f, rest) + b * Cardinality(rest))
      BY <3>3, <3>4
    <3>11. a * f[x] + b + (a * SumFunctionOnSet(f, rest) + b * Cardinality(rest))
             = a * (f[x] + SumFunctionOnSet(f, rest)) + b * (Cardinality(rest) + 1)
      BY <3>6, <3>8, <3>9, <3>12
    <3>. QED
      BY <3>3, <3>7, <3>10, <3>11
  <2>. QED
    BY <2>1, <2>2
<1>2. S \in P
  <2>. HIDE DEF P
  <2>. QED
    BY <1>1, SubsetInduction
<1>. QED
  BY <1>2

\* The sum of equal numbers.
LEMMA SumConstant ==
  ASSUME NEW S, IsFiniteSet(S), NEW g, NEW c \in Nat, \A x \in S : g[x] = c
  PROVE  SumFunctionOnSet(g, S) = c * Cardinality(S)
<1>. DEFINE z == [x \in S |-> 0]
<1>0. PICK a \in Nat : a = 0
  OBVIOUS
<1>1. \A x \in S : z[x] \in Nat /\ g[x] = a * z[x] + c
  BY <1>0
<1>2. SumFunctionOnSet(z, S) = 0
  BY SumZero
<1>. HIDE DEF z
<1>3. SumFunctionOnSet(g, S) = a * SumFunctionOnSet(z, S) + c * Cardinality(S)
  BY <1>1, SumLinear
<1>4. c * Cardinality(S) \in Nat
  BY FS_CardinalityType, Products
<1>. QED
  BY <1>0, <1>2, <1>3, <1>4

\* The sum of two functions added up.
LEMMA SumPlus ==
  ASSUME NEW S, IsFiniteSet(S), NEW f, NEW g, NEW h,
         \A x \in S : f[x] \in Nat /\ h[x] \in Nat /\ g[x] = f[x] + h[x]
  PROVE  SumFunctionOnSet(g, S) = SumFunctionOnSet(f, S) + SumFunctionOnSet(h, S)
<1>. DEFINE P == {s \in SUBSET S : SumFunctionOnSet(g, s) =
                    SumFunctionOnSet(f, s) + SumFunctionOnSet(h, s)}
<1>1. ASSUME NEW s \in SUBSET S, \A x \in s : s \ {x} \in P
      PROVE  s \in P
  <2>1. CASE s = {}
    BY <2>1, SumEmpty
  <2>2. CASE s # {}
    <3>1. PICK x \in s : TRUE
      BY <2>2
    <3>. DEFINE rest == s \ {x}
    <3>2. IsFiniteSet(s) /\ IsFiniteSet(rest)
          /\ \A y \in s : f[y] \in Nat /\ g[y] \in Nat /\ h[y] \in Nat
      BY FS_Subset
    <3>3. /\ SumFunctionOnSet(g, s) = g[x] + SumFunctionOnSet(g, rest)
          /\ SumFunctionOnSet(f, s) = f[x] + SumFunctionOnSet(f, rest)
          /\ SumFunctionOnSet(h, s) = h[x] + SumFunctionOnSet(h, rest)
      BY <3>1, <3>2, SumRemove
    <3>4. SumFunctionOnSet(g, rest) =
            SumFunctionOnSet(f, rest) + SumFunctionOnSet(h, rest)
      BY <1>1, <3>1
    <3>5. SumFunctionOnSet(f, rest) \in Nat /\ SumFunctionOnSet(h, rest) \in Nat
      BY <3>2, SumNat
    <3>. QED
      BY <3>1, <3>3, <3>4, <3>5
  <2>. QED
    BY <2>1, <2>2
<1>2. S \in P
  <2>. HIDE DEF P
  <2>. QED
    BY <1>1, SubsetInduction
<1>. QED
  BY <1>2

\* The elements of a finite set, class by class.
LEMMA CardinalityByClass ==
  ASSUME NEW E, IsFiniteSet(E), NEW R, IsFiniteSet(R),
         NEW F, \A e \in E : F[e] \subseteq R,
         \A d, e \in E : d # e => F[d] \cap F[e] = {},
         R = UNION {F[e] : e \in E},
         NEW g, \A e \in E : g[e] = Cardinality(F[e])
  PROVE  SumFunctionOnSet(g, E) = Cardinality(R)
<1>. DEFINE one == [x \in R |-> 1]
<1>1. \A T \in SUBSET R : SumFunctionOnSet(one, T) = Cardinality(T)
  <2>. SUFFICES ASSUME NEW T \in SUBSET R
                PROVE  SumFunctionOnSet(one, T) = Cardinality(T)
    OBVIOUS
  <2>1. IsFiniteSet(T) /\ Cardinality(T) \in Nat
    BY FS_Subset, FS_CardinalityType
  <2>2. PICK c \in Nat : c = 1
    OBVIOUS
  <2>3. \A x \in T : one[x] = c
    BY <2>2
  <2>4. SumFunctionOnSet(one, T) = c * Cardinality(T)
    <3>. HIDE DEF one
    <3>. QED
      BY <2>1, <2>3, SumConstant
  <2>. QED
    BY <2>1, <2>2, <2>4
<1>2. \A e \in E : g[e] = SumFunctionOnSet(one, F[e])
  BY <1>1
<1>3. \A x \in R : one[x] \in Nat
  OBVIOUS
<1>. HIDE DEF one
<1>4. SumFunctionOnSet(g, E) = SumFunctionOnSet(one, UNION {F[e] : e \in E})
  BY <1>2, <1>3, SumPartition
<1>. QED
  BY <1>1, <1>4
=============================================================================
