---------------------------- MODULE ReportsProofs ----------------------------
(***************************************************************************)
(* Proofs about the sampling script, the console's results and the Inspect *)
(* report: for any packs, answers, evidence, samples and prices, what is   *)
(* drawn is sound and what is published adds up.                           *)
(***************************************************************************)
EXTENDS Sampling, ConsoleResults, InspectReport, SumLemmas, FunctionTheorems,
        SequenceTheorems

-----------------------------------------------------------------------------
(***************************************************************************)
(* Counting.                                                               *)
(***************************************************************************)

\* The image of a finite set has as many elements exactly if no two of them
\* have one image.
LEMMA ImageCardinality ==
  ASSUME NEW S, IsFiniteSet(S), NEW f
  PROVE  LET T == {f[x] : x \in S} IN
         /\ IsFiniteSet(T) /\ Cardinality(T) <= Cardinality(S)
         /\ Cardinality(T) = Cardinality(S) <=>
              \A x, y \in S : f[x] = f[y] => x = y
<1>. DEFINE T == {f[x] : x \in S}
            g == [x \in S |-> f[x]]
<1>1. g \in Surjection(S, T)
  BY DEF Surjection
<1>2. g \in Injection(S, T) <=> \A x, y \in S : f[x] = f[y] => x = y
  BY DEF Injection, IsInjective
<1>. HIDE DEF g, T
<1>3. /\ IsFiniteSet(T) /\ Cardinality(T) <= Cardinality(S)
      /\ Cardinality(T) = Cardinality(S) <=> g \in Injection(S, T)
  BY <1>1, FS_Surjection
<1>. QED
  BY <1>2, <1>3 DEF T

\* In a finite set with a strict total order, given as the set of elements below
\* each, the elements have the ranks 0, 1, ..., each once.
LEMMA Ranks ==
  ASSUME NEW S, IsFiniteSet(S), NEW below,
         \A x \in S : below[x] \subseteq S /\ x \notin below[x],
         \A x, y \in S : x # y => x \in below[y] \/ y \in below[x],
         \A x, y \in S : x \in below[y] => below[x] \subseteq below[y]
  PROVE  /\ \A x, y \in S : x \in below[y] <=> Cardinality(below[x]) < Cardinality(below[y])
         /\ \A x \in S : Cardinality(below[x]) \in 0 .. Cardinality(S) - 1
         /\ \A n \in 0 .. Cardinality(S) - 1 : \E x \in S : Cardinality(below[x]) = n
<1>. DEFINE rank == [x \in S |-> Cardinality(below[x])]
            N == 0 .. Cardinality(S) - 1
<1>0. \A x \in S : IsFiniteSet(below[x]) /\ Cardinality(below[x]) \in Nat
  BY FS_Subset, FS_CardinalityType
<1>1. ASSUME NEW x \in S, NEW y \in S, x \in below[y]
      PROVE  Cardinality(below[x]) < Cardinality(below[y])
  <2>1. below[x] \subseteq below[y] /\ below[x] # below[y]
    BY <1>1
  <2>2. /\ Cardinality(below[x]) <= Cardinality(below[y])
        /\ Cardinality(below[x]) # Cardinality(below[y])
    BY <1>0, <2>1, FS_Subset
  <2>. QED
    BY <1>0, <2>2
<1>2. \A x, y \in S : x \in below[y] <=> Cardinality(below[x]) < Cardinality(below[y])
  BY <1>0, <1>1
<1>3. Cardinality(S) \in Nat
  BY FS_CardinalityType
<1>4. ASSUME NEW x \in S PROVE Cardinality(below[x]) \in N
  <2>1. below[x] \subseteq S /\ below[x] # S
    OBVIOUS
  <2>2. /\ Cardinality(below[x]) <= Cardinality(S)
        /\ Cardinality(below[x]) # Cardinality(S)
    BY <2>1, FS_Subset
  <2>. QED
    BY <1>0, <1>3, <2>2
<1>5. rank \in Injection(S, N)
  <2>1. rank \in [S -> N]
    BY <1>4
  <2>2. \A x, y \in S : rank[x] = rank[y] => x = y
    BY <1>0, <1>1
  <2>. QED
    BY <2>1, <2>2 DEF Injection, IsInjective
<1>6. IsFiniteSet(N) /\ Cardinality(N) = Cardinality(S)
  <2>1. PICK k \in Nat : k = Cardinality(S)
    BY <1>3
  <2>2. IsFiniteSet(0 .. k - 1)
        /\ Cardinality(0 .. k - 1) = IF 0 > k - 1 THEN 0 ELSE (k - 1) - 0 + 1
    BY 0 \in Int, k - 1 \in Int, FS_Interval
  <2>. QED
    BY <2>1, <2>2
<1>7. rank \in Surjection(S, N)
  <2>. HIDE DEF rank, N
  <2>. QED
    BY <1>5, <1>6, FS_Injection
<1>8. \A n \in N : \E x \in S : Cardinality(below[x]) = n
  BY <1>7 DEF Surjection
<1>. QED
  BY <1>2, <1>4, <1>8

-----------------------------------------------------------------------------
(***************************************************************************)
(* Sampling: the apportionment.                                            *)
(***************************************************************************)

\* The quotient and the remainder of a division.
LEMMA DivMod ==
  ASSUME NEW a \in Nat, NEW n \in Nat, n # 0
  PROVE  /\ a \div n \in Nat /\ a % n \in Nat /\ a % n < n
         /\ a = n * (a \div n) + (a % n)
<1>1. a \div n \in Nat /\ a % n \in Nat /\ a % n < n
  OBVIOUS
<1>2. ASSUME NEW x \in Int, NEW y \in Int, y > 0
      PROVE  x = y * (x \div y) + (x % y)
  BY <1>2
<1>3. a \in Int /\ n \in Int /\ n > 0
  OBVIOUS
<1>4. a = n * (a \div n) + (a % n)
  BY <1>2, <1>3, Zenon
<1>. QED
  BY <1>1, <1>4, Zenon

\* What the largest-remainder rule is made of: the whole shares, the remainders,
\* and the labels that come before one when the rest is given out.
BaseShare(population, total) ==
  [k \in DOMAIN population |->
     (population[k] * total) \div SumFunctionOnSet(population, DOMAIN population)]

RestOf(population, total) ==
  [k \in DOMAIN population |->
     (population[k] * total) % SumFunctionOnSet(population, DOMAIN population)]

Ahead(rest) ==
  [k \in DOMAIN rest |->
     {j \in DOMAIN rest : \/ rest[j] > rest[k]
                          \/ rest[j] = rest[k] /\ LabelRank[j] < LabelRank[k]}]

LEMMA ApportionIs ==
  ASSUME NEW population, NEW total, NEW k \in DOMAIN population
  PROVE  Apportion(population, total)[k] =
           LET base  == BaseShare(population, total)
               extra == total - SumFunctionOnSet(base, DOMAIN population)
           IN IF SumFunctionOnSet(population, DOMAIN population) = 0 \/ total = 0 THEN 0
              ELSE base[k] + IF Cardinality(Ahead(RestOf(population, total))[k]) < extra
                             THEN 1 ELSE 0
BY DEF Apportion, BaseShare, RestOf, Ahead

\* A population of labelled strata.
Population(population) ==
  /\ IsFiniteSet(DOMAIN population) /\ DOMAIN population \subseteq DOMAIN LabelRank
  /\ \A k \in DOMAIN population : population[k] \in Nat

\* Share by share, whole shares and remainders are those of population * total;
\* and the remainders add up to the units that the whole shares leave.
LEMMA SharesOf ==
  ASSUME NEW population, Population(population), NEW total \in Nat,
         NEW grand, grand = SumFunctionOnSet(population, DOMAIN population), grand # 0,
         NEW base, base = BaseShare(population, total),
         NEW rest, rest = RestOf(population, total)
  PROVE  /\ grand \in Nat /\ DOMAIN rest = DOMAIN population
         /\ \A k \in DOMAIN population :
              /\ base[k] \in Nat /\ rest[k] \in Nat /\ rest[k] < grand
              /\ grand * base[k] + rest[k] = population[k] * total
         /\ total - SumFunctionOnSet(base, DOMAIN population) \in Nat
         /\ grand * (total - SumFunctionOnSet(base, DOMAIN population))
              = SumFunctionOnSet(rest, DOMAIN population)
<1>. DEFINE labels == DOMAIN population
            wanted == [k \in labels |-> population[k] * total]
            given  == [k \in labels |-> grand * base[k]]
<1>1. grand \in Nat
  BY SumNat DEF Population
<1>2. ASSUME NEW k \in labels
      PROVE  /\ base[k] \in Nat /\ rest[k] \in Nat /\ rest[k] < grand
             /\ grand * base[k] + rest[k] = population[k] * total
             /\ population[k] * total \in Nat /\ grand * base[k] \in Nat
  <2>1. population[k] * total \in Nat
    BY Products DEF Population
  <2>2. /\ base[k] = (population[k] * total) \div grand
        /\ rest[k] = (population[k] * total) % grand
    BY DEF BaseShare, RestOf
  <2>3. PICK a \in Nat : a = population[k] * total
    BY <2>1
  <2>4. /\ a \div grand \in Nat /\ a % grand \in Nat /\ a % grand < grand
        /\ a = grand * (a \div grand) + (a % grand)
    BY <1>1, DivMod, Zenon
  <2>5. base[k] \in Nat /\ rest[k] \in Nat /\ rest[k] < grand
        /\ grand * base[k] + rest[k] = a
    <3>1. base[k] = a \div grand /\ rest[k] = a % grand
      BY <2>2, <2>3, Zenon
    <3>2. /\ base[k] \in Nat /\ rest[k] \in Nat /\ rest[k] < grand
          /\ a = grand * base[k] + rest[k]
      BY <2>4, <3>1, Zenon
    <3>. QED
      BY <3>2, Zenon
  <2>. QED
    BY <1>1, <2>1, <2>3, <2>5, Products
<1>3. IsFiniteSet(labels)
  BY DEF Population
<1>4. SumFunctionOnSet(wanted, labels) = total * grand
  <2>1. PICK z \in Nat : z = 0
    OBVIOUS
  <2>2. \A k \in labels : population[k] \in Nat
                          /\ wanted[k] = total * population[k] + z
    BY <2>1, Commutes DEF Population
  <2>. HIDE DEF wanted
  <2>3. SumFunctionOnSet(wanted, labels) =
          total * SumFunctionOnSet(population, labels) + z * Cardinality(labels)
    BY <1>3, <2>2, SumLinear
  <2>4. Cardinality(labels) \in Nat /\ total * grand \in Nat
    BY <1>1, <1>3, FS_CardinalityType, Products
  <2>. QED
    BY <2>1, <2>3, <2>4
<1>5. SumFunctionOnSet(given, labels) = grand * SumFunctionOnSet(base, labels)
  <2>1. PICK z \in Nat : z = 0
    OBVIOUS
  <2>2. \A k \in labels : base[k] \in Nat /\ given[k] = grand * base[k] + z
    BY <1>2, <2>1
  <2>. HIDE DEF given
  <2>3. SumFunctionOnSet(given, labels) =
          grand * SumFunctionOnSet(base, labels) + z * Cardinality(labels)
    BY <1>1, <1>3, <2>2, SumLinear
  <2>4. SumFunctionOnSet(base, labels) \in Nat
    BY <1>2, <1>3, SumNat
  <2>5. Cardinality(labels) \in Nat /\ grand * SumFunctionOnSet(base, labels) \in Nat
    BY <1>1, <1>3, <2>4, FS_CardinalityType, Products
  <2>. QED
    BY <2>1, <2>3, <2>5
<1>6. SumFunctionOnSet(wanted, labels) =
        SumFunctionOnSet(given, labels) + SumFunctionOnSet(rest, labels)
  <2>1. \A k \in labels : /\ given[k] \in Nat /\ rest[k] \in Nat
                          /\ wanted[k] = given[k] + rest[k]
    BY <1>2
  <2>. HIDE DEF wanted, given
  <2>. QED
    BY <1>3, <2>1, SumPlus
<1>7. SumFunctionOnSet(base, labels) \in Nat /\ SumFunctionOnSet(rest, labels) \in Nat
  BY <1>2, <1>3, SumNat
<1>8. /\ total - SumFunctionOnSet(base, labels) \in Nat
      /\ grand * (total - SumFunctionOnSet(base, labels)) = SumFunctionOnSet(rest, labels)
  <2>1. PICK b \in Nat, r \in Nat : /\ b = SumFunctionOnSet(base, labels)
                                    /\ r = SumFunctionOnSet(rest, labels)
    BY <1>7
  <2>2. total * grand = grand * b + r
    BY <1>4, <1>5, <1>6, <2>1
  <2>3. ASSUME b > total PROVE FALSE
    <3>1. PICK d \in Nat : b = total + d /\ d # 0
      BY <2>3
    <3>2. grand * b = grand * total + grand * d /\ grand * d \in Nat /\ grand * d # 0
      BY <1>1, <3>1, Distributes, Products
    <3>3. grand * total = total * grand /\ grand * total \in Nat
      BY <1>1, Commutes, Products
    <3>. QED
      BY <2>2, <3>2, <3>3
  <2>4. PICK d \in Nat : total = b + d
    BY <2>3
  <2>5. total * grand = grand * b + grand * d
    <3>1. total * grand = grand * total /\ grand * (b + d) = grand * b + grand * d
      BY <1>1, Commutes, Distributes
    <3>. QED
      BY <2>4, <3>1
  <2>6. grand * d \in Nat /\ grand * b \in Nat /\ total - b = d
    BY <1>1, <2>4, Products
  <2>. QED
    BY <2>1, <2>2, <2>5, <2>6
<1>9. DOMAIN rest = labels
  BY DEF RestOf
<1>. QED
  BY <1>1, <1>2, <1>8, <1>9

\* n units of a whole, at most n positive remainders below it.
LEMMA FewUnits ==
  ASSUME NEW K \in Nat, NEW x \in Nat, NEW n \in Nat, NEW r \in Nat,
         K # 0, K * x = r, r <= K * n
  PROVE  x <= n
<1>1. ASSUME x > n PROVE FALSE
  <2>1. PICK d \in Nat : x = n + d /\ d # 0
    BY <1>1
  <2>2. K * x = K * n + K * d /\ K * d \in Nat /\ K * n \in Nat /\ K * d # 0
    BY <2>1, Distributes, Products
  <2>. QED
    BY <2>2
<1>. QED
  BY <1>1

\* No more units are left than there are labels with a remainder.
LEMMA UnitsLeft ==
  ASSUME NEW L, IsFiniteSet(L), NEW rest, NEW grand \in Nat, grand # 0,
         \A k \in L : rest[k] \in Nat /\ rest[k] < grand,
         NEW x \in Nat, grand * x = SumFunctionOnSet(rest, L)
  PROVE  x <= Cardinality({k \in L : rest[k] # 0})
<1>. DEFINE P == {k \in L : rest[k] # 0}
            all == [k \in P |-> grand]
            none == [k \in L \ P |-> 0]
<1>1. IsFiniteSet(P) /\ IsFiniteSet(L \ P) /\ P \cup (L \ P) = L /\ P \cap (L \ P) = {}
  BY FS_Subset
<1>. HIDE DEF P
<1>2. SumFunctionOnSet(rest, L) = SumFunctionOnSet(rest, P) + SumFunctionOnSet(rest, L \ P)
  <2>1. SumFunctionOnSet(rest, P \cup (L \ P)) =
          SumFunctionOnSet(rest, P) + SumFunctionOnSet(rest, L \ P)
    BY <1>1, SumUnion
  <2>. QED
    BY <1>1, <2>1, Zenon
<1>3. SumFunctionOnSet(rest, L \ P) = 0
  <2>1. SumFunctionOnSet(rest, L \ P) = SumFunctionOnSet(none, L \ P)
    <3>1. \A k \in L \ P : rest[k] = none[k]
      BY DEF P
    <3>. HIDE DEF none
    <3>. QED
      BY <1>1, <3>1, SumAgrees
  <2>2. SumFunctionOnSet(none, L \ P) = 0
    BY <1>1, SumZero
  <2>. QED
    BY <2>1, <2>2
<1>4. SumFunctionOnSet(rest, P) <= grand * Cardinality(P)
  <2>1. SumFunctionOnSet(rest, P) <= SumFunctionOnSet(all, P)
    <3>1. \A k \in P : rest[k] \in Nat /\ all[k] \in Nat /\ rest[k] <= all[k]
      BY <1>1
    <3>. HIDE DEF all
    <3>. QED
      BY <1>1, <3>1, SumMonotone
  <2>2. SumFunctionOnSet(all, P) = grand * Cardinality(P)
    <3>1. \A k \in P : all[k] = grand
      OBVIOUS
    <3>. HIDE DEF all
    <3>. QED
      BY <1>1, <3>1, SumConstant
  <2>. QED
    BY <2>1, <2>2
<1>5. Cardinality(P) \in Nat /\ SumFunctionOnSet(rest, P) \in Nat
  <2>1. \A k \in P : rest[k] \in Nat
    BY <1>1
  <2>. QED
    BY <1>1, <2>1, FS_CardinalityType, SumNat
<1>6. x <= Cardinality(P)
  <2>1. PICK n \in Nat, r \in Nat : n = Cardinality(P) /\ r = SumFunctionOnSet(rest, P)
    BY <1>5
  <2>2. grand * x = r /\ r <= grand * n
    BY <1>2, <1>3, <1>4, <2>1
  <2>. QED
    BY <2>1, <2>2, FewUnits
<1>. QED
  BY <1>6 DEF P

\* The labels come one after the other.
LEMMA LabelsInOrder ==
  ASSUME SamplingAssumption, NEW rest, IsFiniteSet(DOMAIN rest),
         DOMAIN rest \subseteq DOMAIN LabelRank, \A k \in DOMAIN rest : rest[k] \in Nat,
         NEW before, before = Ahead(rest)
  PROVE  /\ \A k \in DOMAIN rest : /\ before[k] \subseteq DOMAIN rest /\ k \notin before[k]
                                   /\ IsFiniteSet(before[k])
                                   /\ Cardinality(before[k]) \in 0 .. Cardinality(DOMAIN rest) - 1
         /\ \A j, k \in DOMAIN rest :
              j # k => Cardinality(before[j]) # Cardinality(before[k])
         /\ \A n \in 0 .. Cardinality(DOMAIN rest) - 1 :
              \E k \in DOMAIN rest : Cardinality(before[k]) = n
<1>. DEFINE L == DOMAIN rest
<1>1. \A k \in L : LabelRank[k] \in Nat /\ rest[k] \in Nat
  BY DEF SamplingAssumption
<1>2. \A j, k \in L : LabelRank[j] = LabelRank[k] => j = k
  BY DEF SamplingAssumption
<1>3. \A j, k \in L : j \in before[k] <=>
                        rest[j] > rest[k] \/ (rest[j] = rest[k] /\ LabelRank[j] < LabelRank[k])
  BY DEF Ahead
<1>4. \A k \in L : before[k] \subseteq L /\ k \notin before[k]
  BY <1>1 DEF Ahead
<1>5. \A j, k \in L : j # k => j \in before[k] \/ k \in before[j]
  BY <1>1, <1>2, <1>3
<1>6. \A j, k \in L : j \in before[k] => before[j] \subseteq before[k]
  <2>. SUFFICES ASSUME NEW j \in L, NEW k \in L, j \in before[k], NEW i \in before[j]
                PROVE  i \in before[k]
    OBVIOUS
  <2>1. i \in L
    BY <1>4
  <2>. QED
    BY <1>1, <1>3, <2>1
<1>7. /\ \A j, k \in L : j \in before[k] <=> Cardinality(before[j]) < Cardinality(before[k])
      /\ \A k \in L : Cardinality(before[k]) \in 0 .. Cardinality(L) - 1
      /\ \A n \in 0 .. Cardinality(L) - 1 : \E k \in L : Cardinality(before[k]) = n
  <2>. HIDE DEF L
  <2>1. IsFiniteSet(L)
    BY DEF L
  <2>. QED
    BY ONLY <1>4, <1>5, <1>6, <2>1, Ranks
<1>8. \A k \in L : IsFiniteSet(before[k])
  BY <1>4, FS_Subset
<1>9. \A j, k \in L : j # k => Cardinality(before[j]) # Cardinality(before[k])
  <2>1. \A k \in L : Cardinality(before[k]) \in Nat
    BY <1>8, FS_CardinalityType
  <2>. QED
    BY <1>5, <1>7, <2>1
<1>. QED
  BY <1>4, <1>7, <1>8, <1>9

\* A label without a remainder gets no unit of the rest.
LEMMA NoUnitWithoutRemainder ==
  ASSUME SamplingAssumption, NEW rest, IsFiniteSet(DOMAIN rest),
         \A k \in DOMAIN rest : rest[k] \in Nat,
         NEW k \in DOMAIN rest, rest[k] = 0
  PROVE  Cardinality({j \in DOMAIN rest : rest[j] # 0}) <= Cardinality(Ahead(rest)[k])
<1>1. /\ {j \in DOMAIN rest : rest[j] # 0} \subseteq Ahead(rest)[k]
      /\ Ahead(rest)[k] \subseteq DOMAIN rest
  BY DEF Ahead
<1>. QED
  BY <1>1, FS_Subset

\* Each stratum gets its share of the total, give or take less than one.
THEOREM ApportionsWithinOne ==
  ASSUME SamplingAssumption, NEW population, Population(population), NEW total \in Nat,
         NEW grand, grand = SumFunctionOnSet(population, DOMAIN population), grand # 0,
         NEW k \in DOMAIN population
  PROVE  /\ Apportion(population, total)[k] \in Nat
         /\ Apportion(population, total)[k] * grand - total * population[k] < grand
         /\ -grand < Apportion(population, total)[k] * grand - total * population[k]
<1>1. grand \in Nat /\ population[k] \in Nat
  BY SumNat DEF Population
<1>2. CASE total = 0
  <2>1. Apportion(population, total)[k] = 0
    BY <1>2, ApportionIs
  <2>2. total * population[k] = 0 /\ 0 * grand = 0
    BY <1>1, <1>2
  <2>. QED
    BY <1>1, <2>1, <2>2
<1>3. CASE total # 0
  <2>1. PICK base, rest : base = BaseShare(population, total) /\ rest = RestOf(population, total)
    OBVIOUS
  <2>. DEFINE extra == total - SumFunctionOnSet(base, DOMAIN population)
              n == Cardinality(Ahead(rest)[k])
  <2>2. Apportion(population, total)[k] = base[k] + IF n < extra THEN 1 ELSE 0
    BY <1>3, <2>1, ApportionIs
  <2>3. /\ DOMAIN rest = DOMAIN population
        /\ \A j \in DOMAIN population :
             /\ base[j] \in Nat /\ rest[j] \in Nat /\ rest[j] < grand
             /\ grand * base[j] + rest[j] = population[j] * total
        /\ extra \in Nat /\ grand * extra = SumFunctionOnSet(rest, DOMAIN population)
    <3>1. /\ Population(population) /\ total \in Nat
          /\ grand = SumFunctionOnSet(population, DOMAIN population) /\ grand # 0
      OBVIOUS
    <3>. QED
      BY ONLY <2>1, <3>1, SharesOf, SMTT(30)
  <2>4. PICK b \in Nat, r \in Nat : b = base[k] /\ r = rest[k] /\ r < grand
                                    /\ grand * b + r = population[k] * total
    BY <2>3
  <2>. HIDE DEF extra, n
  <2>5. PICK t \in Nat, u \in Nat, v \in Nat :
          /\ t = total * population[k] /\ u = b * grand /\ v = (b + 1) * grand
          /\ t = u + r /\ v = u + grand
    <3>1. (b + 1) * grand = b * grand + grand
      BY <1>1, Distributes
    <3>2. total * population[k] = population[k] * total /\ grand * b = b * grand
      BY <1>1, Commutes, Zenon
    <3>3. b * grand \in Nat /\ total * population[k] \in Nat /\ (b + 1) * grand \in Nat
      BY <1>1, Products
    <3>. QED
      BY <2>4, <3>1, <3>2, <3>3
  <2>6. r = 0 => ~(n < extra)
    <3>. SUFFICES ASSUME r = 0 PROVE ~(n < extra)
      OBVIOUS
    <3>. DEFINE m == Cardinality({j \in DOMAIN rest : rest[j] # 0})
    <3>1. IsFiniteSet(DOMAIN rest)
      BY <2>3 DEF Population
    <3>2. extra <= m
      <4>1. PICK L : L = DOMAIN rest
        OBVIOUS
      <4>2. /\ IsFiniteSet(L) /\ grand # 0 /\ \A j \in L : rest[j] \in Nat /\ rest[j] < grand
            /\ extra \in Nat /\ grand * extra = SumFunctionOnSet(rest, L)
        BY <2>3, <3>1, <4>1, Zenon
      <4>3. extra <= Cardinality({j \in L : rest[j] # 0})
        BY ONLY <1>1, <4>2, UnitsLeft
      <4>. QED
        BY <4>1, <4>3
    <3>3. m <= n
      BY <2>3, <2>4, <3>1, NoUnitWithoutRemainder DEF n
    <3>4. m \in Nat /\ n \in Nat
      <4>1. IsFiniteSet({j \in DOMAIN rest : rest[j] # 0}) /\ IsFiniteSet(Ahead(rest)[k])
        <5>1. Ahead(rest)[k] \subseteq DOMAIN rest
          BY <2>3 DEF Ahead
        <5>. QED
          BY <3>1, <5>1, FS_Subset
      <4>. QED
        BY <4>1, FS_CardinalityType DEF n
    <3>. HIDE DEF m
    <3>. QED
      BY <2>3, <3>2, <3>3, <3>4
  <2>7. CASE n < extra
    <3>1. Apportion(population, total)[k] = b + 1 /\ r # 0
      BY <2>2, <2>4, <2>6, <2>7
    <3>2. Apportion(population, total)[k] * grand - total * population[k] = v - t
      BY <2>5, <3>1, Zenon
    <3>. QED
      BY ONLY <1>1, <2>4, <2>5, <3>1, <3>2
  <2>8. CASE ~(n < extra)
    <3>1. Apportion(population, total)[k] = b
      BY <2>2, <2>4, <2>8
    <3>2. Apportion(population, total)[k] * grand - total * population[k] = u - t
      BY <2>5, <3>1, Zenon
    <3>. QED
      BY ONLY <1>1, <2>4, <2>5, <3>1, <3>2
  <2>. QED
    BY <2>7, <2>8
<1>. QED
  BY <1>2, <1>3

\* Over a finite set of labels with different ranks 0, 1, ..., the bonus goes to
\* as many labels as there are units.
LEMMA BonusIsExact ==
  ASSUME NEW L, IsFiniteSet(L), NEW rank,
         \A k \in L : rank[k] \in 0 .. Cardinality(L) - 1,
         \A j, k \in L : j # k => rank[j] # rank[k],
         \A n \in 0 .. Cardinality(L) - 1 : \E k \in L : rank[k] = n,
         NEW x \in Nat, x <= Cardinality(L),
         NEW bonus, bonus = [k \in L |-> IF rank[k] < x THEN 1 ELSE 0]
  PROVE  SumFunctionOnSet(bonus, L) = x
<1>. DEFINE P == {k \in L : rank[k] < x}
            none == [k \in L \ P |-> 0]
            ranks == {rank[k] : k \in P}
<1>0. Cardinality(L) \in Nat
  BY FS_CardinalityType
<1>1. IsFiniteSet(P) /\ IsFiniteSet(L \ P) /\ P \cup (L \ P) = L /\ P \cap (L \ P) = {}
  BY FS_Subset
<1>2. ranks = 0 .. x - 1
  <2>1. \A k \in P : rank[k] \in 0 .. x - 1
    BY <1>0
  <2>2. \A n \in 0 .. x - 1 : \E k \in P : rank[k] = n
    <3>. SUFFICES ASSUME NEW n \in 0 .. x - 1 PROVE \E k \in P : rank[k] = n
      OBVIOUS
    <3>1. n \in 0 .. Cardinality(L) - 1 /\ n < x
      BY <1>0
    <3>. QED
      BY <3>1
  <2>. QED
    BY <2>1, <2>2
<1>3. Cardinality(P) = x
  <2>1. Cardinality(ranks) = Cardinality(P)
    <3>1. \A j, k \in P : rank[j] = rank[k] => j = k
      OBVIOUS
    <3>. HIDE DEF P
    <3>. QED
      BY <1>1, <3>1, ImageCardinality
  <2>2. Cardinality(0 .. x - 1) = x
    <3>1. Cardinality(0 .. x - 1) = IF 0 > x - 1 THEN 0 ELSE (x - 1) - 0 + 1
      BY FS_Interval
    <3>. QED
      BY <3>1
  <2>. QED
    BY <1>2, <2>1, <2>2
<1>4. \A k \in L : bonus[k] \in Nat /\ (k \in P => bonus[k] = 1) /\ (k \notin P => bonus[k] = 0)
  OBVIOUS
<1>. HIDE DEF P
<1>5. SumFunctionOnSet(bonus, L) = SumFunctionOnSet(bonus, P) + SumFunctionOnSet(bonus, L \ P)
  <2>1. \A k \in P \cup (L \ P) : bonus[k] \in Nat
    BY <1>1, <1>4
  <2>2. SumFunctionOnSet(bonus, P \cup (L \ P)) =
          SumFunctionOnSet(bonus, P) + SumFunctionOnSet(bonus, L \ P)
    BY <1>1, <2>1, SumUnion
  <2>. QED
    BY <1>1, <2>2, Zenon
<1>6. SumFunctionOnSet(bonus, L \ P) = 0
  <2>1. \A k \in L \ P : bonus[k] = none[k]
    BY <1>4
  <2>2. SumFunctionOnSet(none, L \ P) = 0
    BY <1>1, SumZero
  <2>. HIDE DEF none
  <2>3. SumFunctionOnSet(bonus, L \ P) = SumFunctionOnSet(none, L \ P)
    BY <1>1, <2>1, SumAgrees
  <2>. QED
    BY <2>2, <2>3
<1>7. SumFunctionOnSet(bonus, P) = x
  <2>1. PICK c \in Nat : c = 1
    OBVIOUS
  <2>2. \A k \in P : bonus[k] = c
    BY <1>1, <1>4, <2>1
  <2>3. SumFunctionOnSet(bonus, P) = c * Cardinality(P)
    BY <1>1, <2>2, SumConstant
  <2>. QED
    BY <1>3, <2>1, <2>3
<1>. QED
  BY <1>5, <1>6, <1>7

\* largest_remainder_apportion: what the strata get adds up to the total.
THEOREM ApportionsExactly ==
  ASSUME SamplingAssumption, NEW population, Population(population), NEW total \in Nat,
         SumFunctionOnSet(population, DOMAIN population) # 0
  PROVE  SumFunctionOnSet(Apportion(population, total), DOMAIN population) = total
<1>0. /\ Population(population) /\ IsFiniteSet(DOMAIN population)
      /\ DOMAIN population \subseteq DOMAIN LabelRank
  BY DEF Population
<1>1. CASE total = 0
  <2>1. Apportion(population, total) = [k \in DOMAIN population |-> 0]
    BY <1>1 DEF Apportion
  <2>. QED
    BY <1>0, <1>1, <2>1, SumZero
<1>2. CASE total # 0
  <2>1. PICK base, rest, grand, L :
          /\ base = BaseShare(population, total) /\ rest = RestOf(population, total)
          /\ grand = SumFunctionOnSet(population, DOMAIN population)
          /\ L = DOMAIN population
    OBVIOUS
  <2>2. grand # 0 /\ total \in Nat
    BY <2>1
  <2>. DEFINE extra == total - SumFunctionOnSet(base, L)
              rank  == [k \in L |-> Cardinality(Ahead(rest)[k])]
              bonus == [k \in L |-> IF rank[k] < extra THEN 1 ELSE 0]
              given == Apportion(population, total)
  <2>3. /\ grand \in Nat /\ DOMAIN rest = L
        /\ \A k \in L : base[k] \in Nat /\ rest[k] \in Nat /\ rest[k] < grand
        /\ extra \in Nat /\ grand * extra = SumFunctionOnSet(rest, L)
    <3>1. /\ grand \in Nat /\ DOMAIN rest = DOMAIN population
          /\ \A k \in DOMAIN population :
              /\ base[k] \in Nat /\ rest[k] \in Nat /\ rest[k] < grand
          /\ total - SumFunctionOnSet(base, DOMAIN population) \in Nat
          /\ grand * (total - SumFunctionOnSet(base, DOMAIN population))
              = SumFunctionOnSet(rest, DOMAIN population)
      BY ONLY <1>0, <2>1, <2>2, SharesOf
    <3>. QED
      BY <2>1, <3>1, Zenon
  <2>4. IsFiniteSet(L) /\ L \subseteq DOMAIN LabelRank /\ Cardinality(L) \in Nat
    BY <1>0, <2>1, FS_CardinalityType
  <2>5. extra <= Cardinality(L)
    <3>. DEFINE some == {k \in L : rest[k] # 0}
    <3>1. extra <= Cardinality(some)
      <4>. HIDE DEF extra
      <4>. QED
        BY ONLY <2>2, <2>3, <2>4, UnitsLeft
    <3>2. Cardinality(some) <= Cardinality(L) /\ Cardinality(some) \in Nat
      <4>1. some \subseteq L
        OBVIOUS
      <4>. HIDE DEF some
      <4>. QED
        BY <2>4, <4>1, FS_Subset, FS_CardinalityType
    <3>. HIDE DEF some, extra
    <3>. QED
      BY <2>3, <2>4, <3>1, <3>2
  <2>6. /\ \A k \in L : rank[k] \in 0 .. Cardinality(L) - 1
        /\ \A j, k \in L : j # k => rank[j] # rank[k]
        /\ \A n \in 0 .. Cardinality(L) - 1 : \E k \in L : rank[k] = n
    <3>1. PICK before : before = Ahead(rest)
      OBVIOUS
    <3>2. /\ \A k \in DOMAIN rest : Cardinality(before[k]) \in 0 .. Cardinality(DOMAIN rest) - 1
          /\ \A j, k \in DOMAIN rest :
               j # k => Cardinality(before[j]) # Cardinality(before[k])
          /\ \A n \in 0 .. Cardinality(DOMAIN rest) - 1 :
               \E k \in DOMAIN rest : Cardinality(before[k]) = n
      <4>1. /\ IsFiniteSet(DOMAIN rest) /\ DOMAIN rest \subseteq DOMAIN LabelRank
            /\ \A k \in DOMAIN rest : rest[k] \in Nat
        BY <2>3, <2>4, Zenon
      <4>2. SamplingAssumption
        OBVIOUS
      <4>. QED
        BY ONLY <3>1, <4>1, <4>2, LabelsInOrder
    <3>3. \A k \in L : rank[k] = Cardinality(before[k])
      BY <3>1
    <3>. HIDE DEF rank
    <3>. QED
      BY <2>3, <3>2, <3>3
  <2>7. SumFunctionOnSet(bonus, L) = extra
    <3>1. bonus = [k \in L |-> IF rank[k] < extra THEN 1 ELSE 0]
      OBVIOUS
    <3>. HIDE DEF bonus, rank, extra
    <3>. QED
      BY ONLY <2>3, <2>4, <2>5, <2>6, <3>1, BonusIsExact
  <2>8. \A k \in L : base[k] \in Nat /\ bonus[k] \in Nat /\ given[k] = base[k] + bonus[k]
    <3>. SUFFICES ASSUME NEW k \in L
                  PROVE  base[k] \in Nat /\ bonus[k] \in Nat /\ given[k] = base[k] + bonus[k]
      OBVIOUS
    <3>1. given[k] = base[k] + IF Cardinality(Ahead(rest)[k]) < extra THEN 1 ELSE 0
      BY <1>2, <2>1, <2>2, ApportionIs
    <3>. HIDE DEF given, extra
    <3>. QED
      BY <2>3, <3>1
  <2>9. SumFunctionOnSet(given, L) = SumFunctionOnSet(base, L) + SumFunctionOnSet(bonus, L)
    <3>. HIDE DEF given, bonus
    <3>. QED
      BY <2>4, <2>8, SumPlus
  <2>10. SumFunctionOnSet(base, L) \in Nat
    BY <2>3, <2>4, SumNat
  <2>11. SumFunctionOnSet(given, L) = total
    <3>. HIDE DEF given, bonus
    <3>. QED
      BY <2>2, <2>7, <2>9, <2>10
  <2>. QED
    BY <2>1, <2>11, Zenon
<1>. QED
  BY <1>1, <1>2

-----------------------------------------------------------------------------
(***************************************************************************)
(* Sampling: the inductive invariant, in named parts.                      *)
(***************************************************************************)
Kept(s, known) == {r \in PackRows[s] : r.official \notin known}

\* What the first part of SamplesAreSound says of a draw.
DrawIsSound(s, known, sizes, calibration, main) ==
  LET kept   == Kept(s, known)
      strata == Strata(kept)
  IN /\ calibration \cap main = {}
     /\ Cardinality(calibration) = sizes[1]
     /\ Cardinality(main) = sizes[2]
     /\ (calibration \cup main) \subseteq Officials(kept)
     /\ \A l \in DOMAIN strata :
          LET n == Cardinality(Officials(strata[l]) \cap calibration) * Cardinality(kept)
          IN \A d \in {n - sizes[1] * Cardinality(strata[l])} :
               -Cardinality(kept) < d /\ d < Cardinality(kept)

Drawn == freezer.at \notin {"none", "load"}

\* The script has a suite to do, the sizes it was given, and in official ids what
\* it read of the history.
FreezerShape ==
  /\ {"at", "todo"} \subseteq DOMAIN freezer
  /\ freezer.at \in {"none", "load", "json", "calibration", "main"}
  /\ freezer.at /= "none" =>
       /\ {"sizes", "console", "logs", "knew"} \subseteq DOMAIN freezer
       /\ freezer.todo \in Seq(Sampled) /\ freezer.todo /= <<>>
       /\ freezer.sizes \in Nat \X Nat
       /\ \A s \in Sampled :
            freezer.knew[s] = Officials({r \in PackRows[s] : r.case \in freezer.console[s]})
                                \cup freezer.logs[s]
  /\ Drawn => {"calibration", "main"} \subseteq DOMAIN freezer

DrawnIsSound ==
  Drawn => DrawIsSound(Head(freezer.todo), freezer.knew[Head(freezer.todo)],
                       freezer.sizes, freezer.calibration, freezer.main)

\* What is written of a suite is of one draw, or the suite is torn; the one the
\* script writes has the files of its draw up to where the script is.
FilesAgree(s) ==
  /\ files[s].json = [calibration |-> files[s].calibration, main |-> files[s].main]
  /\ files[s].calibration \cap files[s].main = {}

FilesShape ==
  /\ DOMAIN files = Sampled
  /\ \A s \in Sampled : DOMAIN files[s] = {"json", "calibration", "main"}
  /\ \A s \in Sampled \ torn : files[s] /= Unfrozen => FilesAgree(s)
  /\ freezer.at \in {"calibration", "main"} =>
       files[Head(freezer.todo)].json =
         [calibration |-> freezer.calibration, main |-> freezer.main]
  /\ freezer.at \in {"calibration", "main"} => Head(freezer.todo) \in torn
  /\ freezer.at = "main" => files[Head(freezer.todo)].calibration = freezer.calibration

SamplingIInv == FreezerShape /\ DrawnIsSound /\ FilesShape

\* Rows with different official ids have as many ids.
LEMMA OfficialsCount ==
  ASSUME NEW R, IsFiniteSet(R)
  PROVE  /\ IsFiniteSet(Officials(R))
         /\ Cardinality(Officials(R)) = Cardinality(R) <=>
              \A q, r \in R : q.official = r.official => q = r
<1>. DEFINE f == [r \in R |-> r.official]
            T == {f[r] : r \in R}
<1>1. T = Officials(R) /\ \A r \in R : f[r] = r.official
  BY DEF Officials
<1>. HIDE DEF f
<1>2. /\ IsFiniteSet(T)
      /\ Cardinality(T) = Cardinality(R) <=> \A q, r \in R : f[q] = f[r] => q = r
  BY ImageCardinality
<1>. HIDE DEF T
<1>. QED
  BY <1>1, <1>2

\* The strata are a partition of the rows, by labels that have a rank.
LEMMA StrataPartition ==
  ASSUME SamplingAssumption, NEW s \in Sampled, NEW kept, kept \subseteq PackRows[s]
  PROVE  /\ IsFiniteSet(kept)
         /\ IsFiniteSet(DOMAIN Strata(kept)) /\ DOMAIN Strata(kept) \subseteq DOMAIN LabelRank
         /\ \A l \in DOMAIN Strata(kept) :
              Strata(kept)[l] \subseteq kept /\ IsFiniteSet(Strata(kept)[l])
         /\ \A j, l \in DOMAIN Strata(kept) : j # l => Strata(kept)[j] \cap Strata(kept)[l] = {}
         /\ kept = UNION {Strata(kept)[l] : l \in DOMAIN Strata(kept)}
         /\ DOMAIN Strata(kept) # {} => kept # {}
<1>1. IsFiniteSet(PackRows[s])
  BY DEF SamplingAssumption
<1>2. IsFiniteSet(kept)
  BY <1>1, FS_Subset
<1>3. \A r \in kept : r.label = NoLabel \/ r.label \in DOMAIN LabelRank
  BY DEF SamplingAssumption
<1>4. "uniform" \in DOMAIN LabelRank
  BY DEF SamplingAssumption
<1>5. \A T \in SUBSET kept : IsFiniteSet(T)
  BY <1>2, FS_Subset
<1>6. CASE \E r \in kept : r.label = NoLabel
  <2>1. PICK u : u = "uniform"
    OBVIOUS
  <2>2. Strata(kept) = [l \in {u} |-> kept]
    BY <1>6, <2>1 DEF Strata
  <2>3. IsFiniteSet({u})
    BY FS_Singleton
  <2>4. u \in DOMAIN LabelRank /\ kept # {}
    BY <1>4, <1>6, <2>1
  <2>. QED
    BY <1>2, <2>2, <2>3, <2>4
<1>7. CASE ~\E r \in kept : r.label = NoLabel
  <2>. DEFINE f == [r \in kept |-> r.label]
              labels == {f[r] : r \in kept}
  <2>1. Strata(kept) = [l \in labels |-> {r \in kept : r.label = l}]
    BY <1>7 DEF Strata
  <2>2. labels \subseteq DOMAIN LabelRank
    BY <1>3, <1>7
  <2>3. IsFiniteSet(labels)
    <3>. HIDE DEF f
    <3>. QED
      BY <1>2, ImageCardinality
  <2>4. \A r \in kept : r.label \in labels
    OBVIOUS
  <2>5. labels # {} => kept # {}
    OBVIOUS
  <2>. HIDE DEF labels
  <2>6. \A l \in labels : {r \in kept : r.label = l} \in SUBSET kept
    OBVIOUS
  <2>7. \A l \in labels : Strata(kept)[l] = {r \in kept : r.label = l}
    BY <2>1
  <2>8. DOMAIN Strata(kept) = labels
    BY <2>1
  <2>9. \A l \in labels : Strata(kept)[l] \subseteq kept /\ IsFiniteSet(Strata(kept)[l])
    BY <1>5, <2>6, <2>7
  <2>10. \A j, l \in labels : j # l => Strata(kept)[j] \cap Strata(kept)[l] = {}
    BY <2>7
  <2>11. kept = UNION {Strata(kept)[l] : l \in labels}
    BY <2>4, <2>7
  <2>. QED
    BY <1>2, <2>2, <2>3, <2>5, <2>8, <2>9, <2>10, <2>11
<1>. QED
  BY <1>6, <1>7

\* The strata as a population: in all, as many as there are rows.
LEMMA StrataPopulation ==
  ASSUME SamplingAssumption, NEW s \in Sampled, NEW kept, kept \subseteq PackRows[s]
  PROVE  /\ Population(PopulationOf(Strata(kept)))
         /\ DOMAIN PopulationOf(Strata(kept)) = DOMAIN Strata(kept)
         /\ \A l \in DOMAIN Strata(kept) :
              PopulationOf(Strata(kept))[l] = Cardinality(Strata(kept)[l])
         /\ SumFunctionOnSet(PopulationOf(Strata(kept)), DOMAIN Strata(kept)) = Cardinality(kept)
<1>. DEFINE strata == Strata(kept)
            population == PopulationOf(strata)
<1>0. PICK E : E = DOMAIN strata
  OBVIOUS
<1>1. /\ IsFiniteSet(kept) /\ IsFiniteSet(E) /\ E \subseteq DOMAIN LabelRank
      /\ \A l \in E : strata[l] \subseteq kept /\ IsFiniteSet(strata[l])
      /\ \A j, l \in E : j # l => strata[j] \cap strata[l] = {}
      /\ kept = UNION {strata[l] : l \in E}
  BY <1>0, StrataPartition
<1>2. DOMAIN population = E /\ \A l \in E : population[l] = Cardinality(strata[l])
  BY <1>0 DEF PopulationOf
<1>. HIDE DEF strata, population
<1>3. \A l \in E : population[l] \in Nat
  BY <1>1, <1>2, FS_CardinalityType
<1>4. Population(population)
  BY <1>1, <1>2, <1>3 DEF Population
<1>5. SumFunctionOnSet(population, E) = Cardinality(kept)
  <2>1. PICK F, g : F = strata /\ g = population
    OBVIOUS
  <2>2. /\ IsFiniteSet(kept) /\ IsFiniteSet(E)
        /\ \A l \in E : F[l] \subseteq kept
        /\ \A j, l \in E : j # l => F[j] \cap F[l] = {}
        /\ kept = UNION {F[l] : l \in E}
        /\ \A l \in E : g[l] = Cardinality(F[l])
    BY <1>1, <1>2, <2>1
  <2>3. SumFunctionOnSet(g, E) = Cardinality(kept)
    BY ONLY <2>2, CardinalityByClass
  <2>. QED
    BY <2>1, <2>3
<1>. QED
  BY <1>0, <1>2, <1>4, <1>5 DEF strata, population

\* What freeze_suite draws has the sizes and the strata asked for, in official ids.
LEMMA DrawsAreSound ==
  ASSUME SamplingAssumption, NEW s \in Sampled, NEW known, NEW sizes \in Nat \X Nat,
         NEW c, NEW m, c \subseteq Kept(s, known), m \subseteq Kept(s, known),
         Cardinality(c) = sizes[1], Cardinality(m) = sizes[2],
         Cardinality(Officials(Kept(s, known))) = Cardinality(Kept(s, known)),
         Draws(Strata(Kept(s, known)), sizes, c, m)
  PROVE  DrawIsSound(s, known, sizes, Officials(c), Officials(m))
<1>1. PICK kept : kept = Kept(s, known)
  OBVIOUS
<1>2. PICK strata : strata = Strata(kept)
  OBVIOUS
<1>3. kept \subseteq PackRows[s]
  BY <1>1 DEF Kept
<1>4. /\ IsFiniteSet(kept)
      /\ \A l \in DOMAIN strata : strata[l] \subseteq kept
      /\ DOMAIN strata # {} => kept # {}
  BY <1>2, <1>3, StrataPartition
<1>5. \A q, r \in kept : q.official = r.official => q = r
  BY <1>1, <1>4, OfficialsCount
<1>6. ASSUME NEW T \in SUBSET kept
      PROVE  Cardinality(Officials(T)) = Cardinality(T)
  <2>1. IsFiniteSet(T) /\ \A q, r \in T : q.official = r.official => q = r
    BY <1>4, <1>5, FS_Subset
  <2>. QED
    BY <2>1, OfficialsCount
<1>7. c \in SUBSET kept /\ m \in SUBSET kept /\ c \cap m = {}
  BY <1>1 DEF Draws
<1>8. /\ Officials(c) \cap Officials(m) = {}
      /\ Officials(c) \cup Officials(m) \subseteq Officials(kept)
  BY <1>5, <1>7 DEF Officials
<1>9. Cardinality(Officials(c)) = sizes[1] /\ Cardinality(Officials(m)) = sizes[2]
  BY <1>6, <1>7
<1>10. ASSUME NEW l \in DOMAIN strata
       PROVE  \A d \in {Cardinality(Officials(strata[l]) \cap Officials(c)) * Cardinality(kept)
                          - sizes[1] * Cardinality(strata[l])} :
                -Cardinality(kept) < d /\ d < Cardinality(kept)
  <2>1. PICK population, first : population = PopulationOf(strata)
                                 /\ first = Apportion(population, sizes[1])
    OBVIOUS
  <2>2. Cardinality(c \cap strata[l]) = first[l]
    BY <1>1, <1>2, <2>1 DEF Draws
  <2>3. Officials(strata[l]) \cap Officials(c) = Officials(c \cap strata[l])
    BY <1>4, <1>5, <1>7 DEF Officials
  <2>4. Cardinality(Officials(strata[l]) \cap Officials(c)) = first[l]
    <3>1. c \cap strata[l] \in SUBSET kept
      BY <1>7
    <3>. QED
      BY <1>6, <2>2, <2>3, <3>1
  <2>5. PICK grand : grand = Cardinality(kept)
    OBVIOUS
  <2>6. /\ Population(population) /\ l \in DOMAIN population
        /\ population[l] = Cardinality(strata[l])
        /\ grand = SumFunctionOnSet(population, DOMAIN population)
    <3>1. /\ Population(PopulationOf(Strata(kept)))
          /\ DOMAIN PopulationOf(Strata(kept)) = DOMAIN Strata(kept)
          /\ \A j \in DOMAIN Strata(kept) :
               PopulationOf(Strata(kept))[j] = Cardinality(Strata(kept)[j])
          /\ SumFunctionOnSet(PopulationOf(Strata(kept)), DOMAIN Strata(kept))
               = Cardinality(kept)
      BY <1>3, StrataPopulation
    <3>. QED
      BY <1>2, <2>1, <2>5, <3>1
  <2>7. grand # 0
    BY <1>4, <2>5, FS_EmptySet
  <2>8. sizes[1] \in Nat /\ SamplingAssumption
    OBVIOUS
  <2>9. /\ first[l] * grand - sizes[1] * population[l] < grand
        /\ -grand < first[l] * grand - sizes[1] * population[l]
    BY ONLY <2>1, <2>6, <2>7, <2>8, ApportionsWithinOne
  <2>10. /\ Cardinality(Officials(strata[l]) \cap Officials(c)) * Cardinality(kept)
              - sizes[1] * Cardinality(strata[l])
            = first[l] * grand - sizes[1] * population[l]
         /\ Cardinality(kept) = grand
    BY <2>4, <2>5, <2>6, Zenon
  <2>. QED
    BY ONLY <2>9, <2>10
<1>. QED
  BY <1>1, <1>2, <1>8, <1>9, <1>10 DEF DrawIsSound

\* The first suite to do, and what is left of the others.
LEMMA ToDo ==
  ASSUME FreezerShape, freezer.at # "none"
  PROVE  /\ Head(freezer.todo) \in Sampled
         /\ freezer.todo \in Seq(Sampled) /\ Len(freezer.todo) \in Nat \ {0}
         /\ Len(freezer.todo) # 1 => Tail(freezer.todo) \in Seq(Sampled) /\ Tail(freezer.todo) # <<>>
<1>1. freezer.todo \in Seq(Sampled) /\ freezer.todo # <<>>
  BY DEF FreezerShape
<1>2. Head(freezer.todo) \in Sampled /\ Len(freezer.todo) \in Nat \ {0}
  BY <1>1, HeadTailProperties, LenProperties, EmptySeq
<1>3. ASSUME Len(freezer.todo) # 1
      PROVE  Tail(freezer.todo) \in Seq(Sampled) /\ Tail(freezer.todo) # <<>>
  <2>1. /\ Tail(freezer.todo) \in Seq(Sampled)
        /\ Len(Tail(freezer.todo)) = Len(freezer.todo) - 1
    BY <1>1, HeadTailProperties
  <2>2. Len(Tail(freezer.todo)) # 0
    BY <1>2, <1>3, <2>1
  <2>. QED
    BY <2>1, <2>2, EmptySeq
<1>. QED
  BY <1>1, <1>2, <1>3

\* resolve_excluded_ids excludes what the history had used, in official ids.
LEMMA ExcludedAreUsed ==
  ASSUME SamplingAssumption, FreezerShape, freezer.at = "load", NEW s \in Sampled
  PROVE  Kept(s, Excluded(s)) = Kept(s, freezer.knew[s])
<1>1. freezer.knew[s] = Officials({r \in PackRows[s] : r.case \in freezer.console[s]})
                          \cup freezer.logs[s]
  BY DEF FreezerShape
<1>2. CASE s \in Translated
  BY <1>1, <1>2 DEF Excluded
<1>3. CASE s \notin Translated
  <2>1. \A r \in PackRows[s] : r.official = r.case
    BY <1>3 DEF SamplingAssumption
  <2>2. \A r \in PackRows[s] :
          r.official \in Officials({q \in PackRows[s] : q.case \in freezer.console[s]})
            <=> r.official \in freezer.console[s]
    BY <2>1 DEF Officials
  <2>3. Excluded(s) = freezer.console[s] \cup freezer.logs[s]
    BY <1>3 DEF Excluded
  <2>. QED
    BY <1>1, <2>2, <2>3 DEF Kept
<1>. QED
  BY <1>2, <1>3

LEMMA SamplingStart == ASSUME SamplingInit PROVE SamplingIInv
<1>1. FreezerShape /\ ~Drawn
  BY DEF SamplingInit, NoFreezer, FreezerShape, Drawn
<1>2. files = [s \in Sampled |-> Unfrozen] /\ freezer.at = "none"
  BY DEF SamplingInit, NoFreezer
<1>3. DOMAIN files = Sampled /\ \A s \in Sampled : files[s] = Unfrozen
  BY <1>2
<1>4. DOMAIN Unfrozen = {"json", "calibration", "main"}
  BY DEF Unfrozen
<1>5. FilesShape
  BY <1>2, <1>3, <1>4 DEF FilesShape
<1>. QED
  BY <1>1, <1>5 DEF SamplingIInv, DrawnIsSound

\* The script is over, or goes on with another suite: nothing is drawn.
LEMMA FreezerRests ==
  ASSUME SamplingIInv, FreezerShape', freezer'.at \in {"none", "load"},
         UNCHANGED <<files, torn>>
  PROVE  SamplingIInv'
<1>1. ~Drawn'
  BY DEF Drawn
<1>2. FilesShape'
  BY DEF SamplingIInv, FilesShape, FilesAgree
<1>. QED
  BY <1>1, <1>2 DEF SamplingIInv, DrawnIsSound

LEMMA SampleStep ==
  ASSUME SamplingAssumption, SamplingIInv, NEW n \in 1 .. Len(SuiteList), NEW sizes \in Sizes,
         NEW force, NEW unread,
         Sample(SubSeq(SuiteList, n, Len(SuiteList)), sizes, force, unread)
  PROVE  SamplingIInv'
<1>1. PICK todo : todo = SubSeq(SuiteList, n, Len(SuiteList))
  OBVIOUS
<1>2. todo \in Seq(Sampled) /\ todo # <<>>
  <2>1. SuiteList \in Seq(Sampled)
    BY DEF SamplingAssumption
  <2>2. Len(SuiteList) \in Nat /\ n \in 1 .. Len(SuiteList) + 1
    BY <2>1, LenProperties
  <2>3. todo \in Seq(Sampled) /\ Len(todo) = Len(SuiteList) - n + 1
    <3>1. /\ \A i \in n .. Len(SuiteList) : i \in 1 .. Len(SuiteList)
      BY <2>2
    <3>2. \A i \in 1 .. Len(SuiteList) : SuiteList[i] \in Sampled
      BY <2>1, ElementOfSeq
    <3>. QED
      BY <1>1, <2>1, <2>2, <3>1, <3>2, SubSeqProperties
  <2>. QED
    BY <2>2, <2>3, EmptySeq
<1>3. /\ freezer' = [at |-> "load", todo |-> todo, sizes |-> sizes,
                     console |-> consoleUsed,
                     logs |-> [s \in Sampled |-> logged[s] \ unread],
                     knew |-> [s \in Sampled |-> UsedSoFar(s, unread)]]
      /\ UNCHANGED <<files, torn>>
  BY <1>1 DEF Sample
<1>4. sizes \in Nat \X Nat
  BY DEF SamplingAssumption
<1>5. \A s \in Sampled :
        freezer'.knew[s] = Officials({r \in PackRows[s] : r.case \in freezer'.console[s]})
                             \cup freezer'.logs[s]
  BY <1>3 DEF UsedSoFar
<1>6. FreezerShape'
  BY <1>2, <1>3, <1>4, <1>5 DEF FreezerShape, Drawn
<1>7. freezer'.at = "load"
  BY <1>3
<1>. QED
  BY <1>3, <1>6, <1>7, FreezerRests

LEMMA SkipStep == ASSUME SamplingIInv, Skip PROVE SamplingIInv'
<1>1. FreezerShape /\ freezer.at = "load" /\ UNCHANGED <<files, torn>>
  BY DEF SamplingIInv, Skip
<1>2. CASE Len(freezer.todo) = 1
  <2>1. freezer' = NoFreezer
    BY <1>2 DEF Skip
  <2>2. FreezerShape' /\ freezer'.at = "none"
    BY <2>1 DEF NoFreezer, FreezerShape, Drawn
  <2>. QED
    BY <1>1, <2>2, FreezerRests
<1>3. CASE Len(freezer.todo) # 1
  <2>1. freezer' = [freezer EXCEPT !.todo = Tail(@)]
    BY <1>3 DEF Skip
  <2>2. Tail(freezer.todo) \in Seq(Sampled) /\ Tail(freezer.todo) # <<>>
    BY <1>1, <1>3, ToDo
  <2>3. /\ DOMAIN freezer' = DOMAIN freezer /\ freezer'.at = "load"
        /\ freezer'.todo = Tail(freezer.todo) /\ freezer'.sizes = freezer.sizes
        /\ freezer'.knew = freezer.knew /\ freezer'.console = freezer.console
        /\ freezer'.logs = freezer.logs
    BY <1>1, <2>1 DEF FreezerShape
  <2>4. FreezerShape'
    BY <1>1, <2>2, <2>3 DEF FreezerShape, Drawn
  <2>. QED
    BY <1>1, <2>3, <2>4, FreezerRests
<1>. QED
  BY <1>2, <1>3

LEMMA StopStep == ASSUME SamplingIInv, Stop PROVE SamplingIInv'
<1>1. freezer' = NoFreezer /\ UNCHANGED <<files, torn>>
  BY DEF Stop
<1>2. FreezerShape' /\ freezer'.at = "none"
  BY <1>1 DEF NoFreezer, FreezerShape, Drawn
<1>. QED
  BY <1>1, <1>2, FreezerRests

LEMMA DrawStep == ASSUME SamplingAssumption, SamplingIInv, Draw PROVE SamplingIInv'
<1>1. PICK s : s = Head(freezer.todo)
  OBVIOUS
<1>2. FreezerShape /\ freezer.at = "load" /\ UNCHANGED <<files, torn>>
  BY DEF SamplingIInv, Draw
<1>3. s \in Sampled
  BY <1>1, <1>2, ToDo
<1>4. PICK known : known = freezer.knew[s]
  OBVIOUS
<1>5. PICK sizes : sizes = freezer.sizes
  OBVIOUS
<1>6. Kept(s, known) = {r \in PackRows[s] : r.official \notin Excluded(s)}
  BY <1>2, <1>3, <1>4, ExcludedAreUsed DEF Kept
<1>7. PICK c, m :
        /\ Cardinality(Officials(Kept(s, known))) = Cardinality(Kept(s, known))
        /\ c \in kSubset(sizes[1], Kept(s, known)) /\ m \in kSubset(sizes[2], Kept(s, known))
        /\ Draws(Strata(Kept(s, known)), sizes, c, m)
        /\ freezer' = [at |-> "json", todo |-> freezer.todo, sizes |-> sizes,
                       console |-> freezer.console, logs |-> freezer.logs,
                       knew |-> freezer.knew,
                       calibration |-> Officials(c), main |-> Officials(m)]
  BY <1>1, <1>5, <1>6 DEF Draw
<1>8. /\ c \subseteq Kept(s, known) /\ m \subseteq Kept(s, known)
      /\ Cardinality(c) = sizes[1] /\ Cardinality(m) = sizes[2]
  BY <1>7 DEF kSubset
<1>9. sizes \in Nat \X Nat
  BY <1>2, <1>5 DEF FreezerShape
<1>10. DrawIsSound(s, known, sizes, Officials(c), Officials(m))
  BY <1>3, <1>7, <1>8, <1>9, DrawsAreSound
<1>11. /\ freezer'.at = "json" /\ freezer'.todo = freezer.todo /\ freezer'.sizes = sizes
       /\ freezer'.console = freezer.console /\ freezer'.logs = freezer.logs
       /\ freezer'.knew = freezer.knew
       /\ freezer'.calibration = Officials(c) /\ freezer'.main = Officials(m)
       /\ DOMAIN freezer' = {"at", "todo", "sizes", "console", "logs", "knew",
                             "calibration", "main"}
  BY <1>7
<1>12. FreezerShape'
  BY <1>2, <1>5, <1>11 DEF FreezerShape, Drawn
<1>13. DrawnIsSound'
  BY <1>1, <1>4, <1>10, <1>11 DEF DrawnIsSound
<1>14. FilesShape'
  BY <1>2, <1>11 DEF SamplingIInv, FilesShape, FilesAgree
<1>. QED
  BY <1>12, <1>13, <1>14 DEF SamplingIInv

\* A write that is not the last: on with the next file of the same draw.
LEMMA WriteFirst ==
  ASSUME SamplingIInv,
         NEW file \in {"json", "calibration"},
         NEW next, next = IF file = "json" THEN "calibration" ELSE "main",
         WriteFile(file, next)
  PROVE  SamplingIInv'
<1>1. PICK s : s = Head(freezer.todo)
  OBVIOUS
<1>2. FreezerShape /\ DrawnIsSound /\ FilesShape /\ freezer.at = file /\ freezer.at # "none"
      /\ Drawn /\ next # "load" /\ next \in {"calibration", "main"}
  BY DEF SamplingIInv, WriteFile, Drawn
<1>3. s \in Sampled
  BY <1>1, <1>2, ToDo
<1>4. /\ files' = [files EXCEPT ![s][file] =
           IF file = "json" THEN [calibration |-> freezer.calibration, main |-> freezer.main]
           ELSE freezer[file]]
      /\ freezer' = [freezer EXCEPT !.at = next]
      /\ torn' = torn \cup {s}
  BY <1>1, <1>2 DEF WriteFile
<1>5. /\ DOMAIN freezer' = DOMAIN freezer /\ freezer'.at = next
      /\ freezer'.todo = freezer.todo /\ freezer'.sizes = freezer.sizes
      /\ freezer'.knew = freezer.knew /\ freezer'.console = freezer.console
      /\ freezer'.logs = freezer.logs
      /\ freezer'.calibration = freezer.calibration /\ freezer'.main = freezer.main
  BY <1>2, <1>4 DEF FreezerShape
<1>6. FreezerShape'
  BY <1>2, <1>5 DEF FreezerShape, Drawn
<1>7. DrawnIsSound'
  BY <1>2, <1>5 DEF DrawnIsSound
<1>8. /\ DOMAIN files' = Sampled
      /\ \A t \in Sampled : DOMAIN files'[t] = {"json", "calibration", "main"}
      /\ \A t \in Sampled \ {s} : files'[t] = files[t]
  BY <1>2, <1>3, <1>4 DEF FilesShape
<1>9. DOMAIN files[s] = {"json", "calibration", "main"}
  BY <1>2, <1>3 DEF FilesShape
<1>10. CASE file = "json"
  <2>1. files'[s].json = [calibration |-> freezer.calibration, main |-> freezer.main]
    BY <1>2, <1>3, <1>4, <1>9, <1>10 DEF FilesShape
  <2>. QED
    BY <1>1, <1>2, <1>4, <1>5, <1>6, <1>7, <1>8, <1>10, <2>1, SMTT(30)
       DEF FilesShape, FilesAgree, SamplingIInv
<1>11. CASE file = "calibration"
  <2>1. files'[s].calibration = freezer.calibration /\ files'[s].json = files[s].json
    BY <1>2, <1>3, <1>4, <1>9, <1>11 DEF FilesShape
  <2>2. files[s].json = [calibration |-> freezer.calibration, main |-> freezer.main]
    BY <1>1, <1>2, <1>11 DEF FilesShape
  <2>. QED
    BY <1>1, <1>2, <1>4, <1>5, <1>6, <1>7, <1>8, <1>11, <2>1, <2>2, SMTT(30)
       DEF FilesShape, FilesAgree, SamplingIInv
<1>. QED
  BY <1>10, <1>11

\* The last write: the files of the suite are of one draw.
LEMMA WriteLast ==
  ASSUME SamplingIInv, WriteFile("main", "load") PROVE SamplingIInv'
<1>1. PICK s : s = Head(freezer.todo)
  OBVIOUS
<1>2. FreezerShape /\ DrawnIsSound /\ FilesShape /\ freezer.at = "main" /\ Drawn
  BY DEF SamplingIInv, WriteFile, Drawn
<1>3. s \in Sampled
  BY <1>1, <1>2, ToDo
<1>4. /\ files' = [files EXCEPT ![s]["main"] = freezer.main]
      /\ freezer' = IF Len(freezer.todo) = 1 THEN NoFreezer
                    ELSE [freezer EXCEPT !.at = "load", !.todo = Tail(@)]
      /\ torn' = torn \ {s}
  BY <1>1 DEF WriteFile
<1>5. /\ DOMAIN files' = Sampled
      /\ \A t \in Sampled : DOMAIN files'[t] = {"json", "calibration", "main"}
      /\ \A t \in Sampled \ {s} : files'[t] = files[t]
      /\ files'[s].main = freezer.main
      /\ files'[s].calibration = files[s].calibration /\ files'[s].json = files[s].json
  BY <1>2, <1>3, <1>4 DEF FilesShape
<1>6. /\ files[s].json = [calibration |-> freezer.calibration, main |-> freezer.main]
      /\ files[s].calibration = freezer.calibration
  BY <1>1, <1>2 DEF FilesShape
<1>7. freezer.calibration \cap freezer.main = {}
  BY <1>2 DEF DrawnIsSound, DrawIsSound
<1>8. FilesAgree(s)'
  BY <1>5, <1>6, <1>7 DEF FilesAgree
<1>9. \A t \in Sampled \ torn' : files'[t] # Unfrozen => FilesAgree(t)'
  <2>. SUFFICES ASSUME NEW t \in Sampled \ torn', files'[t] # Unfrozen, t # s
                PROVE  FilesAgree(t)'
    BY <1>8
  <2>1. files'[t] = files[t] /\ t \notin torn
    BY <1>4, <1>5
  <2>2. FilesAgree(t)
    BY <1>2, <2>1 DEF FilesShape
  <2>. QED
    BY <2>1, <2>2 DEF FilesAgree
<1>10. FreezerShape' /\ freezer'.at \in {"none", "load"}
  <2>1. CASE Len(freezer.todo) = 1
    <3>1. freezer' = NoFreezer
      BY <1>4, <2>1
    <3>. QED
      BY <3>1 DEF NoFreezer, FreezerShape, Drawn
  <2>2. CASE Len(freezer.todo) # 1
    <3>1. freezer' = [freezer EXCEPT !.at = "load", !.todo = Tail(@)]
      BY <1>4, <2>2
    <3>2. Tail(freezer.todo) \in Seq(Sampled) /\ Tail(freezer.todo) # <<>>
      BY <1>2, <2>2, ToDo
    <3>3. /\ DOMAIN freezer' = DOMAIN freezer /\ freezer'.at = "load"
          /\ freezer'.todo = Tail(freezer.todo) /\ freezer'.sizes = freezer.sizes
          /\ freezer'.knew = freezer.knew /\ freezer'.console = freezer.console
          /\ freezer'.logs = freezer.logs
      BY <1>2, <3>1 DEF FreezerShape
    <3>. QED
      BY <1>2, <3>2, <3>3 DEF FreezerShape, Drawn
  <2>. QED
    BY <2>1, <2>2
<1>11. FilesShape'
  BY <1>5, <1>9, <1>10 DEF FilesShape
<1>12. DrawnIsSound'
  BY <1>10 DEF DrawnIsSound, Drawn
<1>. QED
  BY <1>10, <1>11, <1>12 DEF SamplingIInv

\* A step of the script or of another actor preserves the invariant.
LEMMA SamplingStep ==
  ASSUME SamplingAssumption, SamplingIInv, [SamplingNext]_samplingVars
  PROVE  SamplingIInv'
<1>1. CASE \E n \in 1 .. Len(SuiteList), sizes \in Sizes, force \in BOOLEAN :
             \E unread \in SUBSET UNION {logged[s] : s \in Sampled} :
               Sample(SubSeq(SuiteList, n, Len(SuiteList)), sizes, force, unread)
  BY <1>1, SampleStep
<1>2. CASE Skip
  BY <1>2, SkipStep
<1>3. CASE Draw
  BY <1>3, DrawStep
<1>4. CASE Stop
  BY <1>4, StopStep
<1>5. CASE WriteFile("json", "calibration")
  BY <1>5, WriteFirst
<1>6. CASE WriteFile("calibration", "main")
  BY <1>6, WriteFirst
<1>7. CASE WriteFile("main", "load")
  BY <1>7, WriteLast
<1>8. CASE UNCHANGED <<files, freezer, torn>>
  BY <1>8 DEF SamplingIInv, FreezerShape, DrawnIsSound, FilesShape, FilesAgree, Drawn
<1>. QED
  BY <1>1, <1>2, <1>3, <1>4, <1>5, <1>6, <1>7, <1>8 DEF SamplingNext, Use, samplingVars

\* A draw has the sizes asked for, each stratum within one of its share, no id the
\* history had used; and the files of a suite that is not torn are of one draw.
THEOREM SamplesSound == SamplingSpec => []SamplesAreSound
<1>1. SamplingIInv => SamplesAreSound
  BY DEF SamplingIInv, DrawnIsSound, DrawIsSound, Drawn, FilesShape, FilesAgree,
         SamplesAreSound, Kept
<1>. QED
  BY <1>1, SamplingAssumption, SamplingStart, SamplingStep, PTL DEF SamplingSpec

-----------------------------------------------------------------------------
(***************************************************************************)
(* ConsoleResults: the inductive invariant, in named parts.                *)
(***************************************************************************)
EpisodeSet == [case : CaseIds, status : {"scored", "system_failed"},
               correct : BOOLEAN, requests : RequestsOf \cup {Absent}]

JobShape ==
  /\ answer \in Answers
  /\ DOMAIN job = {"live", "status", "completed", "scored", "correct", "episodes",
                   "failed", "cost", "billing", "settled"}
  /\ job.live \in BOOLEAN
  /\ job.episodes \in Seq(EpisodeSet)
  /\ \/ offline = Absent
     \/ /\ offline = [selected |-> offline.selected, failed |-> offline.failed]
        /\ offline.failed \subseteq offline.selected /\ offline.selected \subseteq CaseIds

\* No case has two episodes, and one is correct as its answer is.
EpisodesDiffer ==
  \A i, j \in DOMAIN job.episodes : job.episodes[i].case = job.episodes[j].case => i = j

CorrectIsGraded ==
  \A e \in Episodes :
    e.correct <=> e.status = "scored" /\ (job.live => AllOf(e.case, StrictList(e.case)))

\* The counters of the job are those of its episodes.
CountersAgree ==
  /\ job.scored  = Cardinality({e \in Episodes : e.status = "scored"})
  /\ job.correct = Cardinality({e \in Episodes : e.correct})

\* A job is settled once it has ended and its evidence is paid for, episode by episode.
SettledIsWhole ==
  job.billing = "settled" =>
    /\ job.status /= "running" /\ job.live
    /\ job.settled = Ended
    /\ job.cost = TotalCost(Episodes)
    /\ \A e \in Episodes : e.requests /= Absent /\ Receipts(e) \subseteq paid

ResultsIInv ==
  JobShape /\ EpisodesDiffer /\ CorrectIsGraded /\ CountersAgree /\ SettledIsWhole

\* The episodes of a job are finitely many, one to a case.
LEMMA EpisodesAre ==
  ASSUME JobShape, EpisodesDiffer
  PROVE  /\ IsFiniteSet(Episodes) /\ Episodes \subseteq EpisodeSet
         /\ \A d, e \in Episodes : d.case = e.case => d = e
         /\ Ended = {e.case : e \in Episodes} /\ Ended \subseteq CaseIds
<1>1. /\ job.episodes \in Seq(EpisodeSet) /\ Len(job.episodes) \in Nat
      /\ DOMAIN job.episodes = 1 .. Len(job.episodes)
  BY LenProperties DEF JobShape
<1>2. \A i \in DOMAIN job.episodes : job.episodes[i] \in EpisodeSet
  BY <1>1, ElementOfSeq
<1>3. IsFiniteSet(Episodes)
  <2>1. IsFiniteSet(DOMAIN job.episodes)
    BY <1>1, FS_Interval
  <2>. QED
    BY <2>1, ImageCardinality DEF Episodes
<1>4. \A d, e \in Episodes : d.case = e.case => d = e
  BY DEF EpisodesDiffer, Episodes
<1>5. Ended = {e.case : e \in Episodes}
  BY DEF Ended, Episodes
<1>6. Ended \subseteq CaseIds
  BY <1>2 DEF Ended, EpisodeSet
<1>. QED
  BY <1>2, <1>3, <1>4, <1>5, <1>6 DEF Episodes

\* The elements of a finite set in a sequence, each once.
LEMMA SetToSeqIs ==
  ASSUME NEW S, IsFiniteSet(S)
  PROVE  /\ Cardinality(S) \in Nat
         /\ \A i \in 1 .. Cardinality(S) : SetToSeq(S)[i] \in S
         /\ \A i, j \in 1 .. Cardinality(S) : SetToSeq(S)[i] = SetToSeq(S)[j] => i = j
         /\ \A x \in S : \E i \in 1 .. Cardinality(S) : SetToSeq(S)[i] = x
         /\ SetToSeq(S) \in Seq(S) /\ Len(SetToSeq(S)) = Cardinality(S)
<1>1. PICK n \in Nat : n = Cardinality(S)
  BY FS_CardinalityType
<1>2. PICK f \in Bijection(1 .. n, S) : TRUE
  BY <1>1, FS_CardinalityType DEF ExistsBijection
<1>3. f \in [1 .. n -> S] /\ IsInjective(f)
  BY <1>2 DEF Bijection, Injection
<1>4. PICK g : g = SetToSeq(S)
  OBVIOUS
<1>5. g \in [1 .. n -> S] /\ IsInjective(g)
  BY <1>1, <1>3, <1>4 DEF SetToSeq
<1>6. g \in Injection(1 .. n, S)
  BY <1>5 DEF Injection
<1>7. g \in Surjection(1 .. n, S)
  <2>1. Cardinality(1 .. n) = n
    BY <1>1, FS_Interval
  <2>. QED
    BY <1>1, <1>6, <2>1, FS_Injection
<1>8. \A x \in S : \E i \in 1 .. n : g[i] = x
  BY <1>7 DEF Surjection
<1>9. g \in Seq(S) /\ Len(g) = n
  BY <1>1, <1>5, IsASeq, LenProperties
<1>. QED
  BY <1>1, <1>4, <1>5, <1>8, <1>9 DEF IsInjective

LEMMA ResultsStart == ASSUME ResultsInit PROVE ResultsIInv
<1>1. /\ answer \in Answers /\ offline = Absent
      /\ DOMAIN job = {"live", "status", "completed", "scored", "correct", "episodes",
                       "failed", "cost", "billing", "settled"}
      /\ job.live \in BOOLEAN /\ job.episodes = <<>> /\ job.scored = 0 /\ job.correct = 0
      /\ job.billing = "pending"
  BY DEF ResultsInit
<1>2. job.episodes \in Seq(EpisodeSet) /\ DOMAIN job.episodes = {}
  BY <1>1
<1>3. Episodes = {}
  BY <1>2 DEF Episodes
<1>4. /\ Cardinality({e \in Episodes : e.status = "scored"}) = 0
      /\ Cardinality({e \in Episodes : e.correct}) = 0
  <2>1. {e \in Episodes : e.status = "scored"} = {} /\ {e \in Episodes : e.correct} = {}
    BY <1>3
  <2>. QED
    BY <2>1, FS_EmptySet
<1>. QED
  BY <1>1, <1>2, <1>3, <1>4 DEF ResultsIInv, JobShape, EpisodesDiffer, CorrectIsGraded,
     CountersAgree, SettledIsWhole

\* One element more in a set, if it has the property that is counted.
LEMMA CountOneMore ==
  ASSUME NEW S, IsFiniteSet(S), NEW T, T \subseteq S, NEW x, x \notin S, NEW b \in BOOLEAN,
         NEW U, \A y : y \in U <=> y \in T \/ (y = x /\ b)
  PROVE  Cardinality(U) = Cardinality(T) + IF b THEN 1 ELSE 0
<1>1. IsFiniteSet(T) /\ Cardinality(T) \in Nat
  BY FS_Subset, FS_CardinalityType
<1>2. CASE b
  <2>1. U = T \cup {x} /\ x \notin T
    BY <1>2
  <2>. QED
    BY <1>1, <1>2, <2>1, FS_AddElement
<1>3. CASE ~b
  <2>1. U = T
    BY <1>3
  <2>. QED
    BY <1>1, <1>3, <2>1
<1>. QED
  BY <1>2, <1>3

LEMMA EndEpisodeStep ==
  ASSUME ResultsAssumption, ResultsIInv, NEW c \in CaseIds,
         NEW status \in {"scored", "system_failed"},
         NEW requests \in RequestsOf \cup {Absent}, EndEpisode(c, status, requests)
  PROVE  ResultsIInv'
<1>. DEFINE correct == status = "scored" /\ (job.live => AllOf(c, StrictList(c)))
            e == [case |-> c, status |-> status, correct |-> correct, requests |-> requests]
<1>1. JobShape /\ EpisodesDiffer /\ CorrectIsGraded /\ CountersAgree /\ SettledIsWhole
  BY DEF ResultsIInv
<1>2. /\ job.status = "running" /\ c \notin Ended /\ UNCHANGED <<answer, paid, offline>>
      /\ job' = [job EXCEPT
         !.completed = @ + 1,
         !.scored    = @ + (IF status = "scored" THEN 1 ELSE 0),
         !.correct   = @ + (IF correct THEN 1 ELSE 0),
         !.failed    = @ \/ status /= "scored" \/ (~job.live /\ ~correct),
         !.episodes  = Append(@, e)]
  BY DEF EndEpisode
<1>3. e \in EpisodeSet /\ correct \in BOOLEAN
  BY DEF EpisodeSet
<1>4. e.case = c /\ e.status = status /\ e.correct = correct /\ e.requests = requests
  OBVIOUS
<1>. HIDE DEF correct, e
<1>5. /\ DOMAIN job' = DOMAIN job /\ job'.live = job.live /\ job'.billing = job.billing
      /\ job'.status = job.status
      /\ job'.scored = job.scored + (IF status = "scored" THEN 1 ELSE 0)
      /\ job'.correct = job.correct + (IF correct THEN 1 ELSE 0)
      /\ job'.episodes = Append(job.episodes, e)
  BY <1>1, <1>2 DEF JobShape
<1>6. /\ job'.episodes \in Seq(EpisodeSet)
      /\ DOMAIN job'.episodes = 1 .. Len(job.episodes) + 1 /\ Len(job.episodes) \in Nat
      /\ \A i \in 1 .. Len(job.episodes) : job'.episodes[i] = job.episodes[i]
      /\ job'.episodes[Len(job.episodes) + 1] = e
      /\ DOMAIN job.episodes = 1 .. Len(job.episodes)
  <2>1. job.episodes \in Seq(EpisodeSet)
    BY <1>1 DEF JobShape
  <2>. QED
    BY <1>3, <1>5, <2>1, AppendProperties, LenProperties
<1>7. Episodes' = Episodes \cup {e}
  BY <1>6, SMTT(30) DEF Episodes
<1>8. /\ IsFiniteSet(Episodes) /\ Episodes \subseteq EpisodeSet
      /\ \A d \in Episodes : d.case # c
  <2>1. /\ IsFiniteSet(Episodes) /\ Episodes \subseteq EpisodeSet
        /\ Ended = {d.case : d \in Episodes}
    BY <1>1, EpisodesAre
  <2>. QED
    BY <1>2, <2>1
<1>9. JobShape'
  BY <1>1, <1>2, <1>5, <1>6 DEF JobShape
<1>10. EpisodesDiffer'
  <2>1. \A i \in 1 .. Len(job.episodes) : job.episodes[i].case # c
    BY <1>6, <1>8 DEF Episodes
  <2>. SUFFICES ASSUME NEW i \in DOMAIN job'.episodes, NEW j \in DOMAIN job'.episodes,
                       job'.episodes[i].case = job'.episodes[j].case
                PROVE  i = j
    BY DEF EpisodesDiffer
  <2>2. PICK n \in Nat : n = Len(job.episodes)
    BY <1>6
  <2>3. i \in 1 .. n + 1 /\ j \in 1 .. n + 1
    BY <1>6, <2>2
  <2>4. \A k \in 1 .. n : job'.episodes[k].case = job.episodes[k].case
                         /\ job'.episodes[k].case # c
    BY <1>6, <2>1, <2>2
  <2>5. job'.episodes[n + 1].case = c
    BY <1>4, <1>6, <2>2
  <2>6. CASE i \in 1 .. n /\ j \in 1 .. n
    BY <1>1, <1>6, <2>2, <2>4, <2>6 DEF EpisodesDiffer
  <2>7. CASE i = n + 1 \/ j = n + 1
    BY <2>3, <2>4, <2>5, <2>7
  <2>. QED
    BY <2>3, <2>6, <2>7
<1>11. CorrectIsGraded'
  <2>. SUFFICES ASSUME NEW d \in Episodes'
                PROVE  d.correct <=> d.status = "scored"
                         /\ (job.live => AllOf(d.case, StrictList(d.case)))
    BY <1>2, <1>5 DEF CorrectIsGraded, AllOf, StrictList
  <2>1. CASE d \in Episodes
    BY <1>1, <2>1 DEF CorrectIsGraded
  <2>2. CASE d = e
    BY <1>4, <2>2 DEF correct
  <2>. QED
    BY <1>7, <2>1, <2>2
<1>12. CountersAgree'
  <2>1. e \notin Episodes
    BY <1>4, <1>8
  <2>2. job'.scored = Cardinality({d \in Episodes' : d.status = "scored"})
    <3>. DEFINE T == {d \in Episodes : d.status = "scored"}
    <3>1. PICK b \in BOOLEAN : b <=> status = "scored"
      OBVIOUS
    <3>. DEFINE U == {d \in Episodes' : d.status = "scored"}
    <3>2. \A y : y \in U <=> y \in T \/ (y = e /\ b)
      BY <1>4, <1>7, <3>1
    <3>3. T \subseteq Episodes
      OBVIOUS
    <3>4. job.scored = Cardinality(T)
      BY <1>1 DEF CountersAgree
    <3>. HIDE DEF T, U
    <3>5. Cardinality(U) = Cardinality(T) + IF b THEN 1 ELSE 0
      BY <1>8, <2>1, <3>2, <3>3, CountOneMore
    <3>. QED
      BY <1>5, <3>1, <3>4, <3>5 DEF U
  <2>3. job'.correct = Cardinality({d \in Episodes' : d.correct})
    <3>. DEFINE T == {d \in Episodes : d.correct}
    <3>. DEFINE U == {d \in Episodes' : d.correct}
    <3>2. \A y : y \in U <=> y \in T \/ (y = e /\ correct)
      BY <1>4, <1>7
    <3>3. T \subseteq Episodes
      OBVIOUS
    <3>4. job.correct = Cardinality(T)
      BY <1>1 DEF CountersAgree
    <3>. HIDE DEF T, U
    <3>5. Cardinality(U) = Cardinality(T) + IF correct THEN 1 ELSE 0
      BY <1>3, <1>8, <2>1, <3>2, <3>3, CountOneMore
    <3>. QED
      BY <1>5, <3>4, <3>5 DEF U
  <2>. QED
    BY <2>2, <2>3 DEF CountersAgree
<1>13. SettledIsWhole'
  BY <1>1, <1>2, <1>5 DEF SettledIsWhole
<1>. QED
  BY <1>9, <1>10, <1>11, <1>12, <1>13 DEF ResultsIInv

\* What keeps the episodes and their counters of a running job keeps the invariant.
LEMMA JobRests ==
  ASSUME ResultsIInv, UNCHANGED answer, DOMAIN job' = DOMAIN job,
         job'.live = job.live, job'.episodes = job.episodes,
         job'.scored = job.scored, job'.correct = job.correct,
         JobShape' \/ UNCHANGED offline, SettledIsWhole'
  PROVE  ResultsIInv'
<1>1. JobShape /\ EpisodesDiffer /\ CorrectIsGraded /\ CountersAgree
  BY DEF ResultsIInv
<1>2. Episodes' = Episodes
  BY DEF Episodes
<1>3. JobShape' /\ EpisodesDiffer'
  BY <1>1 DEF JobShape, EpisodesDiffer
<1>4. CorrectIsGraded'
  BY <1>1, <1>2 DEF CorrectIsGraded, AllOf, StrictList
<1>5. CountersAgree'
  BY <1>1, <1>2 DEF CountersAgree
<1>. QED
  BY <1>3, <1>4, <1>5 DEF ResultsIInv

LEMMA EndJobStep == ASSUME ResultsIInv, EndJob PROVE ResultsIInv'
<1>1. PICK status : /\ job' = [job EXCEPT !.status = status]
                    /\ job.status = "running" /\ UNCHANGED <<answer, paid, offline>>
  BY DEF EndJob
<1>2. JobShape /\ SettledIsWhole
  BY DEF ResultsIInv
<1>3. /\ DOMAIN job' = DOMAIN job /\ job'.live = job.live /\ job'.episodes = job.episodes
      /\ job'.scored = job.scored /\ job'.correct = job.correct
      /\ job'.billing = job.billing
  BY <1>1, <1>2 DEF JobShape
<1>4. SettledIsWhole'
  BY <1>1, <1>2, <1>3 DEF SettledIsWhole
<1>. QED
  BY <1>1, <1>3, <1>4, JobRests

\* The cancelled cases have no episode yet, and none twice.
LEMMA CancelJobStep ==
  ASSUME ResultsAssumption, ResultsIInv, NEW under \in SUBSET CaseIds, CancelJob(under)
  PROVE  ResultsIInv'
<1>1. JobShape /\ EpisodesDiffer /\ CorrectIsGraded /\ CountersAgree /\ SettledIsWhole
  BY DEF ResultsIInv
<1>2. /\ job.status = "running" /\ under \subseteq CaseIds \ Ended
      /\ UNCHANGED <<answer, paid, offline>>
  BY DEF CancelJob
<1>. DEFINE n == Cardinality(under)
            q == SetToSeq(under)
            more == [i \in 1 .. n |-> [case |-> q[i], status |-> "system_failed",
                                       correct |-> FALSE, requests |-> Absent]]
<1>3. /\ DOMAIN job' = DOMAIN job /\ job'.live = job.live
      /\ job'.scored = job.scored /\ job'.correct = job.correct
      /\ job'.billing = job.billing
      /\ job'.episodes = IF job.live THEN job.episodes \o more ELSE job.episodes
  BY <1>1 DEF CancelJob, JobShape
<1>4. SettledIsWhole'
  BY <1>1, <1>2, <1>3 DEF SettledIsWhole
<1>5. CASE ~job.live
  BY <1>2, <1>3, <1>4, <1>5, JobRests
<1>6. CASE job.live
  <2>1. IsFiniteSet(under)
    BY FS_Subset DEF ResultsAssumption
  <2>2. /\ n \in Nat /\ \A i \in 1 .. n : q[i] \in under
        /\ \A i, j \in 1 .. n : q[i] = q[j] => i = j
    BY <2>1, SetToSeqIs
  <2>. HIDE DEF n, q
  <2>3. \A i \in 1 .. n : more[i] \in EpisodeSet /\ more[i].case = q[i]
                          /\ more[i].status = "system_failed" /\ more[i].correct = FALSE
    BY <1>2, <2>2 DEF EpisodeSet
  <2>4. more \in Seq(EpisodeSet) /\ Len(more) = n
    <3>1. more \in [1 .. n -> EpisodeSet]
      BY <2>3
    <3>. HIDE DEF more
    <3>. QED
      BY <2>2, <3>1, IsASeq, LenProperties
  <2>. HIDE DEF more
  <2>5. PICK m \in Nat : m = Len(job.episodes) /\ DOMAIN job.episodes = 1 .. m
    BY <1>1, LenProperties DEF JobShape
  <2>6. /\ job'.episodes \in Seq(EpisodeSet) /\ DOMAIN job'.episodes = 1 .. m + n
        /\ \A i \in 1 .. m : job'.episodes[i] = job.episodes[i]
        /\ \A i \in 1 .. n : job'.episodes[m + i] = more[i]
    <3>1. job.episodes \in Seq(EpisodeSet)
      BY <1>1 DEF JobShape
    <3>2. /\ job'.episodes \in Seq(EpisodeSet) /\ Len(job'.episodes) = m + n
          /\ \A i \in 1 .. m + n : job'.episodes[i] = IF i <= m THEN job.episodes[i]
                                                      ELSE more[i - m]
      <4>1. PICK old : old = job.episodes
        OBVIOUS
      <4>2. old \in Seq(EpisodeSet) /\ Len(old) = m
        BY <2>5, <3>1, <4>1
      <4>3. /\ old \o more \in Seq(EpisodeSet) /\ Len(old \o more) = m + n
            /\ \A i \in 1 .. m + n : (old \o more)[i] = IF i <= m THEN old[i] ELSE more[i - m]
        BY ONLY <2>4, <4>2, ConcatProperties
      <4>4. job'.episodes = old \o more
        BY <1>3, <1>6, <4>1
      <4>. QED
        BY <4>1, <4>3, <4>4, Zenon
    <3>3. \A i \in 1 .. n : m + i \in 1 .. m + n /\ ~(m + i <= m) /\ (m + i) - m = i
      BY <2>2, <2>5
    <3>4. \A i \in 1 .. m : i \in 1 .. m + n /\ i <= m
      BY <2>2, <2>5
    <3>5. DOMAIN job'.episodes = 1 .. m + n
      BY <3>2, LenProperties
    <3>. QED
      BY <3>2, <3>3, <3>4, <3>5
  <2>7. \A i \in 1 .. m + n : i \in 1 .. m \/ \E j \in 1 .. n : i = m + j
    <3>. SUFFICES ASSUME NEW i \in 1 .. m + n, i \notin 1 .. m PROVE \E j \in 1 .. n : i = m + j
      OBVIOUS
    <3>1. i - m \in 1 .. n /\ i = m + (i - m)
      BY <2>2, <2>5
    <3>. QED
      BY <3>1
  <2>8. Episodes' = Episodes \cup {more[i] : i \in 1 .. n}
    <3>1. \A i \in 1 .. m : i \in 1 .. m + n
      BY <2>2, <2>5
    <3>2. \A i \in 1 .. n : m + i \in 1 .. m + n
      BY <2>2, <2>5
    <3>. QED
      <4>1. Episodes' = {job'.episodes[i] : i \in 1 .. m + n}
        BY <2>6 DEF Episodes
      <4>2. Episodes = {job.episodes[i] : i \in 1 .. m}
        BY <2>5 DEF Episodes
      <4>3. ASSUME NEW i \in 1 .. m + n
            PROVE  \/ \E j \in 1 .. m : job'.episodes[i] = job.episodes[j]
                   \/ \E j \in 1 .. n : job'.episodes[i] = more[j]
        BY <2>6, <2>7
      <4>4. ASSUME NEW j \in 1 .. m
            PROVE  \E i \in 1 .. m + n : job'.episodes[i] = job.episodes[j]
        BY <2>6, <3>1
      <4>5. ASSUME NEW j \in 1 .. n
            PROVE  \E i \in 1 .. m + n : job'.episodes[i] = more[j]
        BY <2>6, <3>2
      <4>6. PICK new, old : new = job'.episodes /\ old = job.episodes
        OBVIOUS
      <4>7. {new[i] : i \in 1 .. m + n} = {old[i] : i \in 1 .. m} \cup {more[i] : i \in 1 .. n}
        <5>1. ASSUME NEW i \in 1 .. m + n
              PROVE  new[i] \in {old[j] : j \in 1 .. m} \cup {more[j] : j \in 1 .. n}
          BY <4>3, <4>6
        <5>2. ASSUME NEW j \in 1 .. m PROVE old[j] \in {new[i] : i \in 1 .. m + n}
          BY <4>4, <4>6
        <5>3. ASSUME NEW j \in 1 .. n PROVE more[j] \in {new[i] : i \in 1 .. m + n}
          BY <4>5, <4>6
        <5>. QED
          BY <5>1, <5>2, <5>3
      <4>. QED
        BY <4>1, <4>2, <4>6, <4>7, Zenon
  <2>9. JobShape'
    BY <1>1, <1>2, <1>3, <2>6 DEF JobShape
  <2>10. EpisodesDiffer'
    <3>. SUFFICES ASSUME NEW i \in 1 .. m + n, NEW j \in 1 .. m + n,
                         job'.episodes[i].case = job'.episodes[j].case
                  PROVE  i = j
      BY <2>6 DEF EpisodesDiffer
    <3>1. \A k \in 1 .. m : job'.episodes[k].case \in Ended
      BY <2>5, <2>6 DEF Ended
    <3>2. \A k \in 1 .. n : job'.episodes[m + k].case = q[k] /\ q[k] \notin Ended
      BY <1>2, <2>2, <2>3, <2>6
    <3>3. CASE i \in 1 .. m /\ j \in 1 .. m
      BY <1>1, <2>5, <2>6, <3>3 DEF EpisodesDiffer
    <3>4. CASE i \in 1 .. m /\ j \notin 1 .. m
      BY <2>7, <3>1, <3>2, <3>4
    <3>5. CASE i \notin 1 .. m /\ j \in 1 .. m
      BY <2>7, <3>1, <3>2, <3>5
    <3>6. CASE i \notin 1 .. m /\ j \notin 1 .. m
      <4>1. PICK k, l \in 1 .. n : i = m + k /\ j = m + l
        BY <2>7, <3>6
      <4>. QED
        <5>1. job'.episodes[m + k].case = q[k] /\ job'.episodes[m + l].case = q[l]
          BY <3>2
        <5>2. q[k] = q[l]
          BY <4>1, <5>1
        <5>. QED
          BY <2>2, <4>1, <5>2
    <3>. QED
      BY <3>3, <3>4, <3>5, <3>6
  <2>11. CorrectIsGraded'
    BY <1>1, <1>2, <1>3, <2>3, <2>8 DEF CorrectIsGraded, AllOf, StrictList
  <2>12. CountersAgree'
    <3>1. {e \in Episodes' : e.status = "scored"} = {e \in Episodes : e.status = "scored"}
      BY <2>3, <2>8
    <3>2. {e \in Episodes' : e.correct} = {e \in Episodes : e.correct}
      BY <2>3, <2>8
    <3>. QED
      BY <1>1, <1>3, <3>1, <3>2 DEF CountersAgree
  <2>. QED
    BY <1>4, <2>9, <2>10, <2>11, <2>12 DEF ResultsIInv
<1>. QED
  BY <1>1, <1>5, <1>6 DEF JobShape

LEMMA SettleReceiptsStep ==
  ASSUME ResultsIInv, NEW receipts, SettleReceipts(receipts) PROVE ResultsIInv'
<1>1. PICK due, all :
        /\ due = {e \in Episodes : e.requests /= Absent /\ Receipts(e) \subseteq paid'}
        /\ all = (Len(job.episodes) = Cardinality(CaseIds) /\ due = Episodes)
        /\ job' = [job EXCEPT !.settled = {e.case : e \in due},
                              !.cost = IF all THEN TotalCost(due) ELSE @,
                              !.billing = IF all THEN "settled" ELSE @]
  BY DEF SettleReceipts
<1>2. /\ job.live /\ job.status # "running" /\ paid' = paid \cup receipts
      /\ UNCHANGED <<answer, offline>>
  BY DEF SettleReceipts
<1>3. JobShape /\ EpisodesDiffer /\ SettledIsWhole
  BY DEF ResultsIInv
<1>4. /\ DOMAIN job' = DOMAIN job /\ job'.live = job.live /\ job'.episodes = job.episodes
      /\ job'.scored = job.scored /\ job'.correct = job.correct
      /\ job'.status = job.status
      /\ job'.billing = IF all THEN "settled" ELSE job.billing
      /\ job'.cost = IF all THEN TotalCost(due) ELSE job.cost
      /\ job'.settled = {e.case : e \in due}
  BY <1>1, <1>3 DEF JobShape
<1>5. Episodes' = Episodes /\ Ended' = Ended
  BY <1>4 DEF Episodes, Ended
<1>6. Ended = {e.case : e \in Episodes}
  BY <1>3, EpisodesAre
<1>7. TotalCost(Episodes)' = TotalCost(Episodes)
  BY <1>5 DEF TotalCost, EpisodeCost
<1>8. ASSUME job'.billing = "settled" PROVE due = Episodes /\ job'.cost = TotalCost(Episodes)
  <2>1. CASE all
    BY <1>1, <1>4, <2>1
  <2>2. CASE ~all
    BY <1>1, <1>2, <1>3, <1>4, <1>8, <2>2 DEF SettledIsWhole
  <2>. QED
    BY <2>1, <2>2
<1>9. SettledIsWhole'
  <2>. SUFFICES ASSUME job'.billing = "settled"
                PROVE  /\ job'.status /= "running" /\ job'.live
                       /\ job'.settled = Ended'
                       /\ job'.cost = TotalCost(Episodes)'
                       /\ \A e \in Episodes' : e.requests /= Absent /\ Receipts(e) \subseteq paid'
    BY DEF SettledIsWhole, Receipts
  <2>. QED
    BY <1>1, <1>2, <1>4, <1>5, <1>6, <1>7, <1>8
<1>. QED
  BY <1>2, <1>4, <1>9, JobRests

LEMMA ScoreOfflineStep ==
  ASSUME ResultsIInv, NEW selected \in SUBSET CaseIds, NEW failing, ScoreOffline(selected, failing)
  PROVE  ResultsIInv'
<1>1. /\ offline' = [selected |-> selected, failed |-> failing] /\ failing \subseteq selected
      /\ UNCHANGED <<answer, job, paid>>
  BY DEF ScoreOffline
<1>2. JobShape'
  BY <1>1 DEF ResultsIInv, JobShape
<1>3. SettledIsWhole'
  BY <1>1 DEF ResultsIInv, SettledIsWhole, Ended, TotalCost, EpisodeCost, Episodes, Receipts
<1>. QED
  BY <1>1, <1>2, <1>3, JobRests

LEMMA ResultsStep ==
  ASSUME ResultsAssumption, ResultsIInv, [ResultsNext]_resultVars PROVE ResultsIInv'
<1>1. CASE \E c \in CaseIds, status \in {"scored", "system_failed"},
              r \in RequestsOf \cup {Absent} : EndEpisode(c, status, r)
  BY <1>1, EndEpisodeStep
<1>2. CASE EndJob
  BY <1>2, EndJobStep
<1>3. CASE \E under \in SUBSET CaseIds : CancelJob(under)
  BY <1>3, CancelJobStep
<1>4. CASE \E n \in 0 .. 1 : \E receipts \in kSubset(n, Unpaid) : SettleReceipts(receipts)
  BY <1>4, SettleReceiptsStep
<1>5. CASE \E s \in SUBSET CaseIds : \E f \in SUBSET s : ScoreOffline(s, f)
  BY <1>5, ScoreOfflineStep
<1>6. CASE UNCHANGED resultVars
  <2>1. UNCHANGED <<answer, job, paid, offline>>
    BY <1>6 DEF resultVars
  <2>2. SettledIsWhole'
    BY <2>1 DEF ResultsIInv, SettledIsWhole, Ended, TotalCost, EpisodeCost, Episodes, Receipts
  <2>. QED
    BY <2>1, <2>2, JobRests
<1>. QED
  BY <1>1, <1>2, <1>3, <1>4, <1>5, <1>6 DEF ResultsNext

-----------------------------------------------------------------------------
(***************************************************************************)
(* ConsoleResults: what the invariant says of the published columns.       *)
(***************************************************************************)

\* The cases of a set of episodes are as many.
LEMMA CasesCount ==
  ASSUME JobShape, EpisodesDiffer, NEW S, S \subseteq Episodes
  PROVE  /\ IsFiniteSet(S) /\ Cardinality(S) \in Nat
         /\ Cardinality({e.case : e \in S}) = Cardinality(S)
<1>1. /\ IsFiniteSet(Episodes) /\ \A d, e \in Episodes : d.case = e.case => d = e
  BY EpisodesAre
<1>2. IsFiniteSet(S) /\ Cardinality(S) \in Nat
  BY <1>1, FS_Subset, FS_CardinalityType
<1>. DEFINE f == [e \in S |-> e.case]
<1>3. {e.case : e \in S} = {f[e] : e \in S} /\ \A d, e \in S : f[d] = f[e] => d = e
  BY <1>1
<1>. HIDE DEF f
<1>4. Cardinality({f[e] : e \in S}) = Cardinality(S)
  <2>1. PICK T : T = {f[e] : e \in S}
    OBVIOUS
  <2>2. Cardinality(T) = Cardinality(S) <=> \A d, e \in S : f[d] = f[e] => d = e
    BY <1>2, <2>1, ImageCardinality
  <2>. QED
    BY <1>3, <2>1, <2>2
<1>. QED
  BY <1>2, <1>3, <1>4

\* A job that is valid has a scored episode for every case, and counts the answers
\* that are right.
LEMMA ValidCounts ==
  ASSUME ResultsAssumption, ResultsIInv, Valid
  PROVE  /\ job.live
         /\ \A c \in CaseIds : \E e \in Episodes : e.case = c /\ e.status = "scored"
         /\ job.correct = Cardinality({c \in CaseIds : AllOf(c, StrictList(c))})
         /\ job.correct \in Nat
<1>1. JobShape /\ EpisodesDiffer /\ CorrectIsGraded /\ CountersAgree
  BY DEF ResultsIInv
<1>2. job.live /\ job.scored = Cardinality(CaseIds)
  BY DEF Valid, Total
<1>3. /\ Episodes \subseteq EpisodeSet
      /\ \A d, e \in Episodes : d.case = e.case => d = e
  BY <1>1, EpisodesAre
<1>. DEFINE scored == {e \in Episodes : e.status = "scored"}
            right  == {e \in Episodes : e.correct}
            of     == {e.case : e \in scored}
<1>4. of = CaseIds
  <2>1. of \subseteq CaseIds
    BY <1>3 DEF EpisodeSet
  <2>2. scored \subseteq Episodes
    OBVIOUS
  <2>3. Cardinality(scored) = Cardinality(CaseIds)
    BY <1>1, <1>2 DEF CountersAgree
  <2>. HIDE DEF scored
  <2>4. Cardinality(of) = Cardinality(scored)
    BY <1>1, <2>2, CasesCount
  <2>5. IsFiniteSet(CaseIds)
    BY DEF ResultsAssumption
  <2>. HIDE DEF of
  <2>. QED
    BY <2>1, <2>3, <2>4, <2>5, FS_Subset
<1>5. \A c \in CaseIds : \E e \in Episodes : e.case = c /\ e.status = "scored"
  BY <1>4
<1>6. {e.case : e \in right} = {c \in CaseIds : AllOf(c, StrictList(c))}
  <2>1. \A e \in Episodes : e.correct <=> e.status = "scored" /\ AllOf(e.case, StrictList(e.case))
    BY <1>1, <1>2 DEF CorrectIsGraded
  <2>2. \A e \in right : e.case \in CaseIds /\ AllOf(e.case, StrictList(e.case))
    BY <1>3, <2>1 DEF EpisodeSet
  <2>3. \A c \in CaseIds : AllOf(c, StrictList(c)) => \E e \in right : e.case = c
    BY <1>5, <2>1
  <2>. QED
    BY <2>2, <2>3
<1>7. job.correct = Cardinality(right) /\ right \subseteq Episodes
  BY <1>1 DEF CountersAgree
<1>. HIDE DEF right
<1>8. Cardinality({e.case : e \in right}) = Cardinality(right) /\ Cardinality(right) \in Nat
  BY <1>1, <1>7, CasesCount
<1>. QED
  BY <1>2, <1>5, <1>6, <1>7, <1>8

\* The accuracy column, when it is shown.
LEMMA AccuracyAddsUp ==
  ASSUME ResultsAssumption, ResultsIInv, ResultRow.accuracy # Absent
  PROVE  /\ \A c \in CaseIds : \E e \in Episodes : e.case = c /\ e.status = "scored"
         /\ ResultRow.accuracy[1] = Cardinality({e \in Episodes : EpisodeRow(e).strict = TRUE})
<1>1. Valid /\ ResultRow.accuracy = <<job.correct, Total>>
  BY DEF ResultRow
<1>2. job.live /\ \A c \in CaseIds : \E e \in Episodes : e.case = c /\ e.status = "scored"
  BY <1>1, ValidCounts
<1>3. CorrectIsGraded /\ CountersAgree
  BY DEF ResultsIInv
<1>4. Absent # TRUE
  BY DEF ResultsAssumption
<1>5. ASSUME NEW e \in Episodes PROVE e.correct <=> EpisodeRow(e).strict = TRUE
  <2>1. e.correct <=> e.status = "scored" /\ AllOf(e.case, StrictList(e.case))
    BY <1>2, <1>3 DEF CorrectIsGraded
  <2>2. EpisodeRow(e).strict = IF e.status = "scored" THEN AllOf(e.case, StrictList(e.case))
                               ELSE Absent
    BY <1>2 DEF EpisodeRow
  <2>3. AllOf(e.case, StrictList(e.case)) \in BOOLEAN
    BY DEF AllOf
  <2>. QED
    BY <1>4, <2>1, <2>2, <2>3
<1>6. {e \in Episodes : e.correct} = {e \in Episodes : EpisodeRow(e).strict = TRUE}
  BY <1>5
<1>. QED
  <2>1. ResultRow.accuracy[1] = job.correct
    BY <1>1
  <2>2. job.correct = Cardinality({e \in Episodes : EpisodeRow(e).strict = TRUE})
    BY <1>3, <1>6, Zenon DEF CountersAgree
  <2>. QED
    BY <1>2, <2>1, <2>2, Zenon

\* What the requests of an episode cost.
LEMMA EpisodeCostIsNat ==
  ASSUME ResultsAssumption, NEW e, e.requests \in RequestsOf PROVE EpisodeCost(e) \in Nat
<1>1. e.requests \in Seq(Nat \cup {Unpriced})
  BY DEF ResultsAssumption
<1>2. DOMAIN e.requests = 1 .. Len(e.requests) /\ Len(e.requests) \in Nat
  BY <1>1, LenProperties
<1>3. IsFiniteSet(DOMAIN e.requests)
  BY <1>2, FS_Interval
<1>4. \A q \in DOMAIN e.requests : Cost[q] \in Nat
  BY DEF ResultsAssumption
<1>. QED
  BY <1>3, <1>4, SumNat DEF EpisodeCost

\* The cost column of a live job, when it is shown.
LEMMA CostAddsUp ==
  ASSUME ResultsAssumption, ResultsIInv, ResultRow.cost # Absent, job.live
  PROVE  /\ \A e \in Episodes : EpisodeRow(e).cost # Absent
         /\ ResultRow.cost = SumFunctionOnSet([e \in Episodes |-> EpisodeRow(e).cost], Episodes)
<1>1. job.billing = "settled" /\ ResultRow.cost = job.cost
  BY DEF ResultRow, Settled
<1>2. JobShape /\ EpisodesDiffer /\ SettledIsWhole
  BY DEF ResultsIInv
<1>3. /\ job.settled = Ended /\ job.cost = TotalCost(Episodes)
      /\ \A e \in Episodes : e.requests /= Absent
  BY <1>1, <1>2 DEF SettledIsWhole
<1>4. IsFiniteSet(Episodes) /\ Episodes \subseteq EpisodeSet /\ Ended = {e.case : e \in Episodes}
  BY <1>2, EpisodesAre
<1>5. ASSUME NEW e \in Episodes
      PROVE  EpisodeRow(e).cost = EpisodeCost(e) /\ EpisodeCost(e) \in Nat
  <2>1. e.case \in job.settled /\ e.requests \in RequestsOf
    BY <1>3, <1>4 DEF EpisodeSet
  <2>. QED
    BY <2>1, EpisodeCostIsNat DEF EpisodeRow
<1>6. \A e \in Episodes : EpisodeRow(e).cost # Absent
  BY <1>5 DEF ResultsAssumption
<1>7. TotalCost(Episodes) = SumFunctionOnSet([e \in Episodes |-> EpisodeRow(e).cost], Episodes)
  <2>1. [e \in Episodes |-> EpisodeCost(e)] = [e \in Episodes |-> EpisodeRow(e).cost]
    BY <1>5
  <2>. QED
    BY <2>1 DEF TotalCost
<1>. QED
  BY <1>1, <1>3, <1>6, <1>7

\* The requests in evidence are finitely many, and one that is known has an estimate.
LEMMA RequestsAre ==
  ASSUME ResultsAssumption, ResultsIInv
  PROVE  /\ IsFiniteSet(Requested)
         /\ \A x \in Known : EstimateOf(x) \in Nat
         /\ \A S : S \subseteq Known => IsFiniteSet(S) /\ SumOf(S) \in Nat
<1>0. JobShape /\ EpisodesDiffer
  BY DEF ResultsIInv
<1>1. /\ IsFiniteSet(Episodes) /\ Episodes \subseteq EpisodeSet
      /\ \A d, e \in Episodes : d.case = e.case => d = e
  BY <1>0, EpisodesAre
<1>2. PICK E : E = {e \in Episodes : e.requests /= Absent}
  OBVIOUS
<1>3. IsFiniteSet(E)
  BY <1>1, <1>2, FS_Subset
<1>4. ASSUME NEW e \in E
      PROVE  /\ e.requests \in Seq(Nat \cup {Unpriced})
             /\ IsFiniteSet(DOMAIN e.requests) /\ IsFiniteSet(Receipts(e))
  <2>1. e.requests \in RequestsOf
    BY <1>1, <1>2 DEF EpisodeSet
  <2>2. e.requests \in Seq(Nat \cup {Unpriced})
    BY <2>1 DEF ResultsAssumption
  <2>3. DOMAIN e.requests = 1 .. Len(e.requests) /\ Len(e.requests) \in Nat
    BY <2>2, LenProperties
  <2>4. IsFiniteSet(DOMAIN e.requests)
    BY <2>3, FS_Interval
  <2>. DEFINE f == [q \in DOMAIN e.requests |-> <<e.case, q>>]
  <2>5. Receipts(e) = {f[q] : q \in DOMAIN e.requests}
    BY DEF Receipts
  <2>. HIDE DEF f
  <2>6. IsFiniteSet({f[q] : q \in DOMAIN e.requests})
    BY <2>4, ImageCardinality
  <2>. QED
    BY <2>2, <2>4, <2>5, <2>6
<1>5. IsFiniteSet(Requested)
  <2>. DEFINE f == [e \in E |-> Receipts(e)]
              T == {f[e] : e \in E}
  <2>1. Requested = UNION T
    BY <1>2 DEF Requested
  <2>2. \A t \in T : IsFiniteSet(t)
    BY <1>4
  <2>3. IsFiniteSet(T)
    <3>. HIDE DEF f
    <3>. QED
      BY <1>3, ImageCardinality
  <2>. HIDE DEF T
  <2>. QED
    BY <2>1, <2>2, <2>3, FS_UNION
<1>6. ASSUME NEW x \in Known PROVE EstimateOf(x) \in Nat
  <2>1. x \in Requested /\ EstimateOf(x) # Unpriced
    BY DEF Known
  <2>2. PICK e \in E : \E q \in DOMAIN e.requests : x = <<e.case, q>>
    <3>1. PICK e \in E : x \in Receipts(e)
      BY <1>2, <2>1 DEF Requested
    <3>. QED
      BY <3>1 DEF Receipts
  <2>6. PICK q \in DOMAIN e.requests : x = <<e.case, q>>
    BY <2>2
  <2>3. (CHOOSE d \in Episodes : d.case = x[1]) = e
    <3>1. e \in Episodes /\ e.case = x[1] /\ \A d \in Episodes : d.case = x[1] => d = e
      BY <1>1, <1>2, <2>2
    <3>. QED
      BY <3>1
  <2>4. EstimateOf(x) = e.requests[q]
    <3>1. PICK first : first = CHOOSE d \in Episodes : d.case = x[1]
      OBVIOUS
    <3>2. EstimateOf(x) = first.requests[x[2]]
      BY <3>1, Zenon DEF EstimateOf
    <3>3. first = e
      BY <2>3, <3>1, Zenon
    <3>4. x[2] = q
      BY <2>6
    <3>. QED
      BY <3>2, <3>3, <3>4, Zenon
  <2>5. e.requests[q] \in Nat \cup {Unpriced}
    BY <1>4, ElementOfSeq, LenProperties
  <2>. QED
    BY <2>1, <2>4, <2>5
<1>7. ASSUME NEW S, S \subseteq Known PROVE IsFiniteSet(S) /\ SumOf(S) \in Nat
  <2>. DEFINE f == [x \in S |-> EstimateOf(x)]
  <2>1. IsFiniteSet(S)
    BY <1>5, <1>7, FS_Subset DEF Known
  <2>2. \A x \in S : f[x] \in Nat
    BY <1>6, <1>7
  <2>3. SumOf(S) = SumFunctionOnSet(f, S)
    BY DEF SumOf
  <2>. HIDE DEF f
  <2>. QED
    BY <2>1, <2>2, <2>3, SumNat
<1>. QED
  BY <1>5, <1>6, <1>7

\* The estimates: whole when none is missing, and then whole for each episode.
LEMMA EstimatesAddUp ==
  ASSUME ResultsAssumption, ResultsIInv
  PROVE  /\ ResultRow.missing = 0 /\ ResultRow.known # Absent
              => ResultRow.estimated = ResultRow.known
         /\ ResultRow.estimated # Absent =>
              \A e \in Episodes : e.requests \in RequestsOf /\ e.requests # <<>>
                                    => EpisodeRow(e).estimated # Absent
<1>1. IsFiniteSet(Requested) /\ \A S : S \subseteq Known => IsFiniteSet(S) /\ SumOf(S) \in Nat
  BY RequestsAre
<1>2. Known \subseteq Requested
  BY DEF Known
<1>3. ASSUME ResultRow.missing = 0, ResultRow.known # Absent
      PROVE  ResultRow.estimated = ResultRow.known
  <2>1. Known # {} /\ ResultRow.known = SumOf(Known)
    BY <1>3 DEF ResultRow
  <2>2. Cardinality(Requested) - Cardinality(Known) = 0
    BY <1>3 DEF ResultRow
  <2>3. Cardinality(Requested) \in Nat /\ Cardinality(Known) \in Nat
    BY <1>1, FS_CardinalityType
  <2>4. Known = Requested
    BY <1>1, <1>2, <2>2, <2>3, FS_Subset
  <2>5. ResultRow.estimated = EstimatedCost(Requested)
    BY DEF ResultRow
  <2>. QED
    BY <2>1, <2>4, <2>5 DEF EstimatedCost
<1>4. ASSUME ResultRow.estimated # Absent, NEW e \in Episodes, e.requests \in RequestsOf,
             e.requests # <<>>
      PROVE  EpisodeRow(e).estimated # Absent
  <2>1. Requested \subseteq Known
    BY <1>4 DEF ResultRow, EstimatedCost
  <2>2. e.requests # Absent
    BY <1>4 DEF ResultsAssumption
  <2>. DEFINE S == {x \in Requested : x[1] = e.case}
  <2>3. S # {}
    <3>1. e.requests \in Seq(Nat \cup {Unpriced})
      BY <1>4 DEF ResultsAssumption
    <3>2. DOMAIN e.requests = 1 .. Len(e.requests) /\ Len(e.requests) \in Nat
          /\ Len(e.requests) # 0
      BY <1>4, <3>1, LenProperties, EmptySeq
    <3>3. <<e.case, 1>> \in Receipts(e)
      BY <3>2 DEF Receipts
    <3>4. <<e.case, 1>> \in Requested
      BY <2>2, <3>3 DEF Requested
    <3>. QED
      BY <3>4
  <2>4. S \subseteq Known
    BY <2>1
  <2>5. EpisodeRow(e).estimated = EstimatedCost(S)
    BY DEF EpisodeRow
  <2>. HIDE DEF S
  <2>6. EpisodeRow(e).estimated = SumOf(S) /\ SumOf(S) \in Nat
    BY <1>1, <2>3, <2>4, <2>5 DEF EstimatedCost
  <2>. QED
    BY <2>6 DEF ResultsAssumption
<1>. QED
  BY <1>3, <1>4

LEMMA RowsDoAddUp == ASSUME ResultsAssumption, ResultsIInv PROVE RowsAddUp
<1>1. PICK row : row = ResultRow
  OBVIOUS
<1>2. row.accuracy # Absent =>
        /\ \A c \in CaseIds : \E e \in Episodes : e.case = c /\ e.status = "scored"
        /\ row.accuracy[1] = Cardinality({e \in Episodes : EpisodeRow(e).strict = TRUE})
  BY <1>1, AccuracyAddsUp
<1>3. (row.cost # Absent /\ job.live) =>
        /\ \A e \in Episodes : EpisodeRow(e).cost # Absent
        /\ row.cost = SumFunctionOnSet([e \in Episodes |-> EpisodeRow(e).cost], Episodes)
  BY <1>1, CostAddsUp
<1>4. /\ (row.missing = 0 /\ row.known # Absent) => row.estimated = row.known
      /\ row.estimated # Absent =>
           \A e \in Episodes : e.requests \in RequestsOf /\ e.requests # <<>>
                                 => EpisodeRow(e).estimated # Absent
  BY <1>1, EstimatesAddUp
<1>5. RowsAddUp <=>
        /\ row.accuracy # Absent =>
            /\ \A c \in CaseIds : \E e \in Episodes : e.case = c /\ e.status = "scored"
            /\ row.accuracy[1] = Cardinality({e \in Episodes : EpisodeRow(e).strict = TRUE})
        /\ (row.cost # Absent /\ job.live) =>
            /\ \A e \in Episodes : EpisodeRow(e).cost # Absent
            /\ row.cost = SumFunctionOnSet([e \in Episodes |-> EpisodeRow(e).cost], Episodes)
        /\ (row.missing = 0 /\ row.known # Absent) => row.estimated = row.known
        /\ row.estimated # Absent =>
            \A e \in Episodes : e.requests \in RequestsOf /\ e.requests # <<>>
                                  => EpisodeRow(e).estimated # Absent
  BY <1>1, Zenon DEF RowsAddUp
<1>. QED
  BY <1>2, <1>3, <1>4, <1>5, Zenon

LEMMA FixturesDoClaimNothing == ASSUME ResultsIInv PROVE FixturesClaimNothing
<1>. SUFFICES ASSUME ~job.live
              PROVE  /\ ResultRow.accuracy = Absent /\ ResultRow.correct = Absent
                     /\ ResultRow.ifeval = Absent /\ ResultRow.perCorrect = Absent
  BY DEF FixturesClaimNothing
<1>1. ~Valid
  BY DEF Valid
<1>. QED
  BY <1>1 DEF ResultRow, IfevalMetrics

\* The lists of a set of cases that has been graded.
StrictLists(cases) == [c \in cases |-> StrictList(c)]
LooseLists(cases)  == [c \in cases |-> LooseList(c)]

LEMMA MetricsAre ==
  ASSUME NEW G, NEW C
  PROVE  /\ DOMAIN Metrics(G, C) = {"promptStrict", "promptLoose",
                                    "instructionStrict", "instructionLoose"}
         /\ Metrics(G, C).promptStrict = <<CountOf(StrictLists(G)), Cardinality(C)>>
         /\ Metrics(G, C).promptLoose = <<CountOf(LooseLists(G)), Cardinality(C)>>
         /\ Metrics(G, C).instructionStrict =
              <<Followed(StrictLists(G)), Followed([c \in C |-> InstructionsOf[c]])>>
         /\ Metrics(G, C).instructionLoose =
              <<Followed(LooseLists(G)), Followed([c \in C |-> InstructionsOf[c]])>>
BY DEF Metrics, StrictLists, LooseLists

\* What a text follows, all of them follow, and all of it are instructions.
LEMMA ListsAre ==
  ASSUME ResultsAssumption, JobShape, NEW c \in CaseIds
  PROVE  /\ StrictList(c) \subseteq LooseList(c) /\ LooseList(c) \subseteq InstructionsOf[c]
         /\ IsFiniteSet(LooseList(c)) /\ IsFiniteSet(StrictList(c))
<1>1. answer \in Answers /\ Whole \in Texts
  BY DEF JobShape, ResultsAssumption
<1>2. \A v \in Texts : answer[c][v] \subseteq InstructionsOf[c]
  BY <1>1 DEF ResultsAssumption
<1>3. StrictList(c) \subseteq LooseList(c)
  BY <1>1 DEF StrictList, LooseList
<1>4. LooseList(c) \subseteq InstructionsOf[c]
  BY <1>2 DEF LooseList
<1>5. IsFiniteSet(InstructionsOf[c])
  BY DEF ResultsAssumption
<1>6. IsFiniteSet(LooseList(c)) /\ IsFiniteSet(StrictList(c))
  BY <1>3, <1>4, <1>5, FS_Subset
<1>. QED
  BY <1>3, <1>4, <1>6

\* More cases, and lists that are no shorter, count for no less.
LEMMA ListsGrow ==
  ASSUME ResultsAssumption, NEW f, NEW g, DOMAIN f \subseteq DOMAIN g, DOMAIN g \subseteq CaseIds,
         \A c \in DOMAIN g : IsFiniteSet(g[c]) /\ g[c] \subseteq InstructionsOf[c],
         \A c \in DOMAIN f : f[c] \subseteq g[c]
  PROVE  CountOf(f) <= CountOf(g) /\ Followed(f) <= Followed(g)
<1>1. IsFiniteSet(DOMAIN g) /\ IsFiniteSet(DOMAIN f)
  <2>1. IsFiniteSet(CaseIds)
    BY DEF ResultsAssumption
  <2>2. IsFiniteSet(DOMAIN g)
    BY <2>1, FS_Subset
  <2>. QED
    BY <2>2, FS_Subset
<1>2. CountOf(f) <= CountOf(g)
  <2>. DEFINE F == {c \in DOMAIN f : AllOf(c, f[c])}
              G == {c \in DOMAIN g : AllOf(c, g[c])}
  <2>1. F \subseteq G
    BY DEF AllOf
  <2>2. IsFiniteSet(G)
    BY <1>1, FS_Subset
  <2>3. CountOf(f) = Cardinality(F) /\ CountOf(g) = Cardinality(G)
    BY DEF CountOf
  <2>. HIDE DEF F, G
  <2>. QED
    BY <2>1, <2>2, <2>3, FS_Subset
<1>3. Followed(f) <= Followed(g)
  <2>1. PICK D, E, a, b : /\ D = DOMAIN f /\ E = DOMAIN g
                          /\ a = [c \in D |-> Cardinality(f[c])]
                          /\ b = [c \in E |-> Cardinality(g[c])]
    OBVIOUS
  <2>2. \A c \in E : b[c] \in Nat
    <3>1. \A c \in E : IsFiniteSet(g[c])
      BY <2>1
    <3>. QED
      BY <2>1, <3>1, FS_CardinalityType
  <2>3. \A c \in D : a[c] \in Nat /\ a[c] <= b[c]
    <3>. SUFFICES ASSUME NEW c \in D PROVE a[c] \in Nat /\ a[c] <= b[c]
      OBVIOUS
    <3>1. f[c] \subseteq g[c] /\ IsFiniteSet(g[c]) /\ a[c] = Cardinality(f[c])
          /\ b[c] = Cardinality(g[c])
      BY <2>1
    <3>2. IsFiniteSet(f[c]) /\ Cardinality(f[c]) <= Cardinality(g[c])
      BY <3>1, FS_Subset
    <3>. QED
      BY <3>1, <3>2, FS_CardinalityType
  <2>4. IsFiniteSet(D) /\ IsFiniteSet(E) /\ D \subseteq E
    BY <1>1, <2>1
  <2>5. SumFunctionOnSet(a, D) <= SumFunctionOnSet(b, D)
    <3>1. \A c \in D : a[c] \in Nat /\ b[c] \in Nat /\ a[c] <= b[c]
      BY <2>2, <2>3, <2>4
    <3>. QED
      BY <2>4, <3>1, SumMonotone
  <2>6. SumFunctionOnSet(b, D) <= SumFunctionOnSet(b, E)
    BY <2>2, <2>4, SumOfPart
  <2>7. /\ SumFunctionOnSet(a, D) \in Nat /\ SumFunctionOnSet(b, D) \in Nat
        /\ SumFunctionOnSet(b, E) \in Nat
    <3>1. (\A c \in D : a[c] \in Nat) /\ (\A c \in D : b[c] \in Nat)
      BY <2>2, <2>3, <2>4
    <3>. QED
      BY <2>2, <2>4, <3>1, SumNat
  <2>8. Followed(f) = SumFunctionOnSet(a, D) /\ Followed(g) = SumFunctionOnSet(b, E)
    BY <2>1 DEF Followed
  <2>. QED
    BY <2>5, <2>6, <2>7, <2>8
<1>. QED
  BY <1>2, <1>3

\* Loose grading of some cases is never below their strict grading, and grading more
\* of them never counts for less.
LEMMA GradesGrow ==
  ASSUME ResultsAssumption, JobShape, NEW G, NEW H, G \subseteq H, H \subseteq CaseIds
  PROVE  /\ CountOf(StrictLists(G)) <= CountOf(StrictLists(H))
         /\ CountOf(LooseLists(G)) <= CountOf(LooseLists(H))
         /\ Followed(StrictLists(G)) <= Followed(StrictLists(H))
         /\ Followed(LooseLists(G)) <= Followed(LooseLists(H))
         /\ CountOf(StrictLists(G)) <= CountOf(LooseLists(G))
         /\ Followed(StrictLists(G)) <= Followed(LooseLists(G))
<1>1. PICK s, l, t, k : /\ s = StrictLists(G) /\ l = LooseLists(G)
                        /\ t = StrictLists(H) /\ k = LooseLists(H)
  OBVIOUS
<1>2. /\ DOMAIN s = G /\ DOMAIN l = G /\ DOMAIN t = H /\ DOMAIN k = H
      /\ \A c \in G : s[c] = StrictList(c) /\ l[c] = LooseList(c)
      /\ \A c \in H : t[c] = StrictList(c) /\ k[c] = LooseList(c)
  BY <1>1 DEF StrictLists, LooseLists
<1>3. \A c \in CaseIds : /\ StrictList(c) \subseteq LooseList(c)
                         /\ LooseList(c) \subseteq InstructionsOf[c]
                         /\ IsFiniteSet(LooseList(c)) /\ IsFiniteSet(StrictList(c))
  BY ListsAre
<1>4. CountOf(s) <= CountOf(t) /\ Followed(s) <= Followed(t)
  <2>1. /\ DOMAIN s \subseteq DOMAIN t /\ DOMAIN t \subseteq CaseIds
        /\ \A c \in DOMAIN t : IsFiniteSet(t[c]) /\ t[c] \subseteq InstructionsOf[c]
        /\ \A c \in DOMAIN s : s[c] \subseteq t[c]
    BY <1>2, <1>3
  <2>. QED
    BY <2>1, ListsGrow
<1>5. CountOf(l) <= CountOf(k) /\ Followed(l) <= Followed(k)
  <2>1. /\ DOMAIN l \subseteq DOMAIN k /\ DOMAIN k \subseteq CaseIds
        /\ \A c \in DOMAIN k : IsFiniteSet(k[c]) /\ k[c] \subseteq InstructionsOf[c]
        /\ \A c \in DOMAIN l : l[c] \subseteq k[c]
    BY <1>2, <1>3
  <2>. QED
    BY <2>1, ListsGrow
<1>6. CountOf(s) <= CountOf(l) /\ Followed(s) <= Followed(l)
  <2>1. /\ DOMAIN s \subseteq DOMAIN l /\ DOMAIN l \subseteq CaseIds
        /\ \A c \in DOMAIN l : IsFiniteSet(l[c]) /\ l[c] \subseteq InstructionsOf[c]
        /\ \A c \in DOMAIN s : s[c] \subseteq l[c]
    BY <1>2, <1>3
  <2>. QED
    BY <2>1, ListsGrow
<1>. QED
  BY <1>1, <1>4, <1>5, <1>6, Zenon

LEMMA MetricsDoAgree == ASSUME ResultsAssumption, ResultsIInv PROVE MetricsAgree
<1>0. JobShape
  BY DEF ResultsIInv
<1>1. PICK shown, scores : shown = ResultRow.ifeval /\ scores = AggregateScores
  OBVIOUS
<1>2. ASSUME shown # Absent
      PROVE  Valid /\ shown = Metrics(CaseIds, CaseIds)
  BY <1>1, <1>2 DEF ResultRow, IfevalMetrics
<1>3. ASSUME offline # Absent
      PROVE  /\ offline.failed \subseteq offline.selected /\ offline.selected \subseteq CaseIds
             /\ scores = Metrics(offline.selected \ offline.failed, offline.selected)
  BY <1>0, <1>1, <1>3 DEF JobShape, AggregateScores
<1>. DEFINE Below(a, b) == a[2] = b[2] /\ a[1] <= b[1]
            InOrder(m) == /\ Below(m.promptStrict, m.promptLoose)
                          /\ Below(m.instructionStrict, m.instructionLoose)
<1>4. ASSUME NEW G, NEW C, G \subseteq CaseIds PROVE InOrder(Metrics(G, C))
  <2>1. /\ CountOf(StrictLists(G)) <= CountOf(LooseLists(G))
        /\ Followed(StrictLists(G)) <= Followed(LooseLists(G))
    BY <1>0, <1>4, GradesGrow
  <2>2. PICK m : m = Metrics(G, C)
    OBVIOUS
  <2>3. /\ m.promptStrict = <<CountOf(StrictLists(G)), Cardinality(C)>>
        /\ m.promptLoose = <<CountOf(LooseLists(G)), Cardinality(C)>>
        /\ m.instructionStrict =
             <<Followed(StrictLists(G)), Followed([c \in C |-> InstructionsOf[c]])>>
        /\ m.instructionLoose =
             <<Followed(LooseLists(G)), Followed([c \in C |-> InstructionsOf[c]])>>
    BY <2>2, MetricsAre
  <2>4. InOrder(m)
    BY <2>1, <2>3
  <2>. QED
    BY <2>2, <2>4
<1>5. shown # Absent => InOrder(shown) /\ shown.promptStrict = ResultRow.accuracy
  <2>. SUFFICES ASSUME shown # Absent
                PROVE  InOrder(shown) /\ shown.promptStrict = ResultRow.accuracy
    OBVIOUS
  <2>1. Valid /\ shown = Metrics(CaseIds, CaseIds)
    BY <1>2
  <2>2. InOrder(shown)
    <3>. HIDE DEF InOrder
    <3>. QED
      BY <1>4, <2>1
  <2>3. ResultRow.accuracy = <<job.correct, Cardinality(CaseIds)>>
    BY <2>1 DEF ResultRow, Total
  <2>4. job.correct = CountOf(StrictLists(CaseIds))
    <3>1. CountOf(StrictLists(CaseIds)) =
            Cardinality({c \in CaseIds : AllOf(c, StrictLists(CaseIds)[c])})
      BY DEF CountOf, StrictLists
    <3>2. {c \in CaseIds : AllOf(c, StrictLists(CaseIds)[c])} =
            {c \in CaseIds : AllOf(c, StrictList(c))}
      BY DEF StrictLists
    <3>3. job.correct = Cardinality({c \in CaseIds : AllOf(c, StrictList(c))})
      BY <2>1, ValidCounts
    <3>. QED
      BY <3>1, <3>2, <3>3, Zenon
  <2>5. shown.promptStrict = <<CountOf(StrictLists(CaseIds)), Cardinality(CaseIds)>>
    BY <2>1, MetricsAre
  <2>. QED
    BY <2>2, <2>3, <2>4, <2>5, Zenon
<1>6. offline # Absent => InOrder(scores)
  <2>. SUFFICES ASSUME offline # Absent PROVE InOrder(scores)
    OBVIOUS
  <2>1. PICK G : G = offline.selected \ offline.failed
    OBVIOUS
  <2>2. G \subseteq CaseIds /\ scores = Metrics(G, offline.selected)
    BY <1>3, <2>1
  <2>. HIDE DEF InOrder
  <2>. QED
    BY <1>4, <2>2
<1>7. ASSUME shown # Absent, offline # Absent, offline.selected = CaseIds
      PROVE  /\ \A k \in DOMAIN shown : Below(scores[k], shown[k])
             /\ offline.failed = {} => scores = shown
  <2>1. PICK G : G = offline.selected \ offline.failed
    OBVIOUS
  <2>2. G \subseteq CaseIds /\ shown = Metrics(CaseIds, CaseIds) /\ scores = Metrics(G, CaseIds)
    BY <1>2, <1>3, <1>7, <2>1
  <2>3. offline.failed = {} => scores = shown
    BY <1>7, <2>1, <2>2
  <2>4. /\ CountOf(StrictLists(G)) <= CountOf(StrictLists(CaseIds))
        /\ CountOf(LooseLists(G)) <= CountOf(LooseLists(CaseIds))
        /\ Followed(StrictLists(G)) <= Followed(StrictLists(CaseIds))
        /\ Followed(LooseLists(G)) <= Followed(LooseLists(CaseIds))
    BY <1>0, <2>2, GradesGrow
  <2>5. DOMAIN shown = {"promptStrict", "promptLoose", "instructionStrict", "instructionLoose"}
    BY <2>2, MetricsAre
  <2>6. /\ Below(scores.promptStrict, shown.promptStrict)
        /\ Below(scores.promptLoose, shown.promptLoose)
        /\ Below(scores.instructionStrict, shown.instructionStrict)
        /\ Below(scores.instructionLoose, shown.instructionLoose)
    <3>1. /\ shown.promptStrict = <<CountOf(StrictLists(CaseIds)), Cardinality(CaseIds)>>
          /\ shown.promptLoose = <<CountOf(LooseLists(CaseIds)), Cardinality(CaseIds)>>
          /\ shown.instructionStrict = <<Followed(StrictLists(CaseIds)),
                                         Followed([c \in CaseIds |-> InstructionsOf[c]])>>
          /\ shown.instructionLoose = <<Followed(LooseLists(CaseIds)),
                                        Followed([c \in CaseIds |-> InstructionsOf[c]])>>
      BY <2>2, MetricsAre
    <3>2. /\ scores.promptStrict = <<CountOf(StrictLists(G)), Cardinality(CaseIds)>>
          /\ scores.promptLoose = <<CountOf(LooseLists(G)), Cardinality(CaseIds)>>
          /\ scores.instructionStrict = <<Followed(StrictLists(G)),
                                          Followed([c \in CaseIds |-> InstructionsOf[c]])>>
          /\ scores.instructionLoose = <<Followed(LooseLists(G)),
                                         Followed([c \in CaseIds |-> InstructionsOf[c]])>>
      BY <2>2, MetricsAre
    <3>. QED
      BY <2>4, <3>1, <3>2
  <2>. QED
    BY <2>3, <2>5, <2>6
<1>. HIDE DEF InOrder
<1>8. MetricsAgree <=>
        /\ shown # Absent => InOrder(shown) /\ shown.promptStrict = ResultRow.accuracy
        /\ offline # Absent => InOrder(scores)
        /\ (shown # Absent /\ offline # Absent) => (offline.selected = CaseIds =>
             /\ \A k \in DOMAIN shown : Below(scores[k], shown[k])
             /\ offline.failed = {} => scores = shown)
  BY <1>1, Zenon DEF MetricsAgree, InOrder
<1>. QED
  BY <1>5, <1>6, <1>7, <1>8

\* What the console shows of a job is what its episodes add up to, nothing of a
\* fixture run passes for a result, and the metrics agree with each other and with the
\* offline report.
THEOREM ConsoleDoesAddUp == ResultsSpec => []ConsoleAddsUp
<1>1. ResultsIInv => ConsoleAddsUp
  BY ResultsAssumption, RowsDoAddUp, FixturesDoClaimNothing, MetricsDoAgree DEF ConsoleAddsUp
<1>. QED
  BY <1>1, ResultsAssumption, ResultsStart, ResultsStep, PTL DEF ResultsSpec

-----------------------------------------------------------------------------
(***************************************************************************)
(* Inspect report: quotients.  A quotient is a pair whose second component *)
(* is positive; AtMost is a total preorder of them, and the operations     *)
(* keep it.                                                                *)
(***************************************************************************)

Quotients == Int \X (Nat \ {0})

LEMMA QuotientIs ==
  ASSUME NEW a \in Quotients
  PROVE  a[1] \in Int /\ a[2] \in Int /\ a[2] > 0 /\ a = <<a[1], a[2]>>
BY DEF Quotients

LEMMA QuotientBy == \A n \in Int, d \in Int : d > 0 => <<n, d>> \in Quotients
BY DEF Quotients

LEMMA QuotientIsValue ==
  ASSUME ReportAssumption, NEW a \in Quotients PROVE a # NoValue
BY DEF ReportAssumption, Quotients

LEMMA AtMostIsOrder ==
  /\ \A a \in Quotients : AtMost(a, a) /\ ~Less(a, a)
  /\ \A a, b \in Quotients : Less(a, b) => AtMost(a, b)
  /\ \A a, b \in Quotients : ~AtMost(a, b) <=> Less(b, a)
  /\ \A a, b \in Quotients : AtMost(a, b) \/ AtMost(b, a)
BY DEF AtMost, Less, Quotients

LEMMA AtMostIsTransitive ==
  ASSUME NEW a \in Quotients, NEW b \in Quotients, NEW c \in Quotients,
         AtMost(a, b), AtMost(b, c)
  PROVE  AtMost(a, c)
BY DEF AtMost, Less, Quotients

LEMMA LessIsTransitive ==
  ASSUME NEW a \in Quotients, NEW b \in Quotients, NEW c \in Quotients,
         \/ Less(a, b) /\ AtMost(b, c)
         \/ AtMost(a, b) /\ Less(b, c)
  PROVE  Less(a, c)
<1>1. SUFFICES ASSUME AtMost(c, a) PROVE FALSE
  BY DEF AtMost
<1>2. CASE Less(a, b) /\ AtMost(b, c)
  <2>1. AtMost(b, a)
    BY <1>1, <1>2, AtMostIsTransitive
  <2>. QED
    BY <1>2, <2>1 DEF AtMost
<1>3. CASE AtMost(a, b) /\ Less(b, c)
  <2>1. AtMost(c, b)
    BY <1>1, <1>3, AtMostIsTransitive
  <2>. QED
    BY <1>3, <2>1 DEF AtMost
<1>. QED
  BY <1>2, <1>3

LEMMA PlusIs ==
  ASSUME NEW a \in Quotients, NEW b \in Quotients
  PROVE  Plus(a, b) \in Quotients
BY DEF Plus, Quotients

LEMMA CrossProducts ==
  ASSUME NEW a \in Int, NEW b \in Int, NEW c \in Int, NEW d \in Int,
         NEW u \in Int, NEW v \in Int, NEW x \in Int, NEW y \in Int,
         v > 0, y > 0, u > 0, x > 0, a * x <= c * u, b * y <= d * v
  PROVE  (a * v + b * u) * (x * y) <= (c * y + d * x) * (u * v)
<1>1. /\ (a * x) * (v * y) <= (c * u) * (v * y)
      /\ (b * y) * (u * x) <= (d * v) * (u * x)
  <2>1. v * y > 0 /\ u * x > 0 /\ v * y \in Int /\ u * x \in Int
    OBVIOUS
  <2>2. \A p, q, r \in Int : r > 0 /\ p <= q => p * r <= q * r
    OBVIOUS
  <2>3. a * x \in Int /\ c * u \in Int /\ b * y \in Int /\ d * v \in Int
    OBVIOUS
  <2>. QED
    BY ONLY <2>1, <2>2, <2>3, a * x <= c * u, b * y <= d * v
<1>2. (a * v + b * u) * (x * y) = (a * x) * (v * y) + (b * y) * (u * x)
  OBVIOUS
<1>3. (c * y + d * x) * (u * v) = (c * u) * (v * y) + (d * v) * (u * x)
  OBVIOUS
<1>4. /\ (a * x) * (v * y) \in Int /\ (c * u) * (v * y) \in Int
      /\ (b * y) * (u * x) \in Int /\ (d * v) * (u * x) \in Int
  OBVIOUS
<1>. QED
  BY <1>1, <1>2, <1>3, <1>4

LEMMA PlusGrows ==
  ASSUME NEW a \in Quotients, NEW b \in Quotients, NEW c \in Quotients, NEW d \in Quotients,
         AtMost(a, c), AtMost(b, d)
  PROVE  AtMost(Plus(a, b), Plus(c, d))
<1>1. PICK a1 \in Int, a2 \in Int : a2 > 0 /\ a = <<a1, a2>>
  BY QuotientIs
<1>2. PICK b1 \in Int, b2 \in Int : b2 > 0 /\ b = <<b1, b2>>
  BY QuotientIs
<1>3. PICK c1 \in Int, c2 \in Int : c2 > 0 /\ c = <<c1, c2>>
  BY QuotientIs
<1>4. PICK d1 \in Int, d2 \in Int : d2 > 0 /\ d = <<d1, d2>>
  BY QuotientIs
<1>5. a1 * c2 <= c1 * a2 /\ b1 * d2 <= d1 * b2
  BY <1>1, <1>2, <1>3, <1>4 DEF AtMost, Less
<1>6. (a1 * b2 + b1 * a2) * (c2 * d2) <= (c1 * d2 + d1 * c2) * (a2 * b2)
  BY <1>1, <1>2, <1>3, <1>4, <1>5, CrossProducts
<1>7. Plus(a, b) = <<a1 * b2 + b1 * a2, a2 * b2>> /\ Plus(c, d) = <<c1 * d2 + d1 * c2, c2 * d2>>
  BY <1>1, <1>2, <1>3, <1>4 DEF Plus
<1>. QED
  BY <1>1, <1>2, <1>3, <1>4, <1>6, <1>7 DEF AtMost, Less

LEMMA MinusIs ==
  ASSUME NEW a \in Quotients, NEW b \in Quotients
  PROVE  /\ Minus(a, b) \in Quotients
         /\ Minus(a, b)[1] >= 0 <=> AtMost(b, a)
         /\ Minus(a, b)[1] > 0 <=> Less(b, a)
         /\ Minus(a, b)[1] = 0 <=> AtMost(b, a) /\ AtMost(a, b)
BY DEF Minus, Quotients, AtMost, Less

\* What is taken off and added again.
LEMMA PlusMinus ==
  ASSUME NEW a \in Quotients, NEW b \in Quotients
  PROVE  AtMost(Plus(b, Minus(a, b)), a) /\ AtMost(a, Plus(b, Minus(a, b)))
<1>1. PICK a1 \in Int, a2 \in Int : a2 > 0 /\ a = <<a1, a2>>
  BY QuotientIs
<1>2. PICK b1 \in Int, b2 \in Int : b2 > 0 /\ b = <<b1, b2>>
  BY QuotientIs
<1>3. Plus(b, Minus(a, b)) = <<b1 * (a2 * b2) + (a1 * b2 - b1 * a2) * b2, b2 * (a2 * b2)>>
  BY <1>1, <1>2 DEF Plus, Minus
<1>4. (b1 * (a2 * b2) + (a1 * b2 - b1 * a2) * b2) * a2 = a1 * (b2 * (a2 * b2))
  BY <1>1, <1>2
<1>5. a1 * (b2 * (a2 * b2)) \in Int
  BY <1>1, <1>2
<1>. QED
  BY <1>1, <1>3, <1>4, <1>5 DEF AtMost, Less

LEMMA OverCount ==
  ASSUME NEW a \in Quotients, NEW n \in Int, n > 0
  PROVE  /\ Over(a, <<n, 1>>) \in Quotients
         /\ Over(a, <<n, 1>>) = <<a[1], a[2] * n>>
BY DEF Over, Quotients

LEMMA OverCountGrows ==
  ASSUME NEW a \in Quotients, NEW b \in Quotients, AtMost(a, b), NEW n \in Int, n > 0
  PROVE  AtMost(Over(a, <<n, 1>>), Over(b, <<n, 1>>))
BY DEF Over, Quotients, AtMost, Less

\* Of two amounts that differ, a share of one of them.
LEMMA ShareIs ==
  ASSUME NEW a \in Quotients, NEW b \in Quotients,
         0 <= a[1], AtMost(a, b), 0 < b[1]
  PROVE  /\ Over(a, b) \in Quotients /\ 0 <= Over(a, b)[1]
         /\ AtMost(Over(a, b), <<1, 1>>)
         /\ AtMost(b, a) => AtMost(<<1, 1>>, Over(a, b))
BY DEF Over, Quotients, AtMost, Less

LEMMA TimesIs ==
  ASSUME NEW a \in Quotients, NEW b \in Quotients,
         0 <= a[1], AtMost(a, <<1, 1>>), 0 <= b[1]
  PROVE  /\ Times(a, b) \in Quotients /\ 0 <= Times(a, b)[1]
         /\ AtMost(Times(a, b), b)
         /\ AtMost(<<1, 1>>, a) => AtMost(b, Times(a, b))
BY DEF Times, Quotients, AtMost, Less

LEMMA MinusGrows ==
  ASSUME NEW a \in Quotients, NEW b \in Quotients, NEW c \in Quotients, AtMost(a, b)
  PROVE  AtMost(Minus(a, c), Minus(b, c)) /\ (Less(a, b) => Less(Minus(a, c), Minus(b, c)))
BY DEF Minus, Quotients, AtMost, Less

\* What is added to a quotient only raises it.
LEMMA PlusRaises ==
  ASSUME NEW a \in Quotients, NEW b \in Quotients, 0 <= b[1]
  PROVE  AtMost(a, Plus(a, b))
<1>1. PICK a1 \in Int, a2 \in Int : a2 > 0 /\ a = <<a1, a2>>
  BY QuotientIs
<1>2. PICK b1 \in Int, b2 \in Int : b2 > 0 /\ b = <<b1, b2>>
  BY QuotientIs
<1>3. Plus(a, b) = <<a1 * b2 + b1 * a2, a2 * b2>>
  BY <1>1, <1>2 DEF Plus
<1>4. (a1 * b2 + b1 * a2) * a2 = a1 * (a2 * b2) + (b1 * a2) * a2
  BY <1>1, <1>2
<1>5. (b1 * a2) * a2 >= 0 /\ (b1 * a2) * a2 \in Int /\ a1 * (a2 * b2) \in Int
  <2>1. 0 <= b1
    BY <1>2
  <2>2. b1 * a2 >= 0 /\ b1 * a2 \in Int
    BY <1>1, <1>2, <2>1
  <2>. QED
    BY <1>1, <1>2, <2>2
<1>. QED
  BY <1>1, <1>3, <1>4, <1>5 DEF AtMost, Less

\* A point of a segment that rises is no lower than its one end, no higher than
\* its other end, and there at its other end.
LEMMA BetweenIs ==
  ASSUME NEW x \in Quotients, NEW low \in Quotients, NEW high \in Quotients,
         NEW from \in Quotients, NEW to \in Quotients,
         Less(low, high), AtMost(low, x), AtMost(x, high), AtMost(from, to)
  PROVE  LET b == Between(x, low, high, from, to) IN
         /\ b \in Quotients /\ AtMost(from, b) /\ AtMost(b, to)
         /\ AtMost(high, x) => AtMost(to, b)
<1>1. PICK u \in Quotients : u = Minus(x, low) /\ 0 <= u[1]
  BY MinusIs, QuotientIs
<1>2. PICK w \in Quotients : w = Minus(high, low) /\ 0 < w[1]
  BY MinusIs, QuotientIs
<1>3. AtMost(u, w) /\ (AtMost(high, x) => AtMost(w, u))
  BY <1>1, <1>2, MinusGrows
<1>4. PICK r \in Quotients : /\ r = Over(u, w) /\ 0 <= r[1] /\ AtMost(r, <<1, 1>>)
                             /\ AtMost(high, x) => AtMost(<<1, 1>>, r)
  BY <1>1, <1>2, <1>3, ShareIs
<1>5. PICK d \in Quotients : d = Minus(to, from) /\ 0 <= d[1]
  BY MinusIs, QuotientIs
<1>6. PICK t \in Quotients : /\ t = Times(r, d) /\ 0 <= t[1] /\ AtMost(t, d)
                             /\ AtMost(high, x) => AtMost(d, t)
  BY <1>4, <1>5, TimesIs
<1>7. PICK b \in Quotients : b = Plus(from, t)
  BY PlusIs
<1>8. Between(x, low, high, from, to) = b
  BY <1>1, <1>2, <1>4, <1>5, <1>6, <1>7 DEF Between
<1>9. AtMost(from, b)
  BY <1>6, <1>7, PlusRaises
<1>10. PICK e \in Quotients : e = Plus(from, d) /\ AtMost(e, to) /\ AtMost(to, e)
  BY <1>5, PlusIs, PlusMinus
<1>11. AtMost(from, from)
  BY AtMostIsOrder
<1>12. AtMost(b, e)
  BY <1>6, <1>7, <1>10, <1>11, PlusGrows
<1>13. AtMost(b, to)
  BY <1>10, <1>12, AtMostIsTransitive
<1>14. ASSUME AtMost(high, x) PROVE AtMost(to, b)
  <2>1. AtMost(e, b)
    BY <1>6, <1>7, <1>10, <1>11, <1>14, PlusGrows
  <2>. QED
    BY <2>1, <1>10, AtMostIsTransitive
<1>. QED
  BY <1>8, <1>9, <1>13, <1>14

\* A finite set of quotients that is not empty has a smallest one.
LEMMA SmallestIs ==
  ASSUME NEW S, IsFiniteSet(S), S # {}, S \subseteq Quotients
  PROVE  Smallest(S) \in S /\ \A a \in S : AtMost(Smallest(S), a)
<1>. DEFINE P == {s \in SUBSET S : s # {} => \E a \in s : \A b \in s : AtMost(a, b)}
<1>1. ASSUME NEW s \in SUBSET S, \A x \in s : s \ {x} \in P PROVE s \in P
  <2>1. CASE s = {}
    BY <2>1
  <2>2. CASE s # {}
    <3>1. PICK x \in s : TRUE
      BY <2>2
    <3>2. AtMost(x, x) /\ x \in Quotients
      BY AtMostIsOrder
    <3>3. CASE s \ {x} = {}
      BY <3>1, <3>2, <3>3
    <3>4. CASE s \ {x} # {}
      <4>1. PICK a \in s \ {x} : \A b \in s \ {x} : AtMost(a, b)
        BY <1>1, <3>4
      <4>2. CASE AtMost(a, x)
        BY <4>1, <4>2
      <4>3. CASE ~AtMost(a, x)
        <5>1. AtMost(x, a)
          BY <4>3, <3>2, AtMostIsOrder
        <5>2. \A b \in s : AtMost(x, b)
          BY <4>1, <5>1, <3>2, AtMostIsTransitive
        <5>. QED
          BY <5>2, <3>1
      <4>. QED
        BY <4>2, <4>3
    <3>. QED
      BY <3>3, <3>4
  <2>. QED
    BY <2>1, <2>2
<1>. HIDE DEF P
<1>2. S \in P
  BY <1>1, SubsetInduction
<1>3. \E a \in S : \A b \in S : AtMost(a, b)
  BY <1>2 DEF P
<1>. QED
  BY <1>3 DEF Smallest

-----------------------------------------------------------------------------
(***************************************************************************)
(* Recursion over the subsets of a finite set, for any step that goes to a *)
(* smaller subset: the sums of quotients and the greedy matching are such  *)
(* functions.                                                              *)
(***************************************************************************)

Steps(g, base, step, next, S) ==
  g = [s \in SUBSET S |-> IF s = {} THEN base ELSE step[s][g[next[s]]]]

Shrinks(next, S) == \A s \in SUBSET S : s # {} => next[s] \subseteq s /\ next[s] # s

LEMMA StepsValue ==
  ASSUME NEW g, NEW base, NEW step, NEW next, NEW S, Steps(g, base, step, next, S),
         NEW s \in SUBSET S
  PROVE  g[s] = IF s = {} THEN base ELSE step[s][g[next[s]]]
BY DEF Steps

LEMMA StepsIntro ==
  ASSUME NEW base, NEW step, NEW next, NEW S, NEW g, g = [s \in SUBSET S |-> g[s]],
         \A s \in SUBSET S : g[s] = IF s = {} THEN base ELSE step[s][g[next[s]]]
  PROVE  Steps(g, base, step, next, S)
BY DEF Steps

LEMMA StepsUnique ==
  ASSUME NEW base, NEW step, NEW next, NEW S, NEW T, IsFiniteSet(S), Shrinks(next, S),
         NEW g, NEW h, Steps(g, base, step, next, S), Steps(h, base, step, next, T)
  PROVE  \A s \in SUBSET S : s \subseteq T => g[s] = h[s]
<1>. DEFINE D == {s \in SUBSET S : s \subseteq T /\ g[s] # h[s]}
<1>. SUFFICES ASSUME D # {} PROVE FALSE
  OBVIOUS
<1>0. D \subseteq SUBSET S /\ D # {}
  OBVIOUS
<1>. HIDE DEF D
<1>1. PICK s \in D : \A t \in D : ~(t \subseteq s /\ t # s)
  BY <1>0, SmallestSubset
<1>. USE DEF D
<1>2. g[s] = (IF s = {} THEN base ELSE step[s][g[next[s]]])
  BY StepsValue
<1>3. h[s] = (IF s = {} THEN base ELSE step[s][h[next[s]]])
  BY StepsValue
<1>4. s # {}
  BY <1>2, <1>3
<1>5. g[next[s]] = h[next[s]]
  BY <1>1, <1>4 DEF Shrinks
<1>. QED
  BY <1>2, <1>3, <1>4, <1>5

LEMMA StepsExist ==
  ASSUME NEW base, NEW step, NEW next, NEW S, IsFiniteSet(S), Shrinks(next, S)
  PROVE  \E g : Steps(g, base, step, next, S)
<1>. DEFINE D == {s \in SUBSET S : ~\E g : Steps(g, base, step, next, s)}
<1>. SUFFICES ASSUME D # {} PROVE FALSE
  OBVIOUS
<1>0. D \subseteq SUBSET S /\ D # {}
  OBVIOUS
<1>. HIDE DEF D
<1>1. PICK m \in D : IsFiniteSet(m) /\ \A t \in D : ~(t \subseteq m /\ t # m)
  BY <1>0, SmallestSubset
<1>. USE DEF D
<1>. DEFINE G(s) == CHOOSE g : Steps(g, base, step, next, s)
            V(s) == IF s = m THEN IF m = {} THEN base ELSE step[m][G(next[m])[next[m]]]
                             ELSE G(s)[s]
            g    == [s \in SUBSET m |-> V(s)]
<1>2. ASSUME NEW s \in SUBSET m, s # m
      PROVE  Steps(G(s), base, step, next, s) /\ IsFiniteSet(s)
  BY <1>1, <1>2, FS_Subset
<1>2a. ASSUME NEW s \in SUBSET m PROVE Shrinks(next, s)
  BY DEF Shrinks
<1>. HIDE DEF G
<1>3. ASSUME NEW s \in SUBSET m
      PROVE  g[s] = IF s = {} THEN base ELSE step[s][g[next[s]]]
  <2>1. CASE s = {}
    <3>1. CASE s = m
      BY <2>1, <3>1
    <3>2. CASE s # m
      BY <1>2, <2>1, <3>2, StepsValue
    <3>. QED
      BY <3>1, <3>2
  <2>2. CASE s # {}
    <3>1. PICK t : t = next[s]
      OBVIOUS
    <3>2. t \subseteq s /\ t # s /\ t # m /\ t \in SUBSET m
      BY <2>2, <3>1 DEF Shrinks
    <3>3. g[t] = G(t)[t]
      BY <3>2
    <3>4. CASE s = m
      BY <2>2, <3>1, <3>3, <3>4
    <3>5. CASE s # m
      <4>1. G(s)[s] = step[s][G(s)[t]]
        BY <1>2, <2>2, <3>1, <3>5, StepsValue
      <4>2. G(s)[t] = G(t)[t]
        <5>1. Shrinks(next, t) /\ IsFiniteSet(t) /\ Steps(G(t), base, step, next, t)
          BY <1>2, <1>2a, <3>2
        <5>2. Steps(G(s), base, step, next, s)
          BY <1>2, <3>5
        <5>. QED
          BY <5>1, <5>2, <3>2, StepsUnique
      <4>. QED
        BY <2>2, <3>1, <3>3, <3>5, <4>1, <4>2
    <3>. QED
      BY <3>4, <3>5
  <2>. QED
    BY <2>1, <2>2
<1>4. Steps(g, base, step, next, m)
  <2>1. PICK h : h = g
    OBVIOUS
  <2>2. h = [s \in SUBSET m |-> h[s]]
    BY <2>1
  <2>3. \A s \in SUBSET m : h[s] = IF s = {} THEN base ELSE step[s][h[next[s]]]
    BY <1>3, <2>1
  <2>4. Steps(h, base, step, next, m)
    BY ONLY <2>2, <2>3, StepsIntro
  <2>. QED
    BY <2>1, <2>4
<1>. QED
  BY <1>1, <1>4

-----------------------------------------------------------------------------
(***************************************************************************)
(* Means.                                                                  *)
(***************************************************************************)

\* g is the sum of f over every subset of S, the first element first.
QuotientSums(g, f, S) ==
  g = [s \in SUBSET S |->
         IF s = {} THEN <<0, 1>> ELSE Plus(f[FirstOf(s)], g[s \ {FirstOf(s)}])]

LEMMA QuotientSumsValue ==
  ASSUME NEW g, NEW f, NEW S, QuotientSums(g, f, S), NEW s \in SUBSET S
  PROVE  g[s] = IF s = {} THEN <<0, 1>> ELSE Plus(f[FirstOf(s)], g[s \ {FirstOf(s)}])
BY DEF QuotientSums

LEMMA QuotientSumsType ==
  ASSUME NEW S, IsFiniteSet(S), NEW f \in [S -> Quotients], NEW g, QuotientSums(g, f, S)
  PROVE  \A s \in SUBSET S : g[s] \in Quotients
<1>. DEFINE D == {s \in SUBSET S : g[s] \notin Quotients}
<1>. SUFFICES ASSUME D # {} PROVE FALSE
  OBVIOUS
<1>0. D \subseteq SUBSET S /\ D # {}
  OBVIOUS
<1>. HIDE DEF D
<1>1. PICK s \in D : \A t \in D : ~(t \subseteq s /\ t # s)
  BY <1>0, SmallestSubset
<1>. USE DEF D
<1>2. g[s] = IF s = {} THEN <<0, 1>> ELSE Plus(f[FirstOf(s)], g[s \ {FirstOf(s)}])
  BY QuotientSumsValue, ZenonT(30)
<1>3. <<0, 1>> \in Quotients
  BY DEF Quotients
<1>4. s # {}
  BY <1>2, <1>3
<1>5. FirstOf(s) \in s
  BY <1>4 DEF FirstOf
<1>6. g[s \ {FirstOf(s)}] \in Quotients
  BY <1>1, <1>5
<1>7. f[FirstOf(s)] \in Quotients
  BY <1>5
<1>8. g[s] \in Quotients
  BY <1>2, <1>4, <1>6, <1>7, PlusIs
<1>. QED
  BY <1>8

LEMMA QuotientSumsExist ==
  ASSUME NEW S, IsFiniteSet(S), NEW f \in [S -> Quotients]
  PROVE  \E g : QuotientSums(g, f, S)
<1>1. PICK next : next = [s \in SUBSET S |-> s \ {FirstOf(s)}]
  OBVIOUS
<1>2. PICK step : step = [s \in SUBSET S |-> [y \in Quotients |-> Plus(f[FirstOf(s)], y)]]
  OBVIOUS
<1>3. \A s \in SUBSET S : s # {} => FirstOf(s) \in s
  BY DEF FirstOf
<1>4. Shrinks(next, S)
  BY <1>1, <1>3 DEF Shrinks
<1>5. PICK g : Steps(g, <<0, 1>>, step, next, S)
  BY <1>4, StepsExist
<1>6. \A s \in SUBSET S : g[s] = IF s = {} THEN <<0, 1>> ELSE step[s][g[s \ {FirstOf(s)}]]
  <2>1. ASSUME NEW s \in SUBSET S
        PROVE  g[s] = IF s = {} THEN <<0, 1>> ELSE step[s][g[s \ {FirstOf(s)}]]
    <3>1. g[s] = IF s = {} THEN <<0, 1>> ELSE step[s][g[next[s]]]
      BY <1>5, StepsValue
    <3>2. next[s] = s \ {FirstOf(s)}
      BY <1>1
    <3>. QED
      BY <3>1, <3>2
  <2>. QED
    BY <2>1
<1>. DEFINE D == {s \in SUBSET S : g[s] \notin Quotients}
<1>7. D = {}
  <2>. SUFFICES ASSUME D # {} PROVE FALSE
    OBVIOUS
  <2>0. D \subseteq SUBSET S /\ D # {}
    OBVIOUS
  <2>. HIDE DEF D
  <2>1. PICK s \in D : \A t \in D : ~(t \subseteq s /\ t # s)
    BY <2>0, SmallestSubset
  <2>. USE DEF D
  <2>3. <<0, 1>> \in Quotients
    BY DEF Quotients
  <2>4. s # {}
    BY <1>6, <2>3
  <2>6. g[s \ {FirstOf(s)}] \in Quotients
    BY <2>1, <2>4, <1>3
  <2>7. f[FirstOf(s)] \in Quotients
    BY <2>4, <1>3
  <2>8. g[s] = step[s][g[s \ {FirstOf(s)}]]
    BY <1>6, <2>4
  <2>9. step[s][g[s \ {FirstOf(s)}]] = Plus(f[FirstOf(s)], g[s \ {FirstOf(s)}])
    BY <1>2, <2>6
  <2>10. g[s] \in Quotients
    BY <2>6, <2>7, <2>8, <2>9, PlusIs
  <2>. QED
    BY <2>10
<1>8. \A s \in SUBSET S : s # {} => g[s] = Plus(f[FirstOf(s)], g[s \ {FirstOf(s)}])
  BY <1>2, <1>3, <1>6, <1>7
<1>9. g = [s \in SUBSET S |-> g[s]]
  BY <1>5 DEF Steps
<1>10. QuotientSums(g, f, S)
  BY <1>6, <1>8, <1>9 DEF QuotientSums
<1>. QED
  BY <1>10

LEMMA MeanIs ==
  ASSUME NEW S, IsFiniteSet(S), S # {}, NEW f \in [S -> Quotients]
  PROVE  \E g : /\ QuotientSums(g, f, S) /\ \A s \in SUBSET S : g[s] \in Quotients
                /\ Mean(f) = Over(g[S], <<Cardinality(S), 1>>)
                /\ Cardinality(S) \in Nat \ {0} /\ Mean(f) \in Quotients
<1>1. PICK g : g = CHOOSE k : QuotientSums(k, f, S)
  OBVIOUS
<1>2. QuotientSums(g, f, S)
  BY <1>1, QuotientSumsExist
<1>3. DOMAIN f = S
  OBVIOUS
<1>4. Mean(f) = Over((CHOOSE k : QuotientSums(k, f, S))[S], <<Cardinality(S), 1>>)
  BY <1>3 DEF Mean, FoldSet, MapThenFoldSet, QuotientSums, FirstOf
<1>5. Mean(f) = Over(g[S], <<Cardinality(S), 1>>)
  BY <1>1, <1>4
<1>6. \A s \in SUBSET S : g[s] \in Quotients
  BY <1>2, QuotientSumsType
<1>7. Cardinality(S) \in Nat \ {0}
  BY FS_CardinalityType, FS_EmptySet
<1>8. Mean(f) \in Quotients
  BY <1>5, <1>6, <1>7, OverCount
<1>. QED
  BY <1>2, <1>5, <1>6, <1>7, <1>8

LEMMA MeanGrows ==
  ASSUME NEW S, IsFiniteSet(S), S # {}, NEW f \in [S -> Quotients], NEW h \in [S -> Quotients],
         \A x \in S : AtMost(f[x], h[x])
  PROVE  AtMost(Mean(f), Mean(h))
<1>1. PICK g : /\ QuotientSums(g, f, S) /\ \A s \in SUBSET S : g[s] \in Quotients
               /\ Mean(f) = Over(g[S], <<Cardinality(S), 1>>)
               /\ Cardinality(S) \in Nat \ {0}
  BY MeanIs
<1>2. PICK k : /\ QuotientSums(k, h, S) /\ \A s \in SUBSET S : k[s] \in Quotients
               /\ Mean(h) = Over(k[S], <<Cardinality(S), 1>>)
  BY MeanIs
<1>. DEFINE P == {s \in SUBSET S : AtMost(g[s], k[s])}
<1>3. ASSUME NEW s \in SUBSET S, \A x \in s : s \ {x} \in P PROVE s \in P
  <2>1. /\ g[s] = IF s = {} THEN <<0, 1>> ELSE Plus(f[FirstOf(s)], g[s \ {FirstOf(s)}])
        /\ k[s] = IF s = {} THEN <<0, 1>> ELSE Plus(h[FirstOf(s)], k[s \ {FirstOf(s)}])
    BY <1>1, <1>2, QuotientSumsValue
  <2>2. CASE s = {}
    BY <1>1, <2>1, <2>2, AtMostIsOrder
  <2>3. CASE s # {}
    <3>1. PICK x \in s : x = FirstOf(s)
      BY <2>3 DEF FirstOf
    <3>2. AtMost(g[s \ {x}], k[s \ {x}])
      BY <1>3
    <3>3. g[s \ {x}] \in Quotients /\ k[s \ {x}] \in Quotients
      BY <1>1, <1>2
    <3>4. AtMost(Plus(f[x], g[s \ {x}]), Plus(h[x], k[s \ {x}]))
      BY <3>2, <3>3, PlusGrows
    <3>. QED
      BY <2>1, <2>3, <3>1, <3>4
  <2>. QED
    BY <2>2, <2>3
<1>. HIDE DEF P
<1>4. S \in P
  BY <1>3, SubsetInduction
<1>5. AtMost(g[S], k[S])
  BY <1>4 DEF P
<1>. QED
  BY <1>1, <1>2, <1>5, OverCountGrows

\* The mean of one quotient, taken any number of times, is that quotient.
LEMMA OneMore ==
  ASSUME NEW c \in Quotients, NEW n \in Nat, NEW b \in Quotients,
         AtMost(b, <<n * c[1], c[2]>>), AtMost(<<n * c[1], c[2]>>, b)
  PROVE  LET t == <<(n + 1) * c[1], c[2]>> IN AtMost(Plus(c, b), t) /\ AtMost(t, Plus(c, b))
<1>1. PICK p \in Int, q \in Int : q > 0 /\ c = <<p, q>>
  BY QuotientIs
<1>2. PICK u \in Int, v \in Int : v > 0 /\ b = <<u, v>>
  BY QuotientIs
<1>3. u * q = (n * p) * v
  BY <1>1, <1>2 DEF AtMost, Less
<1>4. (p * v + u * q) * q = ((n + 1) * p) * (q * v)
  <2>1. p * v + u * q = ((n + 1) * p) * v
    BY <1>1, <1>2, <1>3
  <2>2. (((n + 1) * p) * v) * q = ((n + 1) * p) * (q * v)
    BY <1>1, <1>2
  <2>. QED
    BY <2>1, <2>2
<1>5. Plus(c, b) = <<p * v + u * q, q * v>>
  BY <1>1, <1>2 DEF Plus
<1>6. ((n + 1) * p) * (q * v) \in Int
  BY <1>1, <1>2
<1>. QED
  BY <1>1, <1>4, <1>5, <1>6 DEF AtMost, Less

LEMMA MeanOfOne ==
  ASSUME NEW S, IsFiniteSet(S), S # {}, NEW c \in Quotients, NEW f, f = [x \in S |-> c]
  PROVE  AtMost(Mean(f), c) /\ AtMost(c, Mean(f))
<1>1. PICK g : /\ QuotientSums(g, f, S) /\ \A s \in SUBSET S : g[s] \in Quotients
               /\ Mean(f) = Over(g[S], <<Cardinality(S), 1>>)
               /\ Cardinality(S) \in Nat \ {0}
  BY MeanIs
<1>. DEFINE t(n) == <<n * c[1], c[2]>>
            P == {s \in SUBSET S : /\ AtMost(g[s], t(Cardinality(s)))
                                   /\ AtMost(t(Cardinality(s)), g[s])}
<1>2. ASSUME NEW s \in SUBSET S, \A x \in s : s \ {x} \in P PROVE s \in P
  <2>1. g[s] = IF s = {} THEN <<0, 1>> ELSE Plus(f[FirstOf(s)], g[s \ {FirstOf(s)}])
    BY <1>1, QuotientSumsValue
  <2>2. CASE s = {}
    <3>1. Cardinality(s) = 0
      BY <2>2, FS_EmptySet
    <3>. QED
      BY <2>1, <2>2, <3>1 DEF Quotients, AtMost, Less
  <2>3. CASE s # {}
    <3>1. PICK x \in s : x = FirstOf(s)
      BY <2>3 DEF FirstOf
    <3>2. PICK n : n = Cardinality(s \ {x})
      OBVIOUS
    <3>3. n \in Nat /\ Cardinality(s) = n + 1
      <4>1. IsFiniteSet(s)
        BY FS_Subset
      <4>2. IsFiniteSet(s \ {x}) /\ Cardinality(s \ {x}) = Cardinality(s) - 1
        BY <4>1, FS_RemoveElement
      <4>. QED
        BY <3>2, <4>1, <4>2, FS_CardinalityType
    <3>4. AtMost(g[s \ {x}], t(n)) /\ AtMost(t(n), g[s \ {x}])
      BY <1>2, <3>2
    <3>5. g[s \ {x}] \in Quotients
      BY <1>1
    <3>6. PICK b \in Quotients : b = g[s \ {x}]
      BY <3>5
    <3>7. AtMost(Plus(c, b), t(n + 1)) /\ AtMost(t(n + 1), Plus(c, b))
      BY <3>3, <3>4, <3>6, OneMore
    <3>8. g[s] = Plus(c, b)
      BY <2>1, <2>3, <3>1, <3>6
    <3>. QED
      BY <3>3, <3>7, <3>8
  <2>. QED
    BY <2>2, <2>3
<1>. HIDE DEF P
<1>3. S \in P
  BY <1>2, SubsetInduction
<1>4. PICK n \in Nat : n = Cardinality(S) /\ n > 0
  BY <1>1
<1>5. AtMost(g[S], t(n)) /\ AtMost(t(n), g[S])
  BY <1>3, <1>4 DEF P
<1>6. PICK p \in Int, q \in Int : q > 0 /\ c = <<p, q>>
  BY QuotientIs
<1>7. g[S] \in Quotients
  BY <1>1
<1>8. PICK u \in Int, v \in Int : v > 0 /\ g[S] = <<u, v>>
  BY <1>7, QuotientIs
<1>9. u * q = (n * p) * v
  BY <1>5, <1>6, <1>8 DEF AtMost, Less
<1>10. Mean(f) = <<u, v * n>>
  BY <1>1, <1>4, <1>7, <1>8, OverCount
<1>11. (n * p) * v = p * (v * n) /\ p * (v * n) \in Int
  BY <1>4, <1>6, <1>8
<1>. QED
  BY <1>6, <1>9, <1>10, <1>11 DEF AtMost, Less

\* A mean lies between the bounds of what it is the mean of.
LEMMA MeanIsWithin ==
  ASSUME NEW S, IsFiniteSet(S), S # {}, NEW f \in [S -> Quotients], NEW c \in Quotients
  PROVE  /\ (\A x \in S : AtMost(f[x], c)) => AtMost(Mean(f), c)
         /\ (\A x \in S : AtMost(c, f[x])) => AtMost(c, Mean(f))
<1>1. PICK h : h = [x \in S |-> c]
  OBVIOUS
<1>2. h \in [S -> Quotients]
  BY <1>1
<1>3. AtMost(Mean(h), c) /\ AtMost(c, Mean(h))
  BY <1>1, MeanOfOne
<1>4. Mean(f) \in Quotients /\ Mean(h) \in Quotients
  BY <1>2, MeanIs
<1>5. ASSUME \A x \in S : AtMost(f[x], c) PROVE AtMost(Mean(f), c)
  <2>1. AtMost(Mean(f), Mean(h))
    BY <1>1, <1>2, <1>5, MeanGrows
  <2>. QED
    BY <1>3, <1>4, <2>1, AtMostIsTransitive
<1>6. ASSUME \A x \in S : AtMost(c, f[x]) PROVE AtMost(c, Mean(f))
  <2>1. AtMost(Mean(h), Mean(f))
    BY <1>1, <1>2, <1>6, MeanGrows
  <2>. QED
    BY <1>3, <1>4, <2>1, AtMostIsTransitive
<1>. QED
  BY <1>5, <1>6

-----------------------------------------------------------------------------
(***************************************************************************)
(* Orders.  A strict total order R of a set S is given as a set of pairs;  *)
(* a finite set has a first element, and is a sequence in that order.      *)
(***************************************************************************)

StrictlyOrders(R, S) ==
  /\ \A x \in S : <<x, x>> \notin R
  /\ \A x, y \in S : x # y => <<x, y>> \in R \/ <<y, x>> \in R
  /\ \A x, y, z \in S : <<x, y>> \in R /\ <<y, z>> \in R => <<x, z>> \in R

LEMMA OrderRanks ==
  ASSUME NEW S, IsFiniteSet(S), NEW R, StrictlyOrders(R, S)
  PROVE  \E below :
         /\ \A x \in S : below[x] \subseteq S
         /\ \A x, y \in S : y \in below[x] <=> <<y, x>> \in R
         /\ \A x, y \in S : x \in below[y] <=> Cardinality(below[x]) < Cardinality(below[y])
         /\ \A n \in 0 .. Cardinality(S) - 1 : \E x \in S : Cardinality(below[x]) = n
<1>0. PICK below : below = [x \in S |-> {y \in S : <<y, x>> \in R}]
  OBVIOUS
<1>1. \A x \in S : below[x] \subseteq S /\ x \notin below[x]
  BY <1>0 DEF StrictlyOrders
<1>2. \A x, y \in S : x # y => x \in below[y] \/ y \in below[x]
  BY <1>0 DEF StrictlyOrders
<1>3. \A x, y \in S : x \in below[y] => below[x] \subseteq below[y]
  BY <1>0 DEF StrictlyOrders
<1>4. /\ \A x, y \in S : x \in below[y] <=> Cardinality(below[x]) < Cardinality(below[y])
      /\ \A n \in 0 .. Cardinality(S) - 1 : \E x \in S : Cardinality(below[x]) = n
  BY ONLY <1>1, <1>2, <1>3, IsFiniteSet(S), Ranks
<1>5. /\ \A x \in S : below[x] \subseteq S
      /\ \A x, y \in S : y \in below[x] <=> <<y, x>> \in R
  BY <1>0
<1>. QED
  BY ONLY <1>4, <1>5

LEMMA FirstExists ==
  ASSUME NEW S, IsFiniteSet(S), S # {}, NEW R, StrictlyOrders(R, S)
  PROVE  \E m \in S : \A n \in S \ {m} : <<m, n>> \in R
<1>1. PICK below :
        /\ \A x \in S : below[x] \subseteq S
        /\ \A x, y \in S : y \in below[x] <=> <<y, x>> \in R
        /\ \A n \in 0 .. Cardinality(S) - 1 : \E x \in S : Cardinality(below[x]) = n
  BY OrderRanks
<1>2. Cardinality(S) \in Nat /\ Cardinality(S) # 0
  BY FS_CardinalityType, FS_EmptySet
<1>3. PICK m \in S : Cardinality(below[m]) = 0
  BY <1>1, <1>2
<1>4. below[m] \subseteq S
  BY <1>1
<1>5. below[m] = {}
  BY <1>3, <1>4, FS_Subset, FS_EmptySet
<1>. QED
  BY <1>1, <1>5 DEF StrictlyOrders

LEMMA SortedExists ==
  ASSUME NEW S, IsFiniteSet(S), NEW R, StrictlyOrders(R, S)
  PROVE  \E o \in [1 .. Cardinality(S) -> S] :
           \A i, j \in 1 .. Cardinality(S) : i < j => <<o[i], o[j]>> \in R
<1>1. PICK below :
        /\ \A x \in S : below[x] \subseteq S
        /\ \A x, y \in S : y \in below[x] <=> <<y, x>> \in R
        /\ \A x, y \in S : x \in below[y] <=> Cardinality(below[x]) < Cardinality(below[y])
        /\ \A n \in 0 .. Cardinality(S) - 1 : \E x \in S : Cardinality(below[x]) = n
  BY OrderRanks
<1>2. PICK k \in Nat : k = Cardinality(S)
  BY FS_CardinalityType
<1>3. /\ \A x, y \in S : x \in below[y] <=> Cardinality(below[x]) < Cardinality(below[y])
      /\ \A n \in 0 .. k - 1 : \E x \in S : Cardinality(below[x]) = n
  BY <1>1, <1>2
<1>4. PICK o : o = [i \in 1 .. k |-> CHOOSE x \in S : Cardinality(below[x]) = i - 1]
  OBVIOUS
<1>5. \A i \in 1 .. k : o[i] \in S /\ Cardinality(below[o[i]]) = i - 1
  <2>1. ASSUME NEW i \in 1 .. k PROVE o[i] \in S /\ Cardinality(below[o[i]]) = i - 1
    <3>1. i - 1 \in 0 .. k - 1
      OBVIOUS
    <3>2. \E x \in S : Cardinality(below[x]) = i - 1
      BY <1>3, <3>1
    <3>3. o[i] = CHOOSE x \in S : Cardinality(below[x]) = i - 1
      BY <1>4
    <3>. QED
      BY <3>2, <3>3
  <2>. QED
    BY <2>1
<1>6. o \in [1 .. k -> S]
  BY <1>4, <1>5
<1>7. ASSUME NEW i \in 1 .. k, NEW j \in 1 .. k, i < j PROVE <<o[i], o[j]>> \in R
  <2>1. o[i] \in below[o[j]]
    BY <1>3, <1>5, <1>7
  <2>. QED
    BY <1>1, <1>5, <2>1
<1>. QED
  BY <1>2, <1>6, <1>7

LEMMA SortedIs ==
  ASSUME NEW S, IsFiniteSet(S), NEW R, StrictlyOrders(R, S),
         NEW k \in Nat, k = Cardinality(S), NEW o \in [1 .. k -> S],
         \A i, j \in 1 .. k : i < j => <<o[i], o[j]>> \in R
  PROVE  \A x \in S : \E i \in 1 .. k : o[i] = x
<1>1. ASSUME NEW i \in 1 .. k, NEW j \in 1 .. k, i # j PROVE o[i] # o[j]
  <2>1. i < j \/ j < i
    BY <1>1
  <2>2. <<o[i], o[j]>> \in R \/ <<o[j], o[i]>> \in R
    BY <2>1
  <2>3. o[i] \in S /\ \A x \in S : <<x, x>> \notin R
    BY DEF StrictlyOrders
  <2>. QED
    BY <2>2, <2>3
<1>2. o \in Injection(1 .. k, S)
  BY <1>1 DEF Injection, IsInjective
<1>3. IsFiniteSet(1 .. k) /\ Cardinality(1 .. k) = k
  <2>1. IsFiniteSet(1 .. k) /\ Cardinality(1 .. k) = IF 1 > k THEN 0 ELSE k - 1 + 1
    BY ONLY k \in Nat, FS_Interval
  <2>. QED
    BY <2>1
<1>4. o \in Surjection(1 .. k, S)
  BY <1>2, <1>3, FS_Injection
<1>. QED
  BY <1>4 DEF Surjection

\* One weak order first, then another, then an injective rank.
Weakly(A, S) ==
  /\ \A x, y \in S : <<x, y>> \in A => <<y, x>> \notin A
  /\ \A x, y, z \in S : <<x, z>> \in A => <<x, y>> \in A \/ <<y, z>> \in A

LEMMA Lexicographic ==
  ASSUME NEW S, NEW A, NEW C, Weakly(A, S), Weakly(C, S), NEW rank,
         \A x \in S : rank[x] \in Int, \A x, y \in S : rank[x] = rank[y] => x = y,
         NEW R,
         \A x, y \in S : <<x, y>> \in R <=>
           \/ <<x, y>> \in A
           \/ <<y, x>> \notin A /\ <<x, y>> \in C
           \/ <<y, x>> \notin A /\ <<y, x>> \notin C /\ rank[x] < rank[y]
  PROVE  StrictlyOrders(R, S)
<1>1. ASSUME NEW x \in S PROVE <<x, x>> \notin R
  BY DEF Weakly
<1>2. ASSUME NEW x \in S, NEW y \in S, x # y PROVE <<x, y>> \in R \/ <<y, x>> \in R
  <2>1. rank[x] < rank[y] \/ rank[y] < rank[x]
    BY <1>2
  <2>. QED
    BY <2>1 DEF Weakly
<1>3. ASSUME NEW x \in S, NEW y \in S, NEW z \in S, <<x, y>> \in R, <<y, z>> \in R
      PROVE  <<x, z>> \in R
  <2>1. rank[x] < rank[y] /\ rank[y] < rank[z] => rank[x] < rank[z]
    OBVIOUS
  <2>. QED
    BY <1>3, <2>1 DEF Weakly
<1>. QED
  BY <1>1, <1>2, <1>3 DEF StrictlyOrders

-----------------------------------------------------------------------------
(***************************************************************************)
(* Inspect report: the invariant.                                          *)
(***************************************************************************)

Outcomes == {"missing", "right", "wrong", "failed", "cut"}

Items(m) == IF m \in DOMAIN Strays THEN Samples \cup {0} ELSE Samples

\* Every sample of every model has one outcome, the export has items of the samples
\* and of strays only, and it settles what it has.
ReportShape ==
  /\ outcome \in [Models -> [Samples -> Outcomes]]
  /\ DOMAIN charged = Models /\ DOMAIN settled = Models
  /\ \A m \in Models : charged[m] \subseteq Items(m) /\ settled[m] \subseteq charged[m]

LEMMA ReportStart == ASSUME ReportInit PROVE ReportShape
BY DEF ReportInit, ReportShape, Outcomes

LEMMA FinishStep ==
  ASSUME ReportAssumption, ReportShape, NEW m \in Models, NEW s \in Samples,
         NEW end \in {"right", "wrong", "failed", "cut"}, Finish(m, s, end)
  PROVE  ReportShape'
<1>1. outcome' \in [Models -> [Samples -> Outcomes]]
  BY DEF Finish, ReportShape, Outcomes
<1>2. /\ DOMAIN charged' = Models /\ DOMAIN settled' = Models
      /\ charged'[m] = charged[m] \cup {s} /\ settled' = settled
      /\ \A n \in Models : n # m => charged'[n] = charged[n]
  BY DEF Finish, ReportShape
<1>3. \A n \in Models : charged'[n] \subseteq Items(n) /\ settled'[n] \subseteq charged'[n]
  BY <1>2 DEF ReportShape, Items
<1>. QED
  BY <1>1, <1>2, <1>3 DEF ReportShape, Items

LEMMA StrayStep ==
  ASSUME ReportShape, NEW m \in Models, Stray(m) PROVE ReportShape'
<1>1. /\ DOMAIN charged' = Models /\ DOMAIN settled' = Models /\ outcome' = outcome
      /\ charged'[m] = charged[m] \cup {0} /\ settled' = settled
      /\ \A n \in Models : n # m => charged'[n] = charged[n]
      /\ m \in DOMAIN Strays
  BY DEF Stray, ReportShape
<1>. QED
  BY <1>1 DEF ReportShape, Items

LEMMA SettleStep ==
  ASSUME ReportShape, NEW m \in Models, SettleCharges(m) PROVE ReportShape'
<1>1. /\ DOMAIN charged' = Models /\ DOMAIN settled' = Models /\ outcome' = outcome
      /\ charged' = charged /\ settled'[m] \subseteq charged[m]
      /\ \A n \in Models : n # m => settled'[n] = settled[n]
  BY DEF SettleCharges, ReportShape
<1>. QED
  BY <1>1 DEF ReportShape, Items

LEMMA ReportStep ==
  ASSUME ReportAssumption, ReportShape, [ReportNext]_reportVars PROVE ReportShape'
<1>1. CASE UNCHANGED reportVars
  BY <1>1 DEF reportVars, ReportShape, Items
<1>2. ASSUME NEW m \in Models, CompleteLog(m) PROVE ReportShape'
  BY <1>2 DEF CompleteLog, ReportShape, Items
<1>. QED
  BY <1>1, <1>2, FinishStep, StrayStep, SettleStep DEF ReportNext

-----------------------------------------------------------------------------
(***************************************************************************)
(* Inspect report: the samples add up.                                     *)
(***************************************************************************)

\* What the rows are made of.
LEMMA RowSets ==
  ASSUME ReportAssumption, ReportShape, NEW m \in Models
  PROVE  /\ Recorded(m) \subseteq Samples /\ Scored(m) \subseteq Recorded(m)
         /\ Right(m) \subseteq Scored(m) /\ Erred(m) \subseteq Recorded(m)
         /\ Scored(m) \cup Erred(m) = Recorded(m) /\ Scored(m) \cap Erred(m) = {}
         /\ \A s \in Erred(m) : outcome[m][s] \in {"failed", "cut"}
         /\ IsFiniteSet(Samples) /\ IsFiniteSet(Recorded(m)) /\ IsFiniteSet(Scored(m))
         /\ IsFiniteSet(Right(m)) /\ IsFiniteSet(Erred(m))
         /\ Cardinality(Samples) \in Nat /\ Cardinality(Recorded(m)) \in Nat
         /\ Cardinality(Scored(m)) \in Nat /\ Cardinality(Right(m)) \in Nat
         /\ Cardinality(Erred(m)) \in Nat
         /\ Cardinality(Recorded(m)) <= Cardinality(Samples)
         /\ Cardinality(Right(m)) <= Cardinality(Scored(m))
         /\ Cardinality(Recorded(m)) = Cardinality(Scored(m)) + Cardinality(Erred(m))
<1>1. /\ Recorded(m) \subseteq Samples /\ Scored(m) \subseteq Recorded(m)
      /\ Right(m) \subseteq Scored(m) /\ Erred(m) \subseteq Recorded(m)
      /\ Scored(m) \cup Erred(m) = Recorded(m) /\ Scored(m) \cap Erred(m) = {}
  BY DEF Recorded, Scored, Right, Erred
<1>2. \A s \in Erred(m) : outcome[m][s] \in {"failed", "cut"}
  <2>1. ASSUME NEW s \in Erred(m) PROVE outcome[m][s] \in {"failed", "cut"}
    <3>1. /\ s \in Samples /\ outcome[m][s] # "missing" /\ s \notin Scored(m)
          /\ outcome[m][s] \notin {"right", "wrong"}
      BY <2>1 DEF Erred, Recorded, Scored
    <3>2. outcome[m][s] \in Outcomes
      BY <3>1 DEF ReportShape
    <3>. QED
      BY <3>1, <3>2 DEF Outcomes
  <2>. QED
    BY <2>1
<1>3. IsFiniteSet(Samples)
  BY DEF ReportAssumption
<1>4. /\ IsFiniteSet(Recorded(m)) /\ Cardinality(Recorded(m)) <= Cardinality(Samples)
      /\ Cardinality(Recorded(m)) \in Nat /\ Cardinality(Samples) \in Nat
  BY <1>1, <1>3, FS_Subset, FS_CardinalityType
<1>5. /\ IsFiniteSet(Scored(m)) /\ IsFiniteSet(Erred(m))
      /\ Cardinality(Scored(m)) \in Nat /\ Cardinality(Erred(m)) \in Nat
  BY <1>1, <1>4, FS_Subset, FS_CardinalityType
<1>6. /\ IsFiniteSet(Right(m)) /\ Cardinality(Right(m)) \in Nat
      /\ Cardinality(Right(m)) <= Cardinality(Scored(m))
  BY <1>1, <1>5, FS_Subset, FS_CardinalityType
<1>7. Cardinality(Scored(m) \cup Erred(m)) =
        Cardinality(Scored(m)) + Cardinality(Erred(m)) - Cardinality(Scored(m) \cap Erred(m))
  BY <1>5, FS_Union
<1>8. Cardinality(Scored(m) \cap Erred(m)) = 0
  BY <1>1, FS_EmptySet
<1>9. Cardinality(Recorded(m)) = Cardinality(Scored(m)) + Cardinality(Erred(m))
  <2>1. PICK a \in Nat, b \in Nat : a = Cardinality(Scored(m)) /\ b = Cardinality(Erred(m))
    BY <1>5
  <2>2. Cardinality(Scored(m) \cup Erred(m)) = a + b - 0
    BY <1>7, <1>8, <2>1
  <2>3. a + b - 0 = a + b
    OBVIOUS
  <2>. QED
    BY <1>1, <2>1, <2>2, <2>3
<1>. QED
  BY <1>1, <1>2, <1>3, <1>4, <1>5, <1>6, <1>9

LEMMA MaxOfTwo ==
  ASSUME NEW a \in Int, NEW b \in Int
  PROVE  Max({a, b}) = IF a >= b THEN a ELSE b
<1>. DEFINE c == IF a >= b THEN a ELSE b
<1>1. c \in {a, b} /\ \A y \in {a, b} : c >= y
  OBVIOUS
<1>2. \A x \in {a, b} : (\A y \in {a, b} : x >= y) => x = c
  OBVIOUS
<1>. QED
  BY <1>1, <1>2 DEF Max

LEMMA MinOfTwo ==
  ASSUME NEW a \in Int, NEW b \in Int
  PROVE  Min({a, b}) = IF a <= b THEN a ELSE b
<1>. DEFINE c == IF a <= b THEN a ELSE b
<1>1. c \in {a, b} /\ \A y \in {a, b} : c <= y
  OBVIOUS
<1>2. \A x \in {a, b} : (\A y \in {a, b} : x <= y) => x = c
  OBVIOUS
<1>. QED
  BY <1>1, <1>2 DEF Min

LEMMA PlannedIs ==
  ASSUME ReportAssumption, ReportShape, NEW m \in Models
  PROVE  /\ Planned(m) = Cardinality(Samples)
         /\ Missing(m) = Cardinality(Samples) - Cardinality(Scored(m)) - Cardinality(Erred(m))
         /\ Missing(m) \in Nat /\ Planned(m) \in Nat
<1>1. /\ Cardinality(Samples) \in Nat /\ Cardinality(Scored(m)) \in Nat
      /\ Cardinality(Erred(m)) \in Nat
      /\ Cardinality(Scored(m)) + Cardinality(Erred(m)) <= Cardinality(Samples)
      /\ Recorded(m) \subseteq Samples
  <2>1. Cardinality(Recorded(m)) = Cardinality(Scored(m)) + Cardinality(Erred(m))
    BY RowSets
  <2>2. Cardinality(Recorded(m)) <= Cardinality(Samples)
    BY RowSets
  <2>3. /\ Cardinality(Samples) \in Nat /\ Cardinality(Scored(m)) \in Nat
        /\ Cardinality(Erred(m)) \in Nat /\ Recorded(m) \subseteq Samples
    BY RowSets
  <2>. QED
    BY ONLY <2>1, <2>2, <2>3
<1>2. Planned(m) = Cardinality(Samples)
  BY <1>1 DEF Planned
<1>3. PICK d \in Nat :
        d = Cardinality(Samples) - Cardinality(Scored(m)) - Cardinality(Erred(m))
  BY <1>1
<1>4. Max({d, 0}) = d
  BY MaxOfTwo
<1>. QED
  BY <1>1, <1>2, <1>3, <1>4 DEF Missing

\* The classes of a set, and one count more under a name of its own.
LEMMA ClassesAndOneMore ==
  ASSUME NEW R, IsFiniteSet(R), NEW E, IsFiniteSet(E),
         NEW F, \A k \in E : F[k] \subseteq R, \A s \in R : \E k \in E : s \in F[k],
         \A j, k \in E : j # k => F[j] \cap F[k] = {},
         NEW x, x \notin E, NEW n \in Nat, NEW D, D = IF n > 0 THEN E \cup {x} ELSE E,
         NEW g, n > 0 => g[x] = n, \A k \in E : g[k] = Cardinality(F[k])
  PROVE  SumFunctionOnSet(g, D) = Cardinality(R) + n
<1>1. \A k \in E : IsFiniteSet(F[k]) /\ Cardinality(F[k]) \in Nat
  BY FS_Subset, FS_CardinalityType
<1>2. R = UNION {F[k] : k \in E}
  <2>1. ASSUME NEW s \in R PROVE s \in UNION {F[k] : k \in E}
    OBVIOUS
  <2>2. ASSUME NEW s \in UNION {F[k] : k \in E} PROVE s \in R
    OBVIOUS
  <2>. QED
    BY <2>1, <2>2
<1>3. SumFunctionOnSet(g, E) = Cardinality(R)
  <2>1. /\ IsFiniteSet(R) /\ IsFiniteSet(E)
        /\ \A k \in E : F[k] \subseteq R
        /\ \A j, k \in E : j # k => F[j] \cap F[k] = {}
        /\ R = UNION {F[k] : k \in E}
        /\ \A k \in E : g[k] = Cardinality(F[k])
    BY <1>2
  <2>. QED
    BY ONLY <2>1, CardinalityByClass
<1>4. Cardinality(R) \in Nat
  BY FS_CardinalityType
<1>5. CASE n = 0
  <2>1. D = E
    BY <1>5
  <2>. QED
    BY <1>3, <1>4, <1>5, <2>1
<1>6. CASE n > 0
  <2>1. D = E \cup {x} /\ g[x] = n
    BY <1>6
  <2>2. \A y \in E \cup {x} : g[y] \in Nat
    BY <1>1, <2>1
  <2>3. SumFunctionOnSet(g, E \cup {x}) = g[x] + SumFunctionOnSet(g, E)
    BY <2>2, SumAdd
  <2>4. SumFunctionOnSet(g, D) = n + Cardinality(R)
    BY <1>3, <2>1, <2>3, Zenon
  <2>. QED
    BY ONLY <1>4, <2>4, n \in Nat
<1>. QED
  BY <1>5, <1>6

LEMMA KindsAddUp ==
  ASSUME ReportAssumption, ReportShape, NEW m \in Models
  PROVE  SumFunctionOnSet(ErrorKinds(m), DOMAIN ErrorKinds(m)) =
           Cardinality(Erred(m)) + Missing(m)
<1>1. PICK R, n, g : R = Erred(m) /\ n = Missing(m) /\ g = ErrorKinds(m)
  OBVIOUS
<1>2. PICK kind : kind = [s \in R |-> ErrorKind(outcome[m][s])]
  OBVIOUS
<1>3. PICK E : E = {ErrorKind(outcome[m][s]) : s \in R}
  OBVIOUS
<1>4. PICK F : F = [k \in E |-> {s \in R : ErrorKind(outcome[m][s]) = k}]
  OBVIOUS
<1>5. PICK D : D = IF n > 0 THEN E \cup {"missing"} ELSE E
  OBVIOUS
<1>6. IsFiniteSet(R) /\ n \in Nat
  BY <1>1, RowSets, PlannedIs
<1>7. IsFiniteSet(E)
  <2>1. PICK T : T = {kind[s] : s \in R}
    OBVIOUS
  <2>2. IsFiniteSet(T)
    BY <1>6, <2>1, ImageCardinality
  <2>3. T = E
    BY <1>2, <1>3, <2>1
  <2>. QED
    BY <2>2, <2>3
<1>8. "missing" \notin E
  <2>1. \A s \in R : outcome[m][s] \in {"failed", "cut"}
    BY <1>1, RowSets
  <2>2. \A s \in R : ErrorKind(outcome[m][s]) # "missing"
    BY <2>1 DEF ErrorKind
  <2>. QED
    BY <1>3, <2>2
<1>9. /\ \A k \in E : F[k] \subseteq R
      /\ \A s \in R : \E k \in E : s \in F[k]
      /\ \A j, k \in E : j # k => F[j] \cap F[k] = {}
  <2>1. \A k \in E : F[k] \subseteq R
    BY <1>4
  <2>2. ASSUME NEW s \in R PROVE \E k \in E : s \in F[k]
    <3>1. PICK k \in E : k = ErrorKind(outcome[m][s])
      BY <1>3
    <3>. QED
      BY <1>4, <3>1
  <2>3. \A j, k \in E : j # k => F[j] \cap F[k] = {}
    BY <1>4
  <2>. QED
    BY <2>1, <2>2, <2>3
<1>10. D = {ErrorKind(outcome[m][s]) : s \in Erred(m)}
             \cup (IF Missing(m) > 0 THEN {"missing"} ELSE {})
  BY <1>1, <1>3, <1>5
<1>11. g = [k \in D |-> IF k = "missing" THEN Missing(m)
                        ELSE Cardinality({s \in Erred(m) : ErrorKind(outcome[m][s]) = k})]
  BY <1>1, <1>10 DEF ErrorKinds
<1>12. DOMAIN g = D
  BY <1>11
<1>13. n > 0 => g["missing"] = n
  BY <1>1, <1>5, <1>11
<1>14. \A k \in E : g[k] = Cardinality(F[k])
  <2>1. ASSUME NEW k \in E PROVE g[k] = Cardinality(F[k])
    <3>1. k \in D /\ k # "missing"
      BY <1>5, <1>8
    <3>2. g[k] = Cardinality({s \in Erred(m) : ErrorKind(outcome[m][s]) = k})
      BY <1>11, <3>1
    <3>3. F[k] = {s \in Erred(m) : ErrorKind(outcome[m][s]) = k}
      BY <1>1, <1>4
    <3>. QED
      BY <3>2, <3>3
  <2>. QED
    BY <2>1
<1>15. SumFunctionOnSet(g, D) = Cardinality(R) + n
  BY ONLY <1>5, <1>6, <1>7, <1>8, <1>9, <1>13, <1>14, ClassesAndOneMore
<1>. QED
  BY <1>1, <1>12, <1>15

\* The nearest rank of a percentile in a series of k values.
RankIn(k, num, den) == Min({Max({1, (num * k + den - 1) \div den}), k})

\* The places of a series in the order of its values.
OrderOf(f) ==
  LET n == Cardinality(DOMAIN f)
  IN CHOOSE o \in [1 .. n -> DOMAIN f] : \A i, j \in 1 .. n :
       i < j => \/ f[o[i]] < f[o[j]]
                \/ f[o[i]] = f[o[j]] /\ o[i] < o[j]

\* In that order the values rise.
LEMMA OrderRises ==
  ASSUME NEW S, IsFiniteSet(S), S # {}, S \subseteq Nat, NEW f, DOMAIN f = S,
         \A s \in S : f[s] \in Nat, NEW k \in Nat, k = Cardinality(S),
         NEW o, o = OrderOf(f)
  PROVE  /\ \A i \in 1 .. k : o[i] \in S
         /\ \A i, j \in 1 .. k : i < j => f[o[i]] <= f[o[j]]
<1>0. k \in Nat /\ k # 0
  BY FS_CardinalityType, FS_EmptySet
<1>1. PICK R : R = {p \in S \X S : \/ f[p[1]] < f[p[2]]
                                   \/ f[p[1]] = f[p[2]] /\ p[1] < p[2]}
  OBVIOUS
<1>2. ASSUME NEW x \in S, NEW y \in S
      PROVE  <<x, y>> \in R <=> f[x] < f[y] \/ (f[x] = f[y] /\ x < y)
  <2>1. PICK p : p = <<x, y>>
    OBVIOUS
  <2>2. p \in S \X S /\ p[1] = x /\ p[2] = y
    BY <2>1
  <2>3. p \in R <=> f[p[1]] < f[p[2]] \/ (f[p[1]] = f[p[2]] /\ p[1] < p[2])
    BY <1>1, <2>2
  <2>. QED
    BY <2>1, <2>2, <2>3
<1>3. StrictlyOrders(R, S)
  <2>1. \A x \in S : <<x, x>> \notin R
    BY <1>2
  <2>2. ASSUME NEW x \in S, NEW y \in S, x # y PROVE <<x, y>> \in R \/ <<y, x>> \in R
    <3>1. x \in Nat /\ y \in Nat /\ f[x] \in Nat /\ f[y] \in Nat
      OBVIOUS
    <3>2. PICK u \in Nat, v \in Nat : u = f[x] /\ v = f[y]
      BY <3>1
    <3>3. u < v \/ (u = v /\ x < y) \/ v < u \/ (v = u /\ y < x)
      BY ONLY <3>1, x # y
    <3>. QED
      BY <1>2, <3>2, <3>3
  <2>3. \A x, y, z \in S : <<x, y>> \in R /\ <<y, z>> \in R => <<x, z>> \in R
    BY <1>2
  <2>. QED
    BY <2>1, <2>2, <2>3 DEF StrictlyOrders
<1>. DEFINE Sorted(p) == \A i, j \in 1 .. k : i < j => \/ f[p[i]] < f[p[j]]
                                                       \/ f[p[i]] = f[p[j]] /\ p[i] < p[j]
<1>4. PICK a \in [1 .. k -> S] : \A i, j \in 1 .. k : i < j => <<a[i], a[j]>> \in R
  BY <1>3, SortedExists
<1>5. Sorted(a)
  <2>1. ASSUME NEW i \in 1 .. k, NEW j \in 1 .. k, i < j
        PROVE  f[a[i]] < f[a[j]] \/ (f[a[i]] = f[a[j]] /\ a[i] < a[j])
    <3>1. <<a[i], a[j]>> \in R /\ a[i] \in S /\ a[j] \in S
      BY <1>4, <2>1
    <3>. QED
      BY <1>2, <3>1
  <2>. QED
    BY <2>1
<1>6. o = CHOOSE p \in [1 .. k -> S] : Sorted(p)
  BY DEF OrderOf
<1>7. o \in [1 .. k -> S] /\ Sorted(o)
  <2>. HIDE DEF Sorted
  <2>. QED
    BY <1>5, <1>6, Zenon
<1>8. ASSUME NEW i \in 1 .. k, NEW j \in 1 .. k, i < j PROVE f[o[i]] <= f[o[j]]
  <2>1. o[i] \in S /\ o[j] \in S
    BY <1>7
  <2>2. f[o[i]] \in Nat /\ f[o[j]] \in Nat
    BY <2>1
  <2>3. f[o[i]] < f[o[j]] \/ f[o[i]] = f[o[j]]
    BY <1>7, <1>8
  <2>. QED
    BY <2>2, <2>3
<1>. QED
  BY <1>7, <1>8

LEMMA PercentileIs ==
  ASSUME NEW f, Cardinality(DOMAIN f) # 0, NEW num, NEW den
  PROVE  Percentile(f, num, den) = f[OrderOf(f)[RankIn(Cardinality(DOMAIN f), num, den)]]
BY DEF Percentile, RankIn, OrderOf

LEMMA LatenciesAgree ==
  ASSUME ReportAssumption, ReportShape, NEW m \in Models, Cardinality(Scored(m)) > 0
  PROVE  Latency(m, 50, 100) <= Latency(m, 95, 100)
<1>1. PICK S : S = Scored(m)
  OBVIOUS
<1>2. PICK f : f = [s \in S |-> Took[m][s]]
  OBVIOUS
<1>3. S \subseteq Samples /\ IsFiniteSet(S) /\ Cardinality(S) \in Nat
  BY <1>1, RowSets
<1>4. S # {}
  <2>1. Cardinality({}) = 0
    BY FS_EmptySet
  <2>2. Cardinality(S) # 0
    BY <1>1, <1>3
  <2>. QED
    BY <2>1, <2>2
<1>5. S \subseteq Nat /\ \A s \in S : f[s] \in Nat
  BY <1>2, <1>3 DEF ReportAssumption, Models
<1>6. PICK k \in Nat : k = Cardinality(S) /\ k > 0
  BY <1>1, <1>3
<1>7. PICK o :
         /\ \A i \in 1 .. k : o[i] \in S
         /\ \A i, j \in 1 .. k : i < j => f[o[i]] <= f[o[j]]
         /\ Percentile(f, 50, 100) = f[o[RankIn(k, 50, 100)]]
         /\ Percentile(f, 95, 100) = f[o[RankIn(k, 95, 100)]]
  <2>1. DOMAIN f = S
    BY <1>2
  <2>2. PICK o : o = OrderOf(f)
    OBVIOUS
  <2>3. /\ \A i \in 1 .. k : o[i] \in S
        /\ \A i, j \in 1 .. k : i < j => f[o[i]] <= f[o[j]]
    BY ONLY <1>3, <1>4, <1>5, <1>6, <2>1, <2>2, OrderRises
  <2>4. /\ Percentile(f, 50, 100) = f[o[RankIn(k, 50, 100)]]
        /\ Percentile(f, 95, 100) = f[o[RankIn(k, 95, 100)]]
    <3>1. Cardinality(DOMAIN f) = k /\ k # 0
      BY <1>6, <2>1
    <3>2. /\ Percentile(f, 50, 100) = f[OrderOf(f)[RankIn(Cardinality(DOMAIN f), 50, 100)]]
          /\ Percentile(f, 95, 100) = f[OrderOf(f)[RankIn(Cardinality(DOMAIN f), 95, 100)]]
      BY ONLY <1>6, <3>1, PercentileIs
    <3>. QED
      BY ONLY <2>2, <3>1, <3>2
  <2>. QED
    BY ONLY <2>3, <2>4
<1>8. PICK a \in Int, b \in Int : /\ a = (50 * k + 100 - 1) \div 100
                                  /\ b = (95 * k + 100 - 1) \div 100
  OBVIOUS
<1>9. 1 <= a /\ a <= b
  <2>1. 100 * a <= 50 * k + 99 /\ 50 * k + 99 < 100 * a + 100
    BY <1>8
  <2>2. 100 * b <= 95 * k + 99 /\ 95 * k + 99 < 100 * b + 100
    BY <1>8
  <2>. QED
    BY ONLY <1>6, <2>1, <2>2, a \in Int, b \in Int, k \in Nat
<1>10. PICK i \in 1 .. k : i = Min({Max({1, a}), k})
  BY <1>6, <1>9, MinOfTwo, MaxOfTwo
<1>11. PICK j \in 1 .. k : j = Min({Max({1, b}), k})
  BY <1>6, <1>9, MinOfTwo, MaxOfTwo
<1>12. i <= j
  BY <1>6, <1>9, <1>10, <1>11, MinOfTwo, MaxOfTwo
<1>13. f[o[i]] <= f[o[j]]
  <2>1. CASE i < j
    BY <1>7, <2>1
  <2>2. CASE i = j
    <3>1. o[i] \in S /\ f[o[i]] \in Nat
      BY <1>5, <1>7
    <3>. QED
      BY <2>2, <3>1
  <2>. QED
    BY <1>12, <2>1, <2>2
<1>14. Percentile(f, 50, 100) = f[o[i]] /\ Percentile(f, 95, 100) = f[o[j]]
  <2>1. i = RankIn(k, 50, 100) /\ j = RankIn(k, 95, 100)
    BY <1>8, <1>10, <1>11 DEF RankIn
  <2>. QED
    BY <1>7, <2>1
<1>15. Latency(m, 50, 100) = Percentile(f, 50, 100) /\ Latency(m, 95, 100) = Percentile(f, 95, 100)
  BY <1>1, <1>2 DEF Latency
<1>. QED
  BY <1>13, <1>14, <1>15

LEMMA SamplesDoAddUp == ASSUME ReportAssumption, ReportShape PROVE SamplesAddUp
<1>1. SUFFICES ASSUME NEW m \in Models
               PROVE  LET r == Row(m) IN
                      /\ r.scored + r.error + r.missing = r.planned
                      /\ SumFunctionOnSet(r.kinds, DOMAIN r.kinds) = r.error + r.missing
                      /\ r.scored > 0 => r.p50 <= r.p95
  BY DEF SamplesAddUp
<1>2. PICK r : r = Row(m)
  OBVIOUS
<1>3. /\ r.scored = Cardinality(Scored(m)) /\ r.error = Cardinality(Erred(m))
      /\ r.missing = Missing(m) /\ r.planned = Planned(m) /\ r.kinds = ErrorKinds(m)
      /\ r.p50 = Latency(m, 50, 100) /\ r.p95 = Latency(m, 95, 100)
  BY <1>2 DEF Row
<1>4. r.scored + r.error + r.missing = r.planned
  <2>1. /\ Cardinality(Samples) \in Nat /\ Cardinality(Scored(m)) \in Nat
        /\ Cardinality(Erred(m)) \in Nat
    BY RowSets
  <2>2. /\ Planned(m) = Cardinality(Samples)
        /\ Missing(m) = Cardinality(Samples) - Cardinality(Scored(m)) - Cardinality(Erred(m))
    BY PlannedIs
  <2>. QED
    BY ONLY <1>3, <2>1, <2>2
<1>5. SumFunctionOnSet(r.kinds, DOMAIN r.kinds) = r.error + r.missing
  BY <1>3, KindsAddUp
<1>6. r.scored > 0 => r.p50 <= r.p95
  BY <1>3, LatenciesAgree
<1>. QED
  BY <1>2, <1>4, <1>5, <1>6

-----------------------------------------------------------------------------
(***************************************************************************)
(* Inspect report: every cost is attributed once.                          *)
(***************************************************************************)

\* The amounts of the items that count.
LEMMA BilledIs ==
  ASSUME ReportAssumption, ReportShape, NEW m \in Models
  PROVE  /\ IsFiniteSet(Billed(m)) /\ Billed(m) \subseteq Items(m)
         /\ \A i \in Billed(m) : i \in Nat /\ ItemCost(m, i) \in Nat /\ ItemLasted(m, i) \in Nat
<1>1. Billed(m) \subseteq Items(m)
  BY DEF Billed, EntriesForRun, ReportShape
<1>2. IsFiniteSet(Samples \cup {0})
  BY FS_AddElement DEF ReportAssumption
<1>3. IsFiniteSet(Billed(m))
  <2>1. Billed(m) \subseteq Samples \cup {0}
    BY <1>1 DEF Items
  <2>. QED
    BY <1>2, <2>1, FS_Subset
<1>4. ASSUME NEW i \in Billed(m)
      PROVE  i \in Nat /\ ItemCost(m, i) \in Nat /\ ItemLasted(m, i) \in Nat
  <2>1. i \in Items(m)
    BY <1>1
  <2>2. CASE i = 0
    <3>1. 0 \notin Samples
      BY DEF ReportAssumption
    <3>2. m \in DOMAIN Strays
      BY <2>1, <2>2, <3>1 DEF Items
    <3>. QED
      BY <2>2, <3>2 DEF ReportAssumption, ItemCost, ItemLasted
  <2>3. CASE i # 0
    <3>1. i \in Samples
      BY <2>1, <2>3 DEF Items
    <3>. QED
      BY <2>3, <3>1 DEF ReportAssumption, ItemCost, ItemLasted, Models
  <2>. QED
    BY <2>2, <2>3
<1>. QED
  BY <1>1, <1>3, <1>4

LEMMA SettledCostIs ==
  ASSUME ReportAssumption, ReportShape, NEW m \in Models
  PROVE  /\ SettledCost(m) = NoValue <=> Billed(m) = {}
         /\ Billed(m) # {} => \E b \in Nat :
              /\ SettledCost(m) = <<b, 1>>
              /\ b = SumFunctionOnSet([i \in Billed(m) |-> ItemCost(m, i)], Billed(m))
<1>1. PICK f : f = [i \in Billed(m) |-> ItemCost(m, i)]
  OBVIOUS
<1>2. \A i \in Billed(m) : f[i] \in Nat
  BY <1>1, BilledIs
<1>3. PICK b \in Nat : b = SumFunctionOnSet(f, Billed(m))
  BY <1>2, BilledIs, SumNat
<1>4. Billed(m) # {} => SettledCost(m) = <<b, 1>>
  BY <1>1, <1>3 DEF SettledCost
<1>5. <<b, 1>> # NoValue
  BY DEF ReportAssumption
<1>6. Billed(m) = {} => SettledCost(m) = NoValue
  BY DEF SettledCost
<1>. QED
  BY <1>1, <1>3, <1>4, <1>5, <1>6

LEMMA CandidatesAre ==
  ASSUME ReportAssumption, ReportShape, NEW m \in Models
  PROVE  /\ IsFiniteSet(Candidates(m))
         /\ \A c \in Candidates(m) :
              c.sample \in Samples /\ c.item \in Billed(m) /\ c.delta \in Nat
         /\ \A c, d \in Candidates(m) : c.sample = d.sample /\ c.item = d.item => c = d
<1>. DEFINE Delta(s, i) == LET d == Took[m][s] - ItemLasted(m, i) IN Max({d, -d})
            Pair(s, i) == [sample |-> s, item |-> i, delta |-> Delta(s, i)]
            A == {Pair(s, i) : s \in Recorded(m), i \in Billed(m)}
            f == [p \in Recorded(m) \X Billed(m) |-> Pair(p[1], p[2])]
<1>1. Candidates(m) \subseteq A
  <2>1. Candidates(m) = {c \in A : 100 * c.delta <= Max({200, 15 * Took[m][c.sample]})}
    BY DEF Candidates
  <2>. HIDE DEF A
  <2>. QED
    BY <2>1
<1>2. Recorded(m) \subseteq Samples /\ IsFiniteSet(Recorded(m)) /\ IsFiniteSet(Billed(m))
  BY RowSets, BilledIs
<1>3. ASSUME NEW s \in Recorded(m), NEW i \in Billed(m)
      PROVE  Delta(s, i) \in Nat
  <2>1. Took[m][s] \in Nat /\ ItemLasted(m, i) \in Nat
    BY <1>2, BilledIs DEF ReportAssumption, Models
  <2>2. PICK d \in Int : d = Took[m][s] - ItemLasted(m, i)
    BY <2>1
  <2>3. PICK e \in Int : e = -d
    OBVIOUS
  <2>4. Max({d, e}) = IF d >= e THEN d ELSE e
    BY MaxOfTwo
  <2>5. Max({d, e}) \in Nat
    BY <2>3, <2>4
  <2>. QED
    BY <2>2, <2>3, <2>5
<1>. HIDE DEF Delta
<1>4. ASSUME NEW c \in Candidates(m)
      PROVE  /\ c.sample \in Samples /\ c.item \in Billed(m) /\ c.delta \in Nat
             /\ c = Pair(c.sample, c.item)
  <2>1. PICK s \in Recorded(m), i \in Billed(m) : c = Pair(s, i)
    BY <1>1
  <2>. QED
    BY <2>1, <1>2, <1>3
<1>5. ASSUME NEW c \in Candidates(m), NEW d \in Candidates(m),
             c.sample = d.sample, c.item = d.item
      PROVE  c = d
  BY <1>4, <1>5
<1>6. IsFiniteSet(Candidates(m))
  <2>1. IsFiniteSet(Recorded(m) \X Billed(m))
    BY <1>2, FS_Product
  <2>2. PICK P : P = Recorded(m) \X Billed(m)
    OBVIOUS
  <2>3. PICK g : g = f
    OBVIOUS
  <2>4. IsFiniteSet({g[p] : p \in P})
    BY <2>1, <2>2, ImageCardinality
  <2>5. A \subseteq {g[p] : p \in P}
    <3>1. ASSUME NEW s \in Recorded(m), NEW i \in Billed(m)
          PROVE  Pair(s, i) \in {g[p] : p \in P}
      <4>1. PICK p : p = <<s, i>>
        OBVIOUS
      <4>2. p \in P /\ p[1] = s /\ p[2] = i
        BY <2>2, <4>1
      <4>3. g[p] = Pair(p[1], p[2])
        BY <2>2, <2>3, <4>2
      <4>. QED
        BY <4>2, <4>3
    <3>. QED
      BY <3>1
  <2>. QED
    BY <1>1, <2>4, <2>5, FS_Subset
<1>. QED
  BY <1>4, <1>5, <1>6

\* The nearest candidate of a set.
Nearest(cs) == CHOOSE c \in cs : \A d \in cs \ {c} : Before(c, d)

LEMMA NearestIs ==
  ASSUME ReportAssumption, ReportShape, NEW m \in Models,
         NEW cs \in SUBSET Candidates(m), cs # {}
  PROVE  /\ Nearest(cs) \in cs
         /\ \A d \in cs \ {Nearest(cs)} : Before(Nearest(cs), d)
<1>1. PICK R : R = {p \in cs \X cs : Before(p[1], p[2])}
  OBVIOUS
<1>2. ASSUME NEW c \in cs, NEW d \in cs PROVE <<c, d>> \in R <=> Before(c, d)
  <2>1. PICK p : p = <<c, d>>
    OBVIOUS
  <2>2. p \in cs \X cs /\ p[1] = c /\ p[2] = d
    BY <2>1
  <2>. QED
    BY <1>1, <2>1, <2>2
<1>3. /\ \A c \in cs : c.delta \in Nat /\ c.sample \in Nat /\ c.item \in Nat
      /\ \A c, d \in cs : c.sample = d.sample /\ c.item = d.item => c = d
      /\ IsFiniteSet(cs)
  <2>1. \A i \in Billed(m) : i \in Nat
    BY BilledIs
  <2>2. Samples \subseteq Nat
    BY DEF ReportAssumption
  <2>3. IsFiniteSet(cs)
    BY CandidatesAre, FS_Subset
  <2>. QED
    BY <2>1, <2>2, <2>3, CandidatesAre
<1>4. StrictlyOrders(R, cs)
  <2>1. ASSUME NEW c \in cs PROVE <<c, c>> \notin R
    BY <1>2, <1>3 DEF Before
  <2>2. ASSUME NEW c \in cs, NEW d \in cs, c # d PROVE <<c, d>> \in R \/ <<d, c>> \in R
    <3>1. c.sample # d.sample \/ c.item # d.item
      BY <1>3, <2>2
    <3>2. Before(c, d) \/ Before(d, c)
      BY <1>3, <3>1 DEF Before
    <3>. QED
      BY <1>2, <3>2
  <2>3. ASSUME NEW c \in cs, NEW d \in cs, NEW e \in cs, <<c, d>> \in R, <<d, e>> \in R
        PROVE  <<c, e>> \in R
    <3>1. Before(c, d) /\ Before(d, e)
      BY <1>2, <2>3
    <3>2. Before(c, e)
      BY <1>3, <3>1 DEF Before
    <3>. QED
      BY <1>2, <3>2
  <2>. QED
    BY <2>1, <2>2, <2>3 DEF StrictlyOrders
<1>5. PICK c \in cs : \A d \in cs \ {c} : <<c, d>> \in R
  BY <1>3, <1>4, FirstExists
<1>6. \E b \in cs : \A d \in cs \ {b} : Before(b, d)
  BY <1>2, <1>5
<1>. QED
  BY <1>6 DEF Nearest

\* Those that still can be paired when the nearest are.
Remaining(cs) == {d \in cs : Pairable(Nearest(cs), d)}

\* The greedy matching, over every subset of the candidates.
Greedily(g, C) ==
  g = [cs \in SUBSET C |->
         IF cs = {} THEN {}
         ELSE {Nearest(cs)} \cup g[Remaining(cs)]]

LEMMA GreedilyValue ==
  ASSUME NEW g, NEW C, Greedily(g, C), NEW cs \in SUBSET C
  PROVE  g[cs] = IF cs = {} THEN {}
                 ELSE {Nearest(cs)} \cup g[Remaining(cs)]
BY DEF Greedily

LEMMA GreedilyExists ==
  ASSUME ReportAssumption, ReportShape, NEW m \in Models
  PROVE  \E g : Greedily(g, Candidates(m))
<1>1. PICK C : C = Candidates(m)
  OBVIOUS
<1>2. PICK next : next = [cs \in SUBSET C |-> {d \in cs : Pairable(Nearest(cs), d)}]
  OBVIOUS
<1>3. PICK step : step = [cs \in SUBSET C |-> [y \in SUBSET C |-> {Nearest(cs)} \cup y]]
  OBVIOUS
<1>4. \A cs \in SUBSET C : cs # {} => Nearest(cs) \in cs
  BY <1>1, NearestIs
<1>5. \A cs \in SUBSET C : next[cs] \in SUBSET C /\ next[cs] \subseteq cs
  BY <1>2
<1>6. Shrinks(next, C)
  <2>1. ASSUME NEW cs \in SUBSET C, cs # {} PROVE Nearest(cs) \notin next[cs]
    BY <1>2 DEF Pairable
  <2>. QED
    BY <1>4, <1>5, <2>1 DEF Shrinks
<1>7. IsFiniteSet(C)
  BY <1>1, CandidatesAre
<1>8. PICK g : Steps(g, {}, step, next, C)
  BY <1>6, <1>7, StepsExist
<1>9. \A cs \in SUBSET C : g[cs] = IF cs = {} THEN {} ELSE step[cs][g[next[cs]]]
  BY <1>8, StepsValue
<1>. DEFINE D == {cs \in SUBSET C : ~(g[cs] \in SUBSET C)}
<1>10. D = {}
  <2>. SUFFICES ASSUME D # {} PROVE FALSE
    OBVIOUS
  <2>0. D \subseteq SUBSET C /\ D # {}
    OBVIOUS
  <2>. HIDE DEF D
  <2>1. PICK cs \in D : \A t \in D : ~(t \subseteq cs /\ t # cs)
    BY <1>7, <2>0, SmallestSubset
  <2>. USE DEF D
  <2>2. cs \in SUBSET C /\ ~(g[cs] \in SUBSET C)
    OBVIOUS
  <2>3. cs # {}
    BY <1>9, <2>2
  <2>4. g[next[cs]] \in SUBSET C
    BY <1>5, <1>6, <2>1, <2>3 DEF Shrinks
  <2>5. g[cs] = step[cs][g[next[cs]]]
    BY <1>9, <2>2, <2>3
  <2>6. g[cs] = {Nearest(cs)} \cup g[next[cs]]
    BY <1>3, <2>2, <2>4, <2>5
  <2>. QED
    BY <1>4, <2>2, <2>3, <2>4, <2>6
<1>11. ASSUME NEW cs \in SUBSET C, cs # {}
       PROVE  g[cs] = {Nearest(cs)} \cup g[Remaining(cs)]
  <2>1. g[cs] = step[cs][g[next[cs]]]
    BY <1>9, <1>11
  <2>2. g[next[cs]] \in SUBSET C
    BY <1>5, <1>10
  <2>3. g[cs] = {Nearest(cs)} \cup g[next[cs]]
    BY <1>3, <2>1, <2>2
  <2>4. next[cs] = Remaining(cs)
    BY <1>2 DEF Remaining
  <2>. QED
    BY <2>3, <2>4
<1>12. g = [cs \in SUBSET C |-> g[cs]]
  BY <1>8 DEF Steps
<1>13. Greedily(g, C)
  <2>1. ASSUME NEW cs \in SUBSET C
        PROVE  g[cs] = IF cs = {} THEN {} ELSE {Nearest(cs)} \cup g[Remaining(cs)]
    BY <1>9, <1>11
  <2>2. PICK e : e = [cs \in SUBSET C |->
                        IF cs = {} THEN {} ELSE {Nearest(cs)} \cup g[Remaining(cs)]]
    OBVIOUS
  <2>3. ASSUME NEW cs \in SUBSET C PROVE g[cs] = e[cs]
    BY <2>1, <2>2
  <2>4. e = [cs \in SUBSET C |-> e[cs]]
    BY <2>2
  <2>5. g = e
    BY ONLY <1>12, <2>3, <2>4
  <2>. QED
    BY <2>2, <2>5 DEF Greedily
<1>. QED
  BY <1>1, <1>13

\* What is matched: candidates, none with the sample or the item of another, and
\* one no farther apart for every candidate that is left.
LEMMA MatchedIs ==
  ASSUME ReportAssumption, ReportShape, NEW m \in Models
  PROVE  LET matched == MatchSampleCosts(m) IN
         /\ matched \subseteq Candidates(m)
         /\ \A c, d \in matched : c.sample = d.sample \/ c.item = d.item => c = d
         /\ \A c \in Candidates(m) : \E d \in matched :
               (d.sample = c.sample \/ d.item = c.item) /\ d.delta <= c.delta
<1>1. PICK C : C = Candidates(m)
  OBVIOUS
<1>2. PICK g : g = CHOOSE h : Greedily(h, C)
  OBVIOUS
<1>3. Greedily(g, C)
  BY <1>1, <1>2, GreedilyExists
<1>4. MatchSampleCosts(m) = g[C]
  BY <1>1, <1>2 DEF MatchSampleCosts, Greedily, Nearest, Remaining
<1>. DEFINE Good(cs) ==
       /\ g[cs] \subseteq cs
       /\ \A c, d \in g[cs] : c.sample = d.sample \/ c.item = d.item => c = d
       /\ \A c \in cs : \E d \in g[cs] :
             (d.sample = c.sample \/ d.item = c.item) /\ d.delta <= c.delta
            D == {cs \in SUBSET C : ~Good(cs)}
<1>5. IsFiniteSet(C)
  BY <1>1, CandidatesAre
<1>6. ASSUME NEW cs \in SUBSET C,
             \A t \in SUBSET C : t \subseteq cs /\ t # cs => Good(t)
      PROVE  Good(cs)
  <2>1. CASE cs = {}
    <3>1. g[cs] = {}
      BY <1>3, <2>1, GreedilyValue
    <3>. QED
      BY <2>1, <3>1
  <2>2. CASE cs # {}
    <3>1. PICK n \in cs : n = Nearest(cs) /\ \A d \in cs \ {n} : Before(n, d)
      BY <1>1, <2>2, NearestIs
    <3>2. PICK rest : rest = {d \in cs : Pairable(n, d)}
      OBVIOUS
    <3>3. g[cs] = {n} \cup g[rest]
      <4>1. g[cs] = {Nearest(cs)} \cup g[Remaining(cs)]
        BY <1>3, <2>2, GreedilyValue
      <4>2. Remaining(cs) = rest
        BY <3>1, <3>2 DEF Remaining
      <4>. QED
        BY <3>1, <4>1, <4>2
    <3>4. rest \subseteq cs /\ rest # cs /\ rest \in SUBSET C /\ n \notin rest
      BY <3>1, <3>2 DEF Pairable
    <3>5. Good(rest)
      BY <1>6, <3>4
    <3>6. \A d \in rest : d.sample # n.sample /\ d.item # n.item
      BY <3>2 DEF Pairable
    <3>7. g[cs] \subseteq cs
      BY <3>3, <3>4, <3>5
    <3>8. ASSUME NEW c \in g[cs], NEW d \in g[cs], c.sample = d.sample \/ c.item = d.item
          PROVE  c = d
      <4>1. (c = n \/ c \in g[rest]) /\ (d = n \/ d \in g[rest])
        BY <3>3
      <4>2. g[rest] \subseteq rest
        BY <3>5
      <4>3. CASE c \in g[rest] /\ d \in g[rest]
        BY <3>5, <3>8, <4>3
      <4>. QED
        BY <3>6, <3>8, <4>1, <4>2, <4>3
    <3>9. ASSUME NEW c \in cs
          PROVE  \E d \in g[cs] : (d.sample = c.sample \/ d.item = c.item) /\ d.delta <= c.delta
      <4>1. c.delta \in Nat /\ n.delta \in Nat
        BY <1>1, CandidatesAre
      <4>2. CASE c \in rest
        BY <3>3, <3>5, <4>2
      <4>3. CASE c \notin rest
        <5>1. n.sample = c.sample \/ n.item = c.item
          BY <3>2, <4>3 DEF Pairable
        <5>2. c = n \/ Before(n, c)
          BY <3>1
        <5>3. n.delta <= c.delta
          BY <4>1, <5>2 DEF Before
        <5>. QED
          BY <3>3, <5>1, <5>3
      <4>. QED
        BY <4>2, <4>3
    <3>. QED
      BY <3>7, <3>8, <3>9
  <2>. QED
    BY <2>1, <2>2
<1>. HIDE DEF Good
<1>7. D = {}
  <2>. SUFFICES ASSUME D # {} PROVE FALSE
    OBVIOUS
  <2>0. D \subseteq SUBSET C /\ D # {}
    OBVIOUS
  <2>. HIDE DEF D
  <2>1. PICK cs \in D : \A t \in D : ~(t \subseteq cs /\ t # cs)
    BY <1>5, <2>0, SmallestSubset
  <2>. USE DEF D
  <2>. QED
    BY <1>6, <2>1
<1>8. Good(C)
  BY <1>7
<1>. QED
  BY <1>1, <1>4, <1>8 DEF Good

LEMMA MatchedCosts ==
  ASSUME ReportAssumption, ReportShape, NEW m \in Models,
         NEW matched, matched = MatchSampleCosts(m), matched # {}
  PROVE  AtMost(<<SumFunctionOnSet([c \in matched |-> ItemCost(m, c.item)], matched), 1>>,
                SettledCost(m))
<1>1. PICK C, B : C = Candidates(m) /\ B = Billed(m)
  OBVIOUS
<1>2. /\ IsFiniteSet(C) /\ \A c \in C : c.item \in B
      /\ IsFiniteSet(B) /\ \A i \in B : ItemCost(m, i) \in Nat
      /\ matched \subseteq C
      /\ \A c, d \in matched : c.item = d.item => c = d
  BY <1>1, CandidatesAre, BilledIs, MatchedIs
<1>3. IsFiniteSet(matched)
  BY <1>2, FS_Subset
<1>4. PICK f, g, F : /\ f = [i \in B |-> ItemCost(m, i)]
                     /\ g = [c \in matched |-> ItemCost(m, c.item)]
                     /\ F = [c \in matched |-> {c.item}]
  OBVIOUS
<1>5. \A i \in B : f[i] \in Nat
  BY <1>2, <1>4
<1>6. /\ \A c \in matched : F[c] \subseteq B
      /\ \A c, d \in matched : c # d => F[c] \cap F[d] = {}
  BY <1>2, <1>4
<1>7. \A c \in matched : g[c] = SumFunctionOnSet(f, F[c])
  <2>1. ASSUME NEW c \in matched PROVE g[c] = SumFunctionOnSet(f, F[c])
    <3>1. PICK i \in B : i = c.item
      BY <1>2
    <3>2. SumFunctionOnSet(f, {i}) = f[i]
      <4>1. IsFiniteSet({}) /\ i \notin {} /\ \A y \in {} \cup {i} : f[y] \in Nat
        BY <1>5, FS_EmptySet
      <4>2. SumFunctionOnSet(f, {} \cup {i}) = f[i] + SumFunctionOnSet(f, {})
        BY ONLY <4>1, SumAdd
      <4>3. {} \cup {i} = {i}
        OBVIOUS
      <4>4. f[i] \in Nat
        BY <1>5
      <4>5. SumFunctionOnSet(f, {i}) = f[i] + 0
        BY ONLY <4>2, <4>3, SumEmpty
      <4>. QED
        BY ONLY <4>4, <4>5
    <3>. QED
      BY <1>4, <3>1, <3>2
  <2>. QED
    BY <2>1
<1>8. SumFunctionOnSet(g, matched) = SumFunctionOnSet(f, UNION {F[c] : c \in matched})
  <2>1. /\ IsFiniteSet(matched) /\ IsFiniteSet(B) /\ \A i \in B : f[i] \in Nat
        /\ \A c \in matched : F[c] \subseteq B
        /\ \A c, d \in matched : c # d => F[c] \cap F[d] = {}
        /\ \A c \in matched : g[c] = SumFunctionOnSet(f, F[c])
    BY <1>2, <1>3, <1>5, <1>6, <1>7
  <2>. QED
    BY ONLY <2>1, SumPartition
<1>9. PICK T : T = UNION {F[c] : c \in matched}
  OBVIOUS
<1>10. T \subseteq B
  BY <1>6, <1>9
<1>11. SumFunctionOnSet(f, T) <= SumFunctionOnSet(f, B)
  BY <1>2, <1>5, <1>10, SumOfPart
<1>12. IsFiniteSet(T) /\ SumFunctionOnSet(f, T) \in Nat
  BY <1>2, <1>5, <1>10, FS_Subset, SumNat
<1>13. B # {}
  BY <1>2
<1>14. PICK b \in Nat : SettledCost(m) = <<b, 1>> /\ b = SumFunctionOnSet(f, B)
  BY <1>1, <1>4, <1>13, SettledCostIs
<1>15. PICK a \in Nat : a = SumFunctionOnSet(f, T)
  BY <1>12
<1>16. a <= b
  BY <1>11, <1>14, <1>15
<1>17. AtMost(<<a, 1>>, <<b, 1>>)
  BY <1>16 DEF AtMost, Less
<1>18. SumFunctionOnSet([c \in matched |-> ItemCost(m, c.item)], matched) = a
  BY <1>4, <1>8, <1>9, <1>15
<1>. QED
  BY <1>14, <1>17, <1>18

LEMMA CostsAreDoneOnce ==
  ASSUME ReportAssumption, ReportShape PROVE CostsAreAttributedOnce
<1>1. SUFFICES ASSUME NEW m \in Models
               PROVE  LET matched == MatchSampleCosts(m) IN
                 /\ \A c, d \in matched : c.sample = d.sample <=> c.item = d.item
                 /\ \A c \in Candidates(m) : \E d \in matched :
                       (d.sample = c.sample \/ d.item = c.item) /\ d.delta <= c.delta
                 /\ matched /= {} =>
                      AtMost(<<SumFunctionOnSet([c \in matched |-> ItemCost(m, c.item)], matched), 1>>,
                             SettledCost(m))
  BY DEF CostsAreAttributedOnce
<1>2. PICK matched : matched = MatchSampleCosts(m)
  OBVIOUS
<1>3. \A c, d \in matched : c.sample = d.sample <=> c.item = d.item
  BY <1>2, MatchedIs
<1>4. \A c \in Candidates(m) : \E d \in matched :
         (d.sample = c.sample \/ d.item = c.item) /\ d.delta <= c.delta
  BY <1>2, MatchedIs
<1>5. matched /= {} =>
        AtMost(<<SumFunctionOnSet([c \in matched |-> ItemCost(m, c.item)], matched), 1>>,
               SettledCost(m))
  BY <1>2, MatchedCosts
<1>. QED
  BY <1>2, <1>3, <1>4, <1>5

-----------------------------------------------------------------------------
(***************************************************************************)
(* Inspect report: the values of the table are quotients.                  *)
(***************************************************************************)

LEMMA AccuracyIs ==
  ASSUME ReportAssumption, ReportShape, NEW m \in Models
  PROVE  /\ Accuracy(m) = NoValue <=> Scored(m) = {}
         /\ Accuracy(m) # NoValue =>
              /\ Accuracy(m) = <<Cardinality(Right(m)), Cardinality(Scored(m))>>
              /\ Accuracy(m) \in Quotients
<1>1. PICK a \in Nat, b \in Nat : a = Cardinality(Right(m)) /\ b = Cardinality(Scored(m))
  BY RowSets
<1>2. Accuracy(m) = IF b = 0 THEN NoValue ELSE <<a, b>>
  BY <1>1 DEF Accuracy, Q
<1>3. <<a, b>> # NoValue
  BY DEF ReportAssumption
<1>4. b = 0 <=> Scored(m) = {}
  BY <1>1, RowSets, FS_EmptySet
<1>5. b # 0 => <<a, b>> \in Quotients
  BY DEF Quotients
<1>. QED
  BY <1>1, <1>2, <1>3, <1>4, <1>5

LEMMA CostPerIs ==
  ASSUME ReportAssumption, ReportShape, NEW m \in Models, NEW n \in Nat
  PROVE  CostPer(m, n) # NoValue => CostPer(m, n) \in Quotients
<1>1. SUFFICES ASSUME CostPer(m, n) # NoValue PROVE CostPer(m, n) \in Quotients
  OBVIOUS
<1>2. SettledCost(m) # NoValue /\ n # 0 /\ CostPer(m, n) = Over(SettledCost(m), <<n, 1>>)
  BY <1>1 DEF CostPer
<1>3. PICK b \in Nat : SettledCost(m) = <<b, 1>>
  BY <1>2, SettledCostIs
<1>4. <<b, 1>> \in Quotients
  BY DEF Quotients
<1>. QED
  BY <1>2, <1>3, <1>4, OverCount

LEMMA TableIs ==
  ASSUME ReportAssumption, ReportShape, NEW m \in Models,
         NEW table, table = SampleCostTable
  PROVE  /\ DOMAIN table[m] \subseteq Scored(m) /\ IsFiniteSet(DOMAIN table[m])
         /\ table[m] \in [DOMAIN table[m] -> Quotients]
<1>1. table[m] = SampleCosts(m)
  BY DEF SampleCostTable
<1>2. PICK average, matched :
        average = CostPer(m, Cardinality(Scored(m))) /\ matched = MatchSampleCosts(m)
  OBVIOUS
<1>. DEFINE Matching(s) == {c \in matched : c.sample = s}
            D == {s \in Scored(m) : Matching(s) /= {} \/ average /= NoValue}
            V(s) == IF Matching(s) = {} THEN average
                    ELSE <<ItemCost(m, (CHOOSE c \in Matching(s) : TRUE).item), 1>>
<1>3. table[m] = [s \in D |-> V(s)]
  BY <1>1, <1>2 DEF SampleCosts
<1>4. average # NoValue => average \in Quotients
  BY <1>2, RowSets, CostPerIs
<1>5. ASSUME NEW s \in D PROVE V(s) \in Quotients
  <2>1. CASE Matching(s) = {}
    BY <1>4, <2>1
  <2>2. CASE Matching(s) # {}
    <3>1. PICK c \in matched : c = CHOOSE d \in Matching(s) : TRUE
      BY <2>2
    <3>2. ItemCost(m, c.item) \in Nat
      BY <1>2, MatchedIs, CandidatesAre, BilledIs
    <3>3. V(s) = <<ItemCost(m, c.item), 1>>
      BY <2>2, <3>1
    <3>. QED
      BY <3>2, <3>3, QuotientBy
  <2>. QED
    BY <2>1, <2>2
<1>6. D \subseteq Scored(m) /\ IsFiniteSet(D)
  BY RowSets, FS_Subset
<1>. HIDE DEF D, V
<1>7. DOMAIN table[m] = D /\ table[m] \in [D -> Quotients]
  BY <1>3, <1>5
<1>. QED
  BY <1>6, <1>7

LEMMA PoolCostIs ==
  ASSUME ReportAssumption, ReportShape, NEW m \in Models,
         NEW table, table = SampleCostTable
  PROVE  /\ PoolCost(table, m) = NoValue <=> DOMAIN table[m] = {}
         /\ PoolCost(table, m) # NoValue =>
              PoolCost(table, m) \in Quotients /\ Accuracy(m) # NoValue
<1>1. PICK f, S : f = table[m] /\ S = DOMAIN f
  OBVIOUS
<1>2. S \subseteq Scored(m) /\ IsFiniteSet(S) /\ f \in [S -> Quotients]
  BY <1>1, TableIs
<1>3. PoolCost(table, m) = Mean(f)
  BY <1>1 DEF PoolCost
<1>4. CASE S = {}
  BY <1>1, <1>3, <1>4 DEF Mean
<1>5. CASE S # {}
  <2>1. Mean(f) \in Quotients
    BY <1>2, <1>5, MeanIs
  <2>2. Mean(f) # NoValue
    BY <2>1, QuotientIsValue
  <2>3. Accuracy(m) # NoValue
    BY <1>2, <1>5, AccuracyIs
  <2>. QED
    BY <1>1, <1>3, <1>5, <2>1, <2>2, <2>3
<1>. QED
  BY <1>4, <1>5

-----------------------------------------------------------------------------
(***************************************************************************)
(* Inspect report: the Pareto front.                                       *)
(***************************************************************************)

LEMMA PointsAre ==
  ASSUME ReportAssumption, ReportShape, NEW table, table = SampleCostTable
  PROVE  /\ IsFiniteSet(Points(table))
         /\ \A p \in Points(table) :
              /\ p.model \in Fixed /\ p.cost \in Quotients /\ p.accuracy \in Quotients
              /\ p.cost = PoolCost(table, p.model) /\ p.accuracy = Accuracy(p.model)
         /\ \A p, q \in Points(table) : p.model = q.model => p = q
         /\ \A m \in Fixed : PoolCost(table, m) # NoValue =>
              \E p \in Points(table) : p.model = m
<1>. DEFINE F == {m \in Fixed : PoolCost(table, m) /= NoValue /\ Accuracy(m) /= NoValue}
            Point(m) == [model |-> m, cost |-> PoolCost(table, m), accuracy |-> Accuracy(m)]
<1>1. Points(table) = {Point(m) : m \in F}
  BY DEF Points
<1>2. Fixed \subseteq Models
  BY DEF Models
<1>3. IsFiniteSet(F)
  BY FS_Subset DEF ReportAssumption
<1>4. IsFiniteSet(Points(table))
  <2>1. PICK S, f : S = F /\ f = [m \in F |-> Point(m)]
    OBVIOUS
  <2>2. IsFiniteSet({f[m] : m \in S})
    BY <1>3, <2>1, ImageCardinality
  <2>3. {f[m] : m \in S} = {Point(m) : m \in F}
    BY <2>1
  <2>. QED
    BY <1>1, <2>2, <2>3
<1>5. ASSUME NEW p \in Points(table)
      PROVE  /\ p.model \in Fixed /\ p.cost \in Quotients /\ p.accuracy \in Quotients
             /\ p.cost = PoolCost(table, p.model) /\ p.accuracy = Accuracy(p.model)
             /\ p = Point(p.model)
  <2>1. PICK m \in F : p = Point(m)
    BY <1>1
  <2>2. PoolCost(table, m) \in Quotients /\ Accuracy(m) \in Quotients
    BY <1>2, PoolCostIs, AccuracyIs
  <2>. QED
    BY <2>1, <2>2
<1>6. ASSUME NEW p \in Points(table), NEW q \in Points(table), p.model = q.model PROVE p = q
  BY <1>5, <1>6
<1>7. ASSUME NEW m \in Fixed, PoolCost(table, m) # NoValue
      PROVE  \E p \in Points(table) : p.model = m
  <2>1. m \in F
    BY <1>2, <1>7, PoolCostIs
  <2>2. Point(m) \in Points(table)
    BY <1>1, <2>1
  <2>3. Point(m).model = m
    OBVIOUS
  <2>. QED
    BY <2>2, <2>3
<1>. QED
  BY <1>4, <1>5, <1>6, <1>7

LEMMA PrecedesOrders ==
  ASSUME ReportAssumption, ReportShape, NEW table, table = SampleCostTable
  PROVE  \E R : /\ StrictlyOrders(R, Points(table))
                /\ \A p, q \in Points(table) : <<p, q>> \in R <=> Precedes(p, q)
<1>1. PICK P : P = Points(table)
  OBVIOUS
<1>2. PICK A, C, R : /\ A = {x \in P \X P : Less(x[1].cost, x[2].cost)}
                     /\ C = {x \in P \X P : Less(x[2].accuracy, x[1].accuracy)}
                     /\ R = {x \in P \X P : Precedes(x[1], x[2])}
  OBVIOUS
<1>3. ASSUME NEW p \in P, NEW q \in P
      PROVE  /\ <<p, q>> \in A <=> Less(p.cost, q.cost)
             /\ <<p, q>> \in C <=> Less(q.accuracy, p.accuracy)
             /\ <<p, q>> \in R <=> Precedes(p, q)
  <2>1. PICK x : x = <<p, q>>
    OBVIOUS
  <2>2. x \in P \X P /\ x[1] = p /\ x[2] = q
    BY <2>1
  <2>3. /\ x \in A <=> Less(x[1].cost, x[2].cost)
        /\ x \in C <=> Less(x[2].accuracy, x[1].accuracy)
        /\ x \in R <=> Precedes(x[1], x[2])
    BY <1>2, <2>2
  <2>. QED
    BY <2>1, <2>2, <2>3
<1>4. \A p \in P : p.cost \in Quotients /\ p.accuracy \in Quotients /\ p.model \in Fixed
  BY <1>1, PointsAre
<1>5. Weakly(A, P)
  <2>1. ASSUME NEW p \in P, NEW q \in P, <<p, q>> \in A PROVE <<q, p>> \notin A
    BY <1>3, <1>4, <2>1, AtMostIsOrder
  <2>2. ASSUME NEW p \in P, NEW q \in P, NEW r \in P, <<p, r>> \in A
        PROVE  <<p, q>> \in A \/ <<q, r>> \in A
    <3>1. SUFFICES ASSUME ~Less(p.cost, q.cost), ~Less(q.cost, r.cost) PROVE FALSE
      BY <1>3
    <3>2. AtMost(q.cost, p.cost) /\ AtMost(r.cost, q.cost)
      BY <3>1 DEF AtMost
    <3>3. AtMost(r.cost, p.cost)
      BY <1>4, <3>2, AtMostIsTransitive
    <3>. QED
      BY <1>3, <2>2, <3>3 DEF AtMost
  <2>. QED
    BY <2>1, <2>2 DEF Weakly
<1>6. Weakly(C, P)
  <2>1. ASSUME NEW p \in P, NEW q \in P, <<p, q>> \in C PROVE <<q, p>> \notin C
    BY <1>3, <1>4, <2>1, AtMostIsOrder
  <2>2. ASSUME NEW p \in P, NEW q \in P, NEW r \in P, <<p, r>> \in C
        PROVE  <<p, q>> \in C \/ <<q, r>> \in C
    <3>1. SUFFICES ASSUME ~Less(q.accuracy, p.accuracy), ~Less(r.accuracy, q.accuracy)
                   PROVE FALSE
      BY <1>3
    <3>2. AtMost(p.accuracy, q.accuracy) /\ AtMost(q.accuracy, r.accuracy)
      BY <3>1 DEF AtMost
    <3>3. AtMost(p.accuracy, r.accuracy)
      BY <1>4, <3>2, AtMostIsTransitive
    <3>. QED
      BY <1>3, <2>2, <3>3 DEF AtMost
  <2>. QED
    BY <2>1, <2>2 DEF Weakly
<1>7. PICK rank : rank = [p \in P |-> VariantOrder[p.model]]
  OBVIOUS
<1>8. /\ \A p \in P : rank[p] \in Int
      /\ \A p, q \in P : rank[p] = rank[q] => p = q
  <2>1. ASSUME NEW p \in P, NEW q \in P
        PROVE  rank[p] \in Int /\ (rank[p] = rank[q] => p = q)
    <3>1. p.model \in Fixed \cup Fusion /\ q.model \in Fixed \cup Fusion
      BY <1>4
    <3>2. /\ VariantOrder[p.model] \in Nat
          /\ VariantOrder[p.model] = VariantOrder[q.model] => p.model = q.model
      BY <3>1 DEF ReportAssumption
    <3>. QED
      BY <1>1, <1>7, <3>2, PointsAre
  <2>. QED
    BY <2>1
<1>9. \A p, q \in P : <<p, q>> \in R <=>
           \/ <<p, q>> \in A
           \/ <<q, p>> \notin A /\ <<p, q>> \in C
           \/ <<q, p>> \notin A /\ <<q, p>> \notin C /\ rank[p] < rank[q]
  <2>1. ASSUME NEW p \in P, NEW q \in P
        PROVE  <<p, q>> \in R <=>
           \/ <<p, q>> \in A
           \/ <<q, p>> \notin A /\ <<p, q>> \in C
           \/ <<q, p>> \notin A /\ <<q, p>> \notin C /\ rank[p] < rank[q]
    <3>1. rank[p] = VariantOrder[p.model] /\ rank[q] = VariantOrder[q.model]
      BY <1>7
    <3>. QED
      BY <1>3, <3>1 DEF Precedes, AtMost
  <2>. QED
    BY <2>1
<1>10. StrictlyOrders(R, P)
  BY ONLY <1>5, <1>6, <1>8, <1>9, Lexicographic
<1>. QED
  BY <1>1, <1>3, <1>10

\* A front: points that get dearer and more accurate, one after the other.
Rises(front, n) ==
  /\ n \in Nat \ {0} /\ DOMAIN front = 1 .. n /\ Len(front) = n
  /\ \A i \in 1 .. n : front[i].cost \in Quotients /\ front[i].accuracy \in Quotients
  /\ \A i, j \in 1 .. n : i < j => /\ Less(front[i].cost, front[j].cost)
                                   /\ Less(front[i].accuracy, front[j].accuracy)

\* The points of the front are points, it rises, and for every point it has one
\* that costs no more and is no less accurate.
LEMMA FrontIs ==
  ASSUME ReportAssumption, ReportShape, NEW table, table = SampleCostTable,
         Points(table) # {}, NEW front, front = ParetoFront(table)
  PROVE  \E n \in Nat :
         /\ Rises(front, n) /\ \A i \in 1 .. n : front[i] \in Points(table)
         /\ \A p \in Points(table) : \E i \in 1 .. n :
              AtMost(front[i].cost, p.cost) /\ AtMost(p.accuracy, front[i].accuracy)
<1>1. PICK P : P = Points(table)
  OBVIOUS
<1>2. PICK R : StrictlyOrders(R, P) /\ \A p, q \in P : <<p, q>> \in R <=> Precedes(p, q)
  BY <1>1, PrecedesOrders
<1>3. PICK best : best = {p \in P : \A q \in P \ {p} : Precedes(q, p) => Less(q.accuracy, p.accuracy)}
  OBVIOUS
<1>4. IsFiniteSet(P) /\ IsFiniteSet(best) /\ best \subseteq P
  BY <1>1, <1>3, PointsAre, FS_Subset
<1>5. StrictlyOrders(R, best)
  BY <1>2, <1>4 DEF StrictlyOrders
<1>6. PICK n \in Nat : n = Cardinality(best)
  BY <1>4, FS_CardinalityType
<1>7. front = CHOOSE f \in [1 .. n -> best] : \A i, j \in 1 .. n : i < j => Precedes(f[i], f[j])
  BY <1>1, <1>3, <1>6 DEF ParetoFront
<1>8. \E f \in [1 .. n -> best] : \A i, j \in 1 .. n : i < j => Precedes(f[i], f[j])
  <2>1. PICK f \in [1 .. n -> best] : \A i, j \in 1 .. n : i < j => <<f[i], f[j]>> \in R
    BY <1>4, <1>5, <1>6, SortedExists
  <2>2. ASSUME NEW i \in 1 .. n, NEW j \in 1 .. n, i < j PROVE Precedes(f[i], f[j])
    BY <1>2, <1>4, <2>1, <2>2
  <2>. QED
    BY <2>1, <2>2
<1>9. /\ front \in [1 .. n -> best]
      /\ \A i, j \in 1 .. n : i < j => Precedes(front[i], front[j])
  BY <1>7, <1>8, Zenon
<1>10. \A i, j \in 1 .. n : i < j => <<front[i], front[j]>> \in R
  BY <1>2, <1>4, <1>9
<1>11. \A x \in best : \E i \in 1 .. n : front[i] = x
  BY <1>4, <1>5, <1>6, <1>9, <1>10, SortedIs
<1>12. \A p \in P : p.cost \in Quotients /\ p.accuracy \in Quotients
  BY <1>1, PointsAre
<1>13. ASSUME NEW i \in 1 .. n, NEW j \in 1 .. n, i < j
       PROVE  /\ Less(front[i].cost, front[j].cost)
              /\ Less(front[i].accuracy, front[j].accuracy)
  <2>1. PICK p \in best, q \in best : p = front[i] /\ q = front[j]
    BY <1>9
  <2>2. Precedes(p, q) /\ <<p, q>> \in R /\ p \in P /\ q \in P
    BY <1>4, <1>9, <1>10, <1>13, <2>1
  <2>3. p # q
    BY <2>2, <1>2 DEF StrictlyOrders
  <2>4. Less(p.accuracy, q.accuracy)
    BY <1>3, <2>2, <2>3
  <2>5. Less(p.cost, q.cost)
    <3>1. SUFFICES ASSUME ~Less(p.cost, q.cost) PROVE FALSE
      OBVIOUS
    <3>2. AtMost(q.cost, p.cost)
      BY <3>1 DEF AtMost
    <3>3. Precedes(q, p)
      BY <2>4, <3>2 DEF Precedes
    <3>. QED
      BY <1>2, <2>2, <3>3 DEF StrictlyOrders
  <2>. QED
    BY <2>1, <2>4, <2>5
<1>14. ASSUME NEW p \in P
       PROVE  \E i \in 1 .. n :
                AtMost(front[i].cost, p.cost) /\ AtMost(p.accuracy, front[i].accuracy)
  <2>1. PICK D : D = {q \in P : AtMost(p.accuracy, q.accuracy) /\ (q = p \/ Precedes(q, p))}
    OBVIOUS
  <2>2. p \in D /\ D \subseteq P
    BY <1>12, <2>1, AtMostIsOrder
  <2>3. IsFiniteSet(D) /\ StrictlyOrders(R, D)
    BY <1>2, <1>4, <2>2, FS_Subset DEF StrictlyOrders
  <2>4. PICK q \in D : \A r \in D \ {q} : <<q, r>> \in R
    BY <2>2, <2>3, FirstExists
  <2>5. q \in P /\ AtMost(p.accuracy, q.accuracy) /\ (q = p \/ Precedes(q, p))
    BY <2>1
  <2>6. ASSUME NEW r \in P \ {q}, Precedes(r, q) PROVE Less(r.accuracy, q.accuracy)
    <3>1. SUFFICES ASSUME ~Less(r.accuracy, q.accuracy) PROVE FALSE
      OBVIOUS
    <3>2. AtMost(q.accuracy, r.accuracy)
      BY <3>1 DEF AtMost
    <3>3. AtMost(p.accuracy, r.accuracy)
      BY <1>12, <2>5, <3>2, AtMostIsTransitive
    <3>4. r = p \/ Precedes(r, p)
      BY <1>2, <2>5, <2>6 DEF StrictlyOrders
    <3>5. r \in D
      BY <2>1, <3>3, <3>4
    <3>6. <<q, r>> \in R /\ <<r, q>> \in R
      BY <1>2, <2>4, <2>5, <2>6, <3>5
    <3>. QED
      BY <1>2, <2>5, <3>6 DEF StrictlyOrders
  <2>7. q \in best
    BY <1>3, <2>5, <2>6
  <2>8. AtMost(q.cost, p.cost)
    BY <1>12, <2>5, AtMostIsOrder DEF Precedes
  <2>9. PICK i \in 1 .. n : front[i] = q
    BY <1>11, <2>7
  <2>. QED
    BY <2>5, <2>8, <2>9
<1>15. n # 0
  <2>1. PICK p \in P : TRUE
    BY <1>1
  <2>2. PICK i \in 1 .. n : TRUE
    BY <1>14, <2>1
  <2>. QED
    BY <2>2
<1>16. DOMAIN front = 1 .. n /\ Len(front) = n /\ \A i \in 1 .. n : front[i] \in P
  <2>1. front \in [1 .. n -> P]
    BY <1>4, <1>9
  <2>2. front \in Seq(P)
    BY <2>1
  <2>. QED
    BY <2>1, <2>2
<1>17. Rises(front, n)
  BY <1>12, <1>13, <1>15, <1>16 DEF Rises
<1>. QED
  BY <1>1, <1>14, <1>16, <1>17

\* The first place of a rising front from the second on that reaches a bound.
LEMMA FirstPlace ==
  ASSUME NEW n \in Nat, NEW S, S \subseteq 2 .. n, S # {}
  PROVE  Min(S) \in S /\ \A i \in S : Min(S) <= i
<1>1. S \subseteq Nat
  OBVIOUS
<1>. DEFINE P == {s \in SUBSET (2 .. n) : s # {} => \E i \in s : \A j \in s : i <= j}
<1>2. IsFiniteSet(2 .. n)
  BY FS_Interval
<1>3. ASSUME NEW s \in SUBSET (2 .. n), \A x \in s : s \ {x} \in P PROVE s \in P
  <2>1. CASE s = {}
    BY <2>1
  <2>2. CASE s # {}
    <3>1. PICK x \in s : TRUE
      BY <2>2
    <3>2. CASE s \ {x} = {}
      BY <3>1, <3>2
    <3>3. CASE s \ {x} # {}
      <4>1. PICK i \in s \ {x} : \A j \in s \ {x} : i <= j
        BY <1>3, <3>3
      <4>2. CASE i <= x
        BY <4>1, <4>2
      <4>3. CASE ~(i <= x)
        <5>1. \A j \in s : x <= j
          BY <4>1, <4>3
        <5>. QED
          BY <3>1, <5>1
      <4>. QED
        BY <4>2, <4>3
    <3>. QED
      BY <3>2, <3>3
  <2>. QED
    BY <2>1, <2>2
<1>4. IsFiniteSet(S)
  BY <1>2, FS_Subset
<1>5. ASSUME NEW s \in SUBSET S, \A x \in s : s \ {x} \in P PROVE s \in P
  <2>1. s \in SUBSET (2 .. n)
    OBVIOUS
  <2>. HIDE DEF P
  <2>. QED
    BY <1>3, <1>5, <2>1
<1>. HIDE DEF P
<1>6. S \in P
  BY <1>4, <1>5, SubsetInduction
<1>7. \E i \in S : \A j \in S : i <= j
  BY <1>6 DEF P
<1>. QED
  BY <1>7 DEF Min

LEMMA RisesWeakly ==
  ASSUME NEW front, NEW n, Rises(front, n), NEW i \in 1 .. n, NEW j \in 1 .. n, i <= j
  PROVE  /\ AtMost(front[i].cost, front[j].cost)
         /\ AtMost(front[i].accuracy, front[j].accuracy)
<1>1. CASE i = j
  BY <1>1, AtMostIsOrder DEF Rises
<1>2. CASE i # j
  <2>1. i < j
    BY <1>2 DEF Rises
  <2>. QED
    BY <2>1, AtMostIsOrder DEF Rises
<1>. QED
  BY <1>1, <1>2

\* The mix at a cost is as accurate as every point of the front that costs no more.
LEMMA MixAccuracyIs ==
  ASSUME NEW front, NEW n, Rises(front, n), NEW cost \in Quotients
  PROVE  LET line == RandomMixAccuracy(front, cost) IN
         /\ line \in Quotients
         /\ AtMost(cost, front[1].cost) => line = front[1].accuracy
         /\ \A k \in 1 .. n : AtMost(front[k].cost, cost) => AtMost(front[k].accuracy, line)
<1>1. /\ n \in Nat /\ n >= 1 /\ Head(front) = front[1] /\ Last(front) = front[n]
      /\ 1 \in 1 .. n /\ n \in 1 .. n /\ Len(front) = n
  BY DEF Rises, Last
<1>2. \A i \in 1 .. n : front[i].cost \in Quotients /\ front[i].accuracy \in Quotients
  BY DEF Rises
<1>3. PICK line : line = RandomMixAccuracy(front, cost)
  OBVIOUS
<1>4. CASE AtMost(cost, front[1].cost)
  <2>1. line = front[1].accuracy
    BY <1>1, <1>3, <1>4 DEF RandomMixAccuracy
  <2>2. ASSUME NEW k \in 1 .. n, AtMost(front[k].cost, cost)
        PROVE  AtMost(front[k].accuracy, line)
    <3>1. AtMost(front[k].cost, front[1].cost)
      BY <1>1, <1>2, <1>4, <2>2, AtMostIsTransitive
    <3>2. ~Less(front[1].cost, front[k].cost)
      BY <3>1 DEF AtMost
    <3>3. k = 1
      BY <1>1, <3>2 DEF Rises
    <3>. QED
      BY <1>1, <1>2, <2>1, <3>3, AtMostIsOrder
  <2>. QED
    BY <1>1, <1>2, <1>3, <2>1, <2>2
<1>5. CASE ~AtMost(cost, front[1].cost) /\ AtMost(front[n].cost, cost)
  <2>1. line = front[n].accuracy
    BY <1>1, <1>3, <1>5 DEF RandomMixAccuracy
  <2>2. ASSUME NEW k \in 1 .. n PROVE AtMost(front[k].accuracy, line)
    BY <1>1, <2>1, RisesWeakly
  <2>. QED
    BY <1>1, <1>2, <1>3, <1>5, <2>1, <2>2
<1>6. CASE ~AtMost(cost, front[1].cost) /\ ~AtMost(front[n].cost, cost)
  <2>1. PICK S : S = {i \in 2 .. n : AtMost(cost, front[i].cost)}
    OBVIOUS
  <2>2. AtMost(cost, front[n].cost)
    BY <1>1, <1>2, <1>6, AtMostIsOrder
  <2>3. n # 1
    BY <1>6, <2>2
  <2>4. n \in S /\ S \subseteq 2 .. n
    BY <1>1, <2>1, <2>2, <2>3
  <2>5. PICK i \in S : i = Min(S) /\ \A j \in S : i <= j
    BY <1>1, <2>4, FirstPlace
  <2>6. i \in 1 .. n /\ i - 1 \in 1 .. n /\ i - 1 < i /\ AtMost(cost, front[i].cost)
    <3>1. i \in 2 .. n /\ AtMost(cost, front[i].cost)
      BY <2>1, <2>5
    <3>. QED
      BY <1>1, <3>1
  <2>7. AtMost(front[i - 1].cost, cost)
    <3>1. CASE i - 1 = 1
      <4>1. front[i - 1] = front[1]
        BY <3>1
      <4>2. AtMost(front[1].cost, cost)
        BY <1>1, <1>2, <1>6, AtMostIsOrder
      <4>. QED
        BY <4>1, <4>2
    <3>2. CASE i - 1 # 1
      <4>1. i - 1 \in 2 .. n /\ i - 1 \notin S
        BY <1>1, <2>5, <2>6, <3>2
      <4>2. ~AtMost(cost, front[i - 1].cost)
        BY <2>1, <4>1
      <4>. QED
        BY <1>2, <2>6, <4>2, AtMostIsOrder
    <3>. QED
      BY <3>1, <3>2
  <2>8. line = Between(cost, front[i - 1].cost, front[i].cost,
                       front[i - 1].accuracy, front[i].accuracy)
    BY <1>1, <1>3, <1>6, <2>1, <2>5 DEF RandomMixAccuracy
  <2>9. Less(front[i - 1].cost, front[i].cost)
        /\ AtMost(front[i - 1].accuracy, front[i].accuracy)
    BY <2>6, AtMostIsOrder DEF Rises
  <2>10. /\ line \in Quotients /\ AtMost(front[i - 1].accuracy, line)
         /\ AtMost(front[i].cost, cost) => AtMost(front[i].accuracy, line)
    BY <1>2, <2>6, <2>7, <2>8, <2>9, BetweenIs
  <2>11. ASSUME NEW k \in 1 .. n, AtMost(front[k].cost, cost)
         PROVE  AtMost(front[k].accuracy, line)
    <3>1. CASE k <= i - 1
      <4>1. AtMost(front[k].accuracy, front[i - 1].accuracy)
        BY <2>6, <3>1, RisesWeakly
      <4>. QED
        BY <1>2, <2>6, <2>10, <4>1, AtMostIsTransitive
    <3>2. CASE k = i
      BY <2>10, <2>11, <3>2
    <3>3. CASE k > i
      <4>1. Less(front[i].cost, front[k].cost)
        BY <2>6, <3>3 DEF Rises
      <4>2. Less(cost, front[k].cost)
        BY <1>2, <2>6, <4>1, LessIsTransitive
      <4>. QED
        BY <2>11, <4>2 DEF AtMost
    <3>. QED
      BY <1>1, <2>6, <3>1, <3>2, <3>3
  <2>. QED
    BY <1>3, <1>6, <2>10, <2>11
<1>. QED
  BY <1>4, <1>5, <1>6

\* The mix that reaches an accuracy costs no more than any point of the front that
\* reaches it; none does only where no point reaches it.
LEMMA MixCostIs ==
  ASSUME ReportAssumption, NEW front, NEW n, Rises(front, n), NEW accuracy \in Quotients
  PROVE  LET price == RandomMixCost(front, accuracy) IN
         /\ price # NoValue => price \in Quotients
         /\ AtMost(accuracy, front[1].accuracy) => price = front[1].cost
         /\ \A k \in 1 .. n : AtMost(accuracy, front[k].accuracy) =>
              price # NoValue /\ AtMost(price, front[k].cost)
<1>1. /\ n \in Nat /\ n >= 1 /\ Head(front) = front[1] /\ Last(front) = front[n]
      /\ 1 \in 1 .. n /\ n \in 1 .. n /\ Len(front) = n
  BY DEF Rises, Last
<1>2. \A i \in 1 .. n : front[i].cost \in Quotients /\ front[i].accuracy \in Quotients
  BY DEF Rises
<1>3. PICK price : price = RandomMixCost(front, accuracy)
  OBVIOUS
<1>4. CASE AtMost(accuracy, front[1].accuracy)
  <2>1. price = front[1].cost
    BY <1>1, <1>3, <1>4 DEF RandomMixCost
  <2>2. price # NoValue
    BY <1>1, <1>2, <2>1, QuotientIsValue
  <2>3. ASSUME NEW k \in 1 .. n PROVE AtMost(price, front[k].cost)
    BY <1>1, <2>1, RisesWeakly
  <2>. QED
    BY <1>1, <1>2, <1>3, <2>1, <2>2, <2>3
<1>5. CASE ~AtMost(accuracy, front[1].accuracy) /\ Less(front[n].accuracy, accuracy)
  <2>1. price = NoValue
    BY <1>1, <1>3, <1>5 DEF RandomMixCost
  <2>2. ASSUME NEW k \in 1 .. n PROVE ~AtMost(accuracy, front[k].accuracy)
    <3>1. AtMost(front[k].accuracy, front[n].accuracy)
      BY <1>1, RisesWeakly
    <3>2. Less(front[k].accuracy, accuracy)
      BY <1>1, <1>2, <1>5, <3>1, LessIsTransitive
    <3>. QED
      BY <3>2 DEF AtMost
  <2>. QED
    BY <1>3, <1>5, <2>1, <2>2
<1>6. CASE ~AtMost(accuracy, front[1].accuracy) /\ ~Less(front[n].accuracy, accuracy)
  <2>1. PICK S : S = {i \in 2 .. n : AtMost(accuracy, front[i].accuracy)}
    OBVIOUS
  <2>2. AtMost(accuracy, front[n].accuracy)
    BY <1>6 DEF AtMost
  <2>3. n # 1
    BY <1>6, <2>2
  <2>4. n \in S /\ S \subseteq 2 .. n
    BY <1>1, <2>1, <2>2, <2>3
  <2>5. PICK i \in S : i = Min(S) /\ \A j \in S : i <= j
    BY <1>1, <2>4, FirstPlace
  <2>6. i \in 1 .. n /\ i - 1 \in 1 .. n /\ i - 1 < i /\ AtMost(accuracy, front[i].accuracy)
    <3>1. i \in 2 .. n /\ AtMost(accuracy, front[i].accuracy)
      BY <2>1, <2>5
    <3>. QED
      BY <1>1, <3>1
  <2>7. AtMost(front[i - 1].accuracy, accuracy)
    <3>1. CASE i - 1 = 1
      <4>1. front[i - 1] = front[1]
        BY <3>1
      <4>2. AtMost(front[1].accuracy, accuracy)
        BY <1>1, <1>2, <1>6, AtMostIsOrder
      <4>. QED
        BY <4>1, <4>2
    <3>2. CASE i - 1 # 1
      <4>1. i - 1 \in 2 .. n /\ i - 1 \notin S
        BY <1>1, <2>5, <2>6, <3>2
      <4>2. ~AtMost(accuracy, front[i - 1].accuracy)
        BY <2>1, <4>1
      <4>. QED
        BY <1>2, <2>6, <4>2, AtMostIsOrder
    <3>. QED
      BY <3>1, <3>2
  <2>8. price = Between(accuracy, front[i - 1].accuracy, front[i].accuracy,
                        front[i - 1].cost, front[i].cost)
    BY <1>1, <1>3, <1>6, <2>1, <2>5 DEF RandomMixCost
  <2>9. Less(front[i - 1].accuracy, front[i].accuracy)
        /\ AtMost(front[i - 1].cost, front[i].cost)
    BY <2>6, AtMostIsOrder DEF Rises
  <2>10. price \in Quotients /\ AtMost(price, front[i].cost)
    BY <1>2, <2>6, <2>7, <2>8, <2>9, BetweenIs
  <2>11. ASSUME NEW k \in 1 .. n, AtMost(accuracy, front[k].accuracy)
         PROVE  AtMost(price, front[k].cost)
    <3>1. k # 1
      BY <1>6, <2>11
    <3>2. i <= k
      BY <2>1, <2>5, <2>11, <3>1
    <3>3. AtMost(front[i].cost, front[k].cost)
      BY <2>6, <3>2, RisesWeakly
    <3>. QED
      BY <1>2, <2>6, <2>10, <3>3, AtMostIsTransitive
  <2>12. price # NoValue
    BY <2>10, QuotientIsValue
  <2>. QED
    BY <1>3, <1>6, <2>10, <2>11, <2>12
<1>. QED
  BY <1>4, <1>5, <1>6

\* What a verdict says of a variant with a cost and an accuracy.
LEMMA VerdictIs ==
  ASSUME ReportAssumption, NEW front, NEW n, Rises(front, n), NEW cost, NEW accuracy,
         cost # NoValue => cost \in Quotients,
         accuracy # NoValue => accuracy \in Quotients
  PROVE  LET verdict == ClassifyVsMix(front, cost, accuracy) IN
         /\ verdict \in {"above", "below"} => cost \in Quotients /\ accuracy \in Quotients
         /\ verdict = "above" => \A k \in 1 .. n :
              ~(AtMost(front[k].cost, cost) /\ AtMost(accuracy, front[k].accuracy))
         /\ verdict = "below" => AtMost(front[1].cost, cost)
<1>1. /\ n \in Nat /\ n >= 1 /\ 1 \in 1 .. n /\ Len(front) = n
      /\ \A i \in 1 .. n : front[i].cost \in Quotients /\ front[i].accuracy \in Quotients
  BY DEF Rises
<1>2. front # <<>>
  <2>1. Len(<<>>) = 0
    OBVIOUS
  <2>. QED
    BY <1>1, <2>1
<1>3. PICK verdict : verdict = ClassifyVsMix(front, cost, accuracy)
  OBVIOUS
<1>4. CASE cost = NoValue \/ accuracy = NoValue
  <2>1. verdict = "unknown"
    BY <1>3, <1>4 DEF ClassifyVsMix
  <2>. QED
    BY <1>3, <2>1
<1>5. CASE cost # NoValue /\ accuracy # NoValue
  <2>1. cost \in Quotients /\ accuracy \in Quotients
    BY <1>5
  <2>2. PICK line, price :
          line = RandomMixAccuracy(front, cost) /\ price = RandomMixCost(front, accuracy)
    OBVIOUS
  <2>3. verdict = IF price = NoValue \/ Less(line, accuracy) \/ Less(cost, price) THEN "above"
                  ELSE IF Less(accuracy, line) \/ Less(price, cost) THEN "below"
                  ELSE "on"
    BY <1>2, <1>3, <1>5, <2>2 DEF ClassifyVsMix
  <2>4. /\ line \in Quotients
        /\ AtMost(cost, front[1].cost) => line = front[1].accuracy
        /\ \A k \in 1 .. n : AtMost(front[k].cost, cost) => AtMost(front[k].accuracy, line)
    BY <2>1, <2>2, MixAccuracyIs
  <2>5. /\ price # NoValue => price \in Quotients
        /\ AtMost(accuracy, front[1].accuracy) => price = front[1].cost
        /\ \A k \in 1 .. n : AtMost(accuracy, front[k].accuracy) =>
             price # NoValue /\ AtMost(price, front[k].cost)
    BY <2>1, <2>2, MixCostIs
  <2>6. ASSUME verdict = "above", NEW k \in 1 .. n,
               AtMost(front[k].cost, cost), AtMost(accuracy, front[k].accuracy)
        PROVE  FALSE
    <3>1. AtMost(front[k].accuracy, line) /\ price # NoValue /\ AtMost(price, front[k].cost)
      BY <2>4, <2>5, <2>6
    <3>2. AtMost(accuracy, line)
      BY <1>1, <2>1, <2>4, <2>6, <3>1, AtMostIsTransitive
    <3>3. AtMost(price, cost)
      BY <1>1, <2>1, <2>5, <2>6, <3>1, AtMostIsTransitive
    <3>4. ~Less(line, accuracy) /\ ~Less(cost, price)
      BY <3>2, <3>3 DEF AtMost
    <3>. QED
      BY <2>3, <2>6, <3>1, <3>4
  <2>7. ASSUME verdict = "below" PROVE AtMost(front[1].cost, cost)
    <3>1. SUFFICES ASSUME ~AtMost(front[1].cost, cost) PROVE FALSE
      OBVIOUS
    <3>2. Less(cost, front[1].cost) /\ AtMost(cost, front[1].cost)
      BY <1>1, <2>1, <3>1, AtMostIsOrder
    <3>3. line = front[1].accuracy
      BY <2>4, <3>2
    <3>4. price # NoValue /\ ~Less(line, accuracy) /\ ~Less(cost, price)
      BY <2>3, <2>7
    <3>5. AtMost(accuracy, front[1].accuracy)
      BY <3>3, <3>4 DEF AtMost
    <3>6. price = front[1].cost
      BY <2>5, <3>5
    <3>. QED
      BY <3>2, <3>4, <3>6
  <2>. QED
    BY <1>3, <2>1, <2>6, <2>7
<1>. QED
  BY <1>4, <1>5

LEMMA VerdictsDoAreFair ==
  ASSUME ReportAssumption, ReportShape PROVE VerdictsAreFair
<1>1. PICK table : table = SampleCostTable
  OBVIOUS
<1>2. PICK front : front = ParetoFront(table)
  OBVIOUS
<1>3. SUFFICES ASSUME NEW v \in Fusion, NEW p \in Points(table)
               PROVE  LET cost == CostPer(v, Cardinality(Scored(v))) IN
                 /\ AboveRandomMix(front, v) = "above"
                      => ~(AtMost(p.cost, cost) /\ AtMost(Accuracy(v), p.accuracy))
                 /\ AboveRandomMix(front, v) = "below"
                      => \E q \in Points(table) : AtMost(q.cost, cost)
  BY <1>1, <1>2 DEF VerdictsAreFair
<1>4. PICK cost, accuracy :
        cost = CostPer(v, Cardinality(Scored(v))) /\ accuracy = Accuracy(v)
  OBVIOUS
<1>5. v \in Models /\ Cardinality(Scored(v)) \in Nat
  BY RowSets DEF Models
<1>6. /\ cost # NoValue => cost \in Quotients
      /\ accuracy # NoValue => accuracy \in Quotients
  BY <1>4, <1>5, CostPerIs, AccuracyIs
<1>7. PICK n \in Nat :
        /\ Rises(front, n) /\ \A i \in 1 .. n : front[i] \in Points(table)
        /\ \A q \in Points(table) : \E i \in 1 .. n :
             AtMost(front[i].cost, q.cost) /\ AtMost(q.accuracy, front[i].accuracy)
  <2>1. Points(table) # {}
    OBVIOUS
  <2>. QED
    BY <1>1, <1>2, <2>1, FrontIs
<1>8. PICK verdict : verdict = ClassifyVsMix(front, cost, accuracy)
  OBVIOUS
<1>9. AboveRandomMix(front, v) = verdict
  BY <1>4, <1>8 DEF AboveRandomMix
<1>10. /\ verdict \in {"above", "below"} => cost \in Quotients /\ accuracy \in Quotients
       /\ verdict = "above" => \A k \in 1 .. n :
            ~(AtMost(front[k].cost, cost) /\ AtMost(accuracy, front[k].accuracy))
       /\ verdict = "below" => AtMost(front[1].cost, cost)
  BY <1>6, <1>7, <1>8, VerdictIs
<1>11. ASSUME verdict = "above", AtMost(p.cost, cost), AtMost(accuracy, p.accuracy)
       PROVE  FALSE
  <2>1. PICK i \in 1 .. n :
          AtMost(front[i].cost, p.cost) /\ AtMost(p.accuracy, front[i].accuracy)
    BY <1>7
  <2>2. /\ cost \in Quotients /\ accuracy \in Quotients
        /\ p.cost \in Quotients /\ p.accuracy \in Quotients
        /\ front[i].cost \in Quotients /\ front[i].accuracy \in Quotients
    BY <1>1, <1>7, <1>10, <1>11, PointsAre DEF Rises
  <2>3. AtMost(front[i].cost, cost) /\ AtMost(accuracy, front[i].accuracy)
    BY <1>11, <2>1, <2>2, AtMostIsTransitive
  <2>. QED
    BY <1>10, <1>11, <2>3
<1>12. ASSUME verdict = "below" PROVE \E q \in Points(table) : AtMost(q.cost, cost)
  <2>1. 1 \in 1 .. n
    BY <1>7 DEF Rises
  <2>. QED
    BY <1>7, <1>10, <1>12, <2>1
<1>. QED
  BY <1>4, <1>9, <1>11, <1>12

-----------------------------------------------------------------------------
(***************************************************************************)
(* Inspect report: the best single model, the oracle and the random choice.*)
(***************************************************************************)

\* By a value that may be missing, the highest first or the lowest first, and one
\* without a value last.
LEMMA HighestFirst ==
  ASSUME NEW S, NEW val, \A x \in S : val[x] # NoValue => val[x] \in Quotients,
         NEW A, \A x, y \in S : <<x, y>> \in A <=>
           val[x] # NoValue /\ (val[y] = NoValue \/ Less(val[y], val[x]))
  PROVE  Weakly(A, S)
<1>1. ASSUME NEW x \in S, NEW y \in S, <<x, y>> \in A PROVE <<y, x>> \notin A
  <2>1. val[x] # NoValue /\ (val[y] = NoValue \/ Less(val[y], val[x]))
    BY <1>1
  <2>2. CASE val[y] = NoValue
    BY <2>2
  <2>3. CASE val[y] # NoValue
    <3>1. AtMost(val[y], val[x])
      BY <2>1, <2>3, AtMostIsOrder
    <3>2. ~Less(val[x], val[y])
      BY <3>1 DEF AtMost
    <3>. QED
      BY <2>1, <3>2
  <2>. QED
    BY <2>2, <2>3
<1>2. ASSUME NEW x \in S, NEW y \in S, NEW z \in S, <<x, z>> \in A
      PROVE  <<x, y>> \in A \/ <<y, z>> \in A
  <2>1. val[x] # NoValue /\ (val[z] = NoValue \/ Less(val[z], val[x]))
    BY <1>2
  <2>2. CASE val[y] = NoValue \/ val[z] = NoValue
    BY <2>1, <2>2
  <2>3. CASE val[y] # NoValue /\ val[z] # NoValue
    <3>1. val[x] \in Quotients /\ val[y] \in Quotients /\ val[z] \in Quotients
      BY <2>1, <2>3
    <3>2. CASE Less(val[y], val[x])
      BY <2>1, <3>2
    <3>3. CASE ~Less(val[y], val[x])
      <4>1. AtMost(val[x], val[y])
        BY <3>3 DEF AtMost
      <4>2. Less(val[z], val[y])
        BY <2>1, <2>3, <3>1, <4>1, LessIsTransitive
      <4>. QED
        BY <2>3, <4>2
    <3>. QED
      BY <3>2, <3>3
  <2>. QED
    BY <2>2, <2>3
<1>. QED
  BY <1>1, <1>2 DEF Weakly

LEMMA LowestFirst ==
  ASSUME NEW S, NEW val, \A x \in S : val[x] # NoValue => val[x] \in Quotients,
         NEW A, \A x, y \in S : <<x, y>> \in A <=>
           val[x] # NoValue /\ (val[y] = NoValue \/ Less(val[x], val[y]))
  PROVE  Weakly(A, S)
<1>1. ASSUME NEW x \in S, NEW y \in S, <<x, y>> \in A PROVE <<y, x>> \notin A
  <2>1. val[x] # NoValue /\ (val[y] = NoValue \/ Less(val[x], val[y]))
    BY <1>1
  <2>2. CASE val[y] = NoValue
    BY <2>2
  <2>3. CASE val[y] # NoValue
    <3>1. AtMost(val[x], val[y])
      BY <2>1, <2>3, AtMostIsOrder
    <3>2. ~Less(val[y], val[x])
      BY <3>1 DEF AtMost
    <3>. QED
      BY <2>1, <3>2
  <2>. QED
    BY <2>2, <2>3
<1>2. ASSUME NEW x \in S, NEW y \in S, NEW z \in S, <<x, z>> \in A
      PROVE  <<x, y>> \in A \/ <<y, z>> \in A
  <2>1. val[x] # NoValue /\ (val[z] = NoValue \/ Less(val[x], val[z]))
    BY <1>2
  <2>2. CASE val[y] = NoValue \/ val[z] = NoValue
    BY <2>1, <2>2
  <2>3. CASE val[y] # NoValue /\ val[z] # NoValue
    <3>1. val[x] \in Quotients /\ val[y] \in Quotients /\ val[z] \in Quotients
      BY <2>1, <2>3
    <3>2. CASE Less(val[x], val[y])
      BY <2>1, <3>2
    <3>3. CASE ~Less(val[x], val[y])
      <4>1. AtMost(val[y], val[x])
        BY <3>3 DEF AtMost
      <4>2. Less(val[y], val[z])
        BY <2>1, <2>3, <3>1, <4>1, LessIsTransitive
      <4>. QED
        BY <2>3, <4>2
    <3>. QED
      BY <3>2, <3>3
  <2>. QED
    BY <2>2, <2>3
<1>. QED
  BY <1>1, <1>2 DEF Weakly

\* No fixed model has a better accuracy than the best single model.
LEMMA BestSingleIs ==
  ASSUME ReportAssumption, ReportShape, NEW table, table = SampleCostTable
  PROVE  /\ BestSingle(table) \in Fixed
         /\ \A m \in Fixed : Accuracy(m) # NoValue =>
              /\ Accuracy(BestSingle(table)) # NoValue
              /\ AtMost(Accuracy(m), Accuracy(BestSingle(table)))
<1>1. PICK a, c : /\ a = [m \in Fixed |-> Accuracy(m)]
                  /\ c = [m \in Fixed |-> PoolCost(table, m)]
  OBVIOUS
<1>2. ASSUME NEW m \in Fixed
      PROVE  /\ a[m] = Accuracy(m) /\ c[m] = PoolCost(table, m)
             /\ a[m] # NoValue => a[m] \in Quotients
             /\ c[m] # NoValue => c[m] \in Quotients
  <2>1. m \in Models
    BY DEF Models
  <2>2. a[m] = Accuracy(m) /\ c[m] = PoolCost(table, m)
    BY <1>1
  <2>. QED
    BY <2>1, <2>2, AccuracyIs, PoolCostIs
<1>. DEFINE Ahead2(m, n) == a[m] # NoValue /\ (a[n] = NoValue \/ Less(a[n], a[m]))
            Cheaper2(m, n) == c[m] # NoValue /\ (c[n] = NoValue \/ Less(c[m], c[n]))
            First(m, n) == \/ Ahead2(m, n)
                           \/ ~Ahead2(n, m) /\ Cheaper2(m, n)
                           \/ ~Ahead2(n, m) /\ ~Cheaper2(n, m) /\ VariantOrder[m] < VariantOrder[n]
<1>3. PICK A : A = {p \in Fixed \X Fixed : Ahead2(p[1], p[2])}
  OBVIOUS
<1>4. PICK C : C = {p \in Fixed \X Fixed : Cheaper2(p[1], p[2])}
  OBVIOUS
<1>5. PICK R : R = {p \in Fixed \X Fixed : First(p[1], p[2])}
  OBVIOUS
<1>6. \A m, n \in Fixed : /\ <<m, n>> \in A <=> Ahead2(m, n)
                          /\ <<m, n>> \in C <=> Cheaper2(m, n)
                          /\ <<m, n>> \in R <=> First(m, n)
  BY <1>3, <1>4, <1>5
<1>7. BestSingle(table) = CHOOSE m \in Fixed : \A n \in Fixed \ {m} : First(m, n)
  BY <1>1 DEF BestSingle
<1>8. Weakly(A, Fixed)
  BY <1>2, <1>6, HighestFirst
<1>9. Weakly(C, Fixed)
  BY <1>2, <1>6, LowestFirst
<1>10. /\ \A m \in Fixed : VariantOrder[m] \in Int
       /\ \A m, n \in Fixed : VariantOrder[m] = VariantOrder[n] => m = n
  BY DEF ReportAssumption
<1>11. \A m, n \in Fixed : <<m, n>> \in R <=>
         \/ <<m, n>> \in A
         \/ <<n, m>> \notin A /\ <<m, n>> \in C
         \/ <<n, m>> \notin A /\ <<n, m>> \notin C /\ VariantOrder[m] < VariantOrder[n]
  BY <1>6
<1>12. StrictlyOrders(R, Fixed)
  BY <1>8, <1>9, <1>10, <1>11, Lexicographic
<1>13. \E m \in Fixed : \A n \in Fixed \ {m} : First(m, n)
  <2>1. IsFiniteSet(Fixed) /\ Fixed # {}
    BY DEF ReportAssumption
  <2>2. PICK m \in Fixed : \A n \in Fixed \ {m} : <<m, n>> \in R
    BY <1>12, <2>1, FirstExists
  <2>. QED
    BY <1>6, <2>2
<1>14. PICK best \in Fixed : best = BestSingle(table) /\ \A n \in Fixed \ {best} : First(best, n)
  <2>. HIDE DEF First
  <2>. QED
    BY <1>7, <1>13, Zenon
<1>15. ASSUME NEW m \in Fixed, Accuracy(m) # NoValue
       PROVE  Accuracy(best) # NoValue /\ AtMost(Accuracy(m), Accuracy(best))
  <2>1. a[m] = Accuracy(m) /\ a[best] = Accuracy(best) /\ a[m] \in Quotients
    BY <1>2, <1>15
  <2>2. CASE m = best
    BY <1>15, <2>1, <2>2, AtMostIsOrder
  <2>3. CASE m # best
    <3>1. First(best, m)
      BY <1>14, <2>3
    <3>2. CASE Ahead2(best, m)
      <4>1. a[best] # NoValue /\ Less(a[m], a[best])
        BY <1>15, <2>1, <3>2
      <4>. QED
        BY <1>2, <2>1, <4>1, AtMostIsOrder
    <3>3. CASE ~Ahead2(m, best)
      <4>1. a[best] # NoValue /\ ~Less(a[best], a[m])
        BY <1>15, <2>1, <3>3
      <4>. QED
        BY <2>1, <4>1 DEF AtMost
    <3>. QED
      BY <3>1, <3>2, <3>3
  <2>. QED
    BY <2>2, <2>3
<1>. QED
  BY <1>14, <1>15

\* The samples that some fixed model has scored, and those that one got right.
LEMMA EvaluableIs ==
  ASSUME ReportAssumption, ReportShape
  PROVE  /\ IsFiniteSet(Evaluable) /\ Cardinality(Evaluable) \in Nat
         /\ Evaluable # {} => Cardinality(Evaluable) > 0
         /\ \A m \in Fixed : Scored(m) \subseteq Evaluable /\ Right(m) \subseteq Evaluable
<1>1. \A m \in Fixed : Scored(m) \subseteq Samples /\ Right(m) \subseteq Scored(m)
  BY RowSets DEF Models
<1>2. \A m \in Fixed : Scored(m) \subseteq Evaluable
  BY DEF Evaluable
<1>3. Evaluable \subseteq Samples
  BY <1>1 DEF Evaluable
<1>4. IsFiniteSet(Evaluable)
  BY <1>3, FS_Subset DEF ReportAssumption
<1>5. Cardinality(Evaluable) \in Nat /\ (Cardinality(Evaluable) = 0 <=> Evaluable = {})
  BY <1>4, FS_CardinalityType, FS_EmptySet
<1>. QED
  BY <1>1, <1>2, <1>4, <1>5

LEMMA OracleAccuracyIs ==
  ASSUME ReportAssumption, ReportShape, Evaluable # {}
  PROVE  \E W \in SUBSET Evaluable :
         /\ W = {s \in Evaluable : Winners(s) # {}}
         /\ IsFiniteSet(W) /\ Cardinality(W) \in Nat
         /\ \A m \in Fixed : Right(m) \subseteq W /\ Cardinality(Right(m)) <= Cardinality(W)
         /\ OracleAccuracy = <<Cardinality(W), Cardinality(Evaluable)>>
         /\ OracleAccuracy \in Quotients
<1>1. PICK W : W = {s \in Evaluable : Winners(s) # {}}
  OBVIOUS
<1>2. /\ IsFiniteSet(Evaluable) /\ Cardinality(Evaluable) \in Nat /\ Cardinality(Evaluable) > 0
      /\ \A m \in Fixed : Right(m) \subseteq Evaluable
  BY EvaluableIs
<1>3. IsFiniteSet(W) /\ Cardinality(W) \in Nat
  BY <1>1, <1>2, FS_Subset, FS_CardinalityType
<1>4. \A m \in Fixed : Right(m) \subseteq W
  BY <1>1, <1>2 DEF Winners
<1>5. \A m \in Fixed : Cardinality(Right(m)) <= Cardinality(W)
  BY <1>3, <1>4, FS_Subset
<1>6. OracleAccuracy = <<Cardinality(W), Cardinality(Evaluable)>>
  BY <1>1, <1>2 DEF OracleAccuracy, Q
<1>7. OracleAccuracy \in Quotients
  <2>1. PICK w \in Int, k \in Int : w = Cardinality(W) /\ k = Cardinality(Evaluable)
    BY <1>2, <1>3
  <2>. QED
    BY <1>2, <1>6, <2>1, QuotientBy
<1>. QED
  BY <1>1, <1>3, <1>4, <1>5, <1>6, <1>7

\* Where all have scored the same samples, the oracle is as accurate as the best.
LEMMA OracleIsBest ==
  ASSUME ReportAssumption, ReportShape, NEW table, table = SampleCostTable,
         \A m \in Fixed : Scored(m) = Evaluable, Evaluable # {}
  PROVE  AtMost(Accuracy(BestSingle(table)), OracleAccuracy)
<1>1. PICK best \in Fixed : best = BestSingle(table)
  BY BestSingleIs
<1>2. best \in Models /\ Scored(best) = Evaluable
  BY DEF Models
<1>3. Accuracy(best) = <<Cardinality(Right(best)), Cardinality(Evaluable)>>
  BY <1>2, AccuracyIs
<1>4. PICK W : /\ Cardinality(W) \in Nat /\ Cardinality(Right(best)) <= Cardinality(W)
               /\ OracleAccuracy = <<Cardinality(W), Cardinality(Evaluable)>>
  BY OracleAccuracyIs
<1>5. PICK r \in Nat, w \in Nat, k \in Nat :
        r = Cardinality(Right(best)) /\ w = Cardinality(W) /\ k = Cardinality(Evaluable)
  BY <1>2, <1>4, RowSets, EvaluableIs
<1>6. r <= w
  BY ONLY <1>4, <1>5
<1>7. PICK a, b : a = <<r, k>> /\ b = <<w, k>>
  OBVIOUS
<1>8. a[1] = r /\ a[2] = k /\ b[1] = w /\ b[2] = k
  BY <1>7
<1>9. r * k <= w * k
  BY <1>6
<1>10. AtMost(a, b)
  BY <1>8, <1>9 DEF AtMost, Less
<1>. QED
  BY <1>1, <1>3, <1>4, <1>5, <1>7, <1>10

\* The random choice is no more accurate than the best.
LEMMA RandomIsNoBetter ==
  ASSUME ReportAssumption, ReportShape, NEW table, table = SampleCostTable,
         RandomAccuracy # NoValue
  PROVE  AtMost(RandomAccuracy, Accuracy(BestSingle(table)))
<1>1. PICK D : D = {m \in Fixed : Accuracy(m) /= NoValue}
  OBVIOUS
<1>2. PICK f : f = [m \in D |-> Accuracy(m)]
  OBVIOUS
<1>3. RandomAccuracy = Mean(f)
  BY <1>1, <1>2 DEF RandomAccuracy
<1>4. D # {}
  <2>1. SUFFICES ASSUME D = {} PROVE FALSE
    OBVIOUS
  <2>2. DOMAIN f = {}
    BY <1>2, <2>1
  <2>. QED
    BY <1>3, <2>2 DEF Mean
<1>5. PICK c : c = Accuracy(BestSingle(table))
  OBVIOUS
<1>6. \A m \in D : Accuracy(m) \in Quotients /\ c # NoValue /\ AtMost(Accuracy(m), c)
  BY <1>1, <1>5, AccuracyIs, BestSingleIs DEF Models
<1>7. c \in Quotients
  BY <1>4, <1>5, <1>6, AccuracyIs, BestSingleIs DEF Models
<1>8. f \in [D -> Quotients] /\ \A m \in D : AtMost(f[m], c)
  BY <1>2, <1>6
<1>9. IsFiniteSet(D)
  BY <1>1, FS_Subset DEF ReportAssumption
<1>10. AtMost(Mean(f), c)
  BY <1>4, <1>7, <1>8, <1>9, MeanIsWithin
<1>. QED
  BY <1>3, <1>5, <1>10

\* The cheapest of some models that a sample is priced for.
LEMMA CheapestOfIs ==
  ASSUME ReportAssumption, ReportShape, NEW table, table = SampleCostTable,
         NEW s, NEW ms \in SUBSET Priced(table, s), ms # {}
  PROVE  /\ \E n \in ms : CheapestOf(table, s, ms) = table[n][s]
         /\ CheapestOf(table, s, ms) \in Quotients
         /\ \A n \in ms : AtMost(CheapestOf(table, s, ms), table[n][s])
<1>1. ASSUME NEW n \in ms PROVE table[n][s] \in Quotients
  <2>1. n \in Models /\ s \in DOMAIN table[n]
    BY DEF Models, Priced
  <2>2. table[n] \in [DOMAIN table[n] -> Quotients]
    BY <2>1, TableIs
  <2>. QED
    BY <2>1, <2>2
<1>2. ms \subseteq Fixed
  BY DEF Priced
<1>3. IsFiniteSet(ms)
  BY <1>2, FS_Subset DEF ReportAssumption
<1>4. PICK price : price = [n \in ms |-> table[n][s]]
  OBVIOUS
<1>5. PICK T : T = {price[n] : n \in ms}
  OBVIOUS
<1>6. IsFiniteSet(T)
  BY <1>3, <1>5, ImageCardinality
<1>7. CheapestOf(table, s, ms) = Smallest(T)
  <2>1. T = {table[n][s] : n \in ms}
    BY <1>4, <1>5
  <2>. QED
    BY <2>1 DEF CheapestOf
<1>8. T # {} /\ T \subseteq Quotients
  BY <1>1, <1>4, <1>5
<1>9. Smallest(T) \in T /\ \A a \in T : AtMost(Smallest(T), a)
  BY <1>6, <1>8, SmallestIs
<1>. QED
  BY <1>4, <1>5, <1>7, <1>8, <1>9

\* The oracle costs no more than a model that is always right.
LEMMA OracleCostsNoMore ==
  ASSUME ReportAssumption, ReportShape, NEW table, table = SampleCostTable,
         NEW m \in Fixed, Right(m) = Evaluable, Evaluable # {},
         OracleCost(table) # NoValue, DOMAIN table[m] = Evaluable
  PROVE  AtMost(OracleCost(table), PoolCost(table, m))
<1>. DEFINE Choice(s) == IF Winners(s) = {} THEN Priced(table, s)
                                            ELSE Winners(s) \cap Priced(table, s)
<1>1. PICK h : h = [s \in Evaluable |-> CheapestOf(table, s, Choice(s))]
  OBVIOUS
<1>2. OracleCost(table) = Mean(h)
  BY <1>1 DEF OracleCost
<1>3. ASSUME NEW s \in Evaluable
      PROVE  h[s] \in Quotients /\ AtMost(h[s], table[m][s])
  <2>1. m \in Choice(s) /\ Choice(s) \subseteq Priced(table, s) /\ Choice(s) \subseteq Fixed
    BY <1>3 DEF Winners, Priced
  <2>. HIDE DEF Choice
  <2>2. PICK ms : ms = Choice(s)
    OBVIOUS
  <2>3. h[s] = CheapestOf(table, s, ms)
    BY <1>1, <2>2
  <2>4. CheapestOf(table, s, ms) \in Quotients
        /\ \A n \in ms : AtMost(CheapestOf(table, s, ms), table[n][s])
    BY <2>1, <2>2, CheapestOfIs
  <2>. QED
    BY <2>1, <2>2, <2>3, <2>4
<1>4. table[m] \in [Evaluable -> Quotients] /\ m \in Models
  BY TableIs DEF Models
<1>5. h \in [Evaluable -> Quotients]
  <2>1. DOMAIN h = Evaluable
    BY <1>1
  <2>2. h = [s \in Evaluable |-> h[s]]
    BY <1>1
  <2>. QED
    BY <1>3, <2>2
<1>6. IsFiniteSet(Evaluable)
  BY EvaluableIs
<1>7. AtMost(Mean(h), Mean(table[m]))
  BY <1>3, <1>4, <1>5, <1>6, MeanGrows
<1>. QED
  BY <1>2, <1>7 DEF PoolCost

\* More than all of the way to the oracle is more than the oracle.
LEMMA HeadroomIs ==
  ASSUME ReportAssumption, ReportShape, NEW table, table = SampleCostTable,
         \A m \in Fixed : Scored(m) = Evaluable, NEW v \in Fusion,
         HeadroomCaptured(table, v) # NoValue
  PROVE  Less(<<1, 1>>, HeadroomCaptured(table, v)) <=> Less(OracleAccuracy, Accuracy(v))
<1>1. PICK best, oracle, own :
        best = Accuracy(BestSingle(table)) /\ oracle = OracleAccuracy /\ own = Accuracy(v)
  OBVIOUS
<1>2. PICK span, way : span = Minus(oracle, best) /\ way = Minus(own, best)
  OBVIOUS
<1>3. /\ best # NoValue /\ oracle # NoValue /\ own # NoValue /\ span[1] # 0
      /\ HeadroomCaptured(table, v) = Over(way, span)
  BY <1>1, <1>2 DEF HeadroomCaptured
<1>4. BestSingle(table) \in Fixed
  BY BestSingleIs
<1>5. BestSingle(table) \in Models /\ v \in Models
  BY <1>4 DEF Models
<1>6. best \in Quotients /\ own \in Quotients
  BY <1>1, <1>3, <1>5, AccuracyIs
<1>7. Evaluable # {}
  BY <1>1, <1>3, <1>4, <1>5, AccuracyIs
<1>8. oracle \in Quotients
  BY <1>1, <1>7, OracleAccuracyIs
<1>9. AtMost(best, oracle)
  BY <1>1, <1>7, OracleIsBest
<1>10. span \in Quotients /\ span[1] > 0 /\ way \in Quotients
  <2>1. span \in Quotients /\ way \in Quotients /\ span[1] >= 0
    BY <1>2, <1>6, <1>8, <1>9, MinusIs
  <2>. QED
    BY <1>3, <2>1, QuotientIs
<1>11. Less(<<1, 1>>, Over(way, span)) <=> Less(span, way)
  BY <1>10 DEF Over, Less, Quotients
<1>12. Less(oracle, own) => Less(span, way)
  BY <1>2, <1>6, <1>8, AtMostIsOrder, MinusGrows
<1>13. ASSUME ~Less(oracle, own) PROVE ~Less(span, way)
  <2>1. AtMost(own, oracle)
    BY <1>13 DEF AtMost
  <2>2. AtMost(way, span)
    BY <1>2, <1>6, <1>8, <2>1, MinusGrows
  <2>. QED
    BY <2>2 DEF AtMost
<1>. QED
  BY <1>1, <1>3, <1>11, <1>12, <1>13

\* The model that is always the cheapest is the one the routing starts from.
LEMMA CheapestIs ==
  ASSUME ReportAssumption, ReportShape, NEW table, table = SampleCostTable,
         NEW m \in Fixed, NEW s \in DOMAIN table[m],
         \A n \in Priced(table, s) \ {m} : Less(table[m][s], table[n][s])
  PROVE  LET cheapest == CHOOSE n \in Priced(table, s) :
                /\ table[n][s] = CheapestOf(table, s, Priced(table, s))
                /\ \A k \in Priced(table, s) : VariantOrder[k] < VariantOrder[n]
                     => table[k][s] /= CheapestOf(table, s, Priced(table, s))
         IN cheapest = m
<1>1. PICK ms : ms = Priced(table, s)
  OBVIOUS
<1>2. PICK low : low = CheapestOf(table, s, ms)
  OBVIOUS
<1>3. m \in ms /\ ms \subseteq Priced(table, s)
  BY <1>1 DEF Priced
<1>4. low \in Quotients /\ AtMost(low, table[m][s]) /\ \E n \in ms : low = table[n][s]
  BY <1>2, <1>3, CheapestOfIs
<1>5. PICK first \in ms : low = table[first][s]
  BY <1>4
<1>6. first = m
  BY <1>1, <1>4, <1>5 DEF AtMost
<1>7. low = table[m][s]
  BY <1>5, <1>6
<1>8. \A k \in ms : table[k][s] = low => k = m
  <2>1. SUFFICES ASSUME NEW k \in ms, table[k][s] = low, k # m PROVE FALSE
    OBVIOUS
  <2>2. Less(table[m][s], table[k][s])
    BY <1>1, <2>1
  <2>3. Less(low, low)
    BY <1>7, <2>1, <2>2
  <2>. QED
    BY <1>4, <2>3, AtMostIsOrder
<1>. DEFINE Choosable(n) == /\ table[n][s] = low
                            /\ \A k \in ms : VariantOrder[k] < VariantOrder[n]
                                 => table[k][s] /= low
<1>9. Choosable(m)
  <2>1. SUFFICES ASSUME NEW k \in ms, VariantOrder[k] < VariantOrder[m], table[k][s] = low
                 PROVE  FALSE
    BY <1>7
  <2>2. k = m
    BY <1>8, <2>1
  <2>3. VariantOrder[m] \in Nat
    BY DEF ReportAssumption
  <2>. QED
    BY <2>1, <2>2, <2>3
<1>10. \A k \in ms : Choosable(k) => k = m
  BY <1>8
<1>11. (CHOOSE k \in ms : Choosable(k)) = m
  <2>. HIDE DEF Choosable
  <2>. QED
    BY <1>3, <1>9, <1>10, Zenon
<1>. QED
  BY <1>1, <1>2, <1>11

\* What the oracle gains over the model that is always the cheapest.
LEMMA RoutableIs ==
  ASSUME ReportAssumption, ReportShape, NEW table, table = SampleCostTable,
         NEW m \in Fixed, Scored(m) = Evaluable, Evaluable = DOMAIN table[m], Evaluable # {},
         \A s \in Evaluable : \A n \in Priced(table, s) \ {m} : Less(table[m][s], table[n][s])
  PROVE  OracleAccuracy[1] = Cardinality(Right(m)) + Cardinality(Routable(table))
<1>1. PICK W : /\ W = {s \in Evaluable : Winners(s) # {}} /\ IsFiniteSet(W)
               /\ Right(m) \subseteq W
               /\ OracleAccuracy = <<Cardinality(W), Cardinality(Evaluable)>>
  BY OracleAccuracyIs
<1>2. OracleAccuracy[1] = Cardinality(W)
  BY <1>1
<1>3. ASSUME NEW s \in Evaluable
      PROVE  s \in Routable(table) <=> Winners(s) # {} /\ s \notin Right(m)
  <2>1. m \in Priced(table, s)
    BY DEF Priced
  <2>2. m \in Winners(s) <=> s \in Right(m)
    BY DEF Winners
  <2>3. PICK cheapest : cheapest = CHOOSE k \in Priced(table, s) :
                 /\ table[k][s] = CheapestOf(table, s, Priced(table, s))
                 /\ \A n \in Priced(table, s) : VariantOrder[n] < VariantOrder[k]
                      => table[n][s] /= CheapestOf(table, s, Priced(table, s))
    OBVIOUS
  <2>4. cheapest = m
    BY <1>3, <2>3, CheapestIs
  <2>5. s \in Routable(table) <=>
          /\ Winners(s) /= {} /\ Priced(table, s) /= {}
          /\ cheapest \notin Winners(s)
    BY <2>3 DEF Routable
  <2>. QED
    BY <2>1, <2>2, <2>4, <2>5
<1>4. Routable(table) \subseteq Evaluable
  BY DEF Routable
<1>5. PICK A, B : A = Right(m) /\ B = Routable(table)
  OBVIOUS
<1>6. A \cup B = W /\ A \cap B = {}
  BY <1>1, <1>3, <1>4, <1>5
<1>7. IsFiniteSet(A) /\ IsFiniteSet(B)
  BY <1>1, <1>6, FS_Subset
<1>8. Cardinality(A \cup B) = Cardinality(A) + Cardinality(B) - Cardinality(A \cap B)
  BY <1>7, FS_Union
<1>9. Cardinality(A \cap B) = 0
  BY <1>6, FS_EmptySet
<1>10. PICK a \in Nat, b \in Nat : a = Cardinality(A) /\ b = Cardinality(B)
  BY <1>7, FS_CardinalityType
<1>11. Cardinality(W) = Cardinality(A) + Cardinality(B) - 0
  BY <1>6, <1>8, <1>9
<1>. QED
  BY <1>2, <1>5, <1>10, <1>11

\* The random choice is no cheaper than the cheapest point of the front.
LEMMA RandomIsNoCheaper ==
  ASSUME ReportAssumption, ReportShape, NEW table, table = SampleCostTable,
         RandomCost(table) # NoValue
  PROVE  AtMost(Head(ParetoFront(table)).cost, RandomCost(table))
<1>1. PICK front : front = ParetoFront(table)
  OBVIOUS
<1>2. PICK f : f = [m \in Fixed |-> PoolCost(table, m)]
  OBVIOUS
<1>3. (\A m \in Fixed : PoolCost(table, m) # NoValue) /\ RandomCost(table) = Mean(f)
  BY <1>2 DEF RandomCost
<1>4. \A m \in Fixed : \E p \in Points(table) : p.model = m
  BY <1>3, PointsAre
<1>5. IsFiniteSet(Fixed) /\ Fixed # {}
  BY DEF ReportAssumption
<1>6. Points(table) # {}
  BY <1>4, <1>5
<1>7. PICK n \in Nat :
        /\ Rises(front, n)
        /\ \A p \in Points(table) : \E i \in 1 .. n :
             AtMost(front[i].cost, p.cost) /\ AtMost(p.accuracy, front[i].accuracy)
  BY <1>1, <1>6, FrontIs
<1>8. /\ 1 \in 1 .. n /\ \A i \in 1 .. n : 1 <= i /\ front[i].cost \in Quotients
      /\ Head(front) = front[1]
  BY <1>7 DEF Rises
<1>9. ASSUME NEW m \in Fixed
      PROVE  f[m] \in Quotients /\ AtMost(front[1].cost, f[m])
  <2>1. m \in Models
    BY DEF Models
  <2>2. f[m] = PoolCost(table, m) /\ f[m] \in Quotients
    BY <1>2, <1>3, <2>1, PoolCostIs
  <2>3. PICK p \in Points(table) : p.model = m
    BY <1>4
  <2>4. p.cost = f[m]
    BY <2>2, <2>3, PointsAre
  <2>5. PICK i \in 1 .. n : AtMost(front[i].cost, p.cost)
    BY <1>7
  <2>6. AtMost(front[1].cost, front[i].cost)
    BY <1>7, <1>8, RisesWeakly
  <2>. QED
    BY <1>8, <2>2, <2>4, <2>5, <2>6, AtMostIsTransitive
<1>10. f \in [Fixed -> Quotients]
  <2>1. f = [m \in Fixed |-> f[m]]
    BY <1>2
  <2>. QED
    BY <1>9, <2>1
<1>11. AtMost(front[1].cost, Mean(f))
  BY <1>5, <1>8, <1>9, <1>10, MeanIsWithin
<1>. QED
  BY <1>1, <1>3, <1>8, <1>11

LEMMA OracleIsWithinReach ==
  ASSUME ReportAssumption, ReportShape PROVE OracleIsAchievable
<1>1. PICK table : table = SampleCostTable
  OBVIOUS
<1>2. (\A m \in Fixed : Scored(m) = Evaluable) /\ Evaluable /= {}
        => AtMost(Accuracy(BestSingle(table)), OracleAccuracy)
  BY <1>1, OracleIsBest
<1>3. RandomAccuracy /= NoValue => AtMost(RandomAccuracy, Accuracy(BestSingle(table)))
  BY <1>1, RandomIsNoBetter
<1>4. \A m \in Fixed : Right(m) = Evaluable /\ Evaluable /= {}
        /\ OracleCost(table) /= NoValue /\ DOMAIN table[m] = Evaluable
          => AtMost(OracleCost(table), PoolCost(table, m))
  BY <1>1, OracleCostsNoMore
<1>5. (\A m \in Fixed : Scored(m) = Evaluable)
        => \A v \in Fusion : HeadroomCaptured(table, v) /= NoValue =>
             (Less(<<1, 1>>, HeadroomCaptured(table, v)) <=> Less(OracleAccuracy, Accuracy(v)))
  BY <1>1, HeadroomIs
<1>6. \A m \in Fixed :
        (/\ Scored(m) = Evaluable /\ Evaluable = DOMAIN table[m] /\ Evaluable /= {}
         /\ \A s \in Evaluable : \A n \in Priced(table, s) \ {m} : Less(table[m][s], table[n][s]))
        => OracleAccuracy[1] = Cardinality(Right(m)) + Cardinality(Routable(table))
  BY <1>1, RoutableIs
<1>7. RandomCost(table) /= NoValue
        => AtMost(Head(ParetoFront(table)).cost, RandomCost(table))
  BY <1>1, RandomIsNoCheaper
<1>. QED
  BY <1>1, <1>2, <1>3, <1>4, <1>5, <1>6, <1>7 DEF OracleIsAchievable

\* The Inspect report adds up after every step: its samples and its costs, its
\* verdicts on the variants, and its baselines (inspect_report.py:319-350, 462-567,
\* 677-914).
THEOREM InspectDoesAddUp == ReportSpec => []InspectAddsUp
<1>1. ReportInit => ReportShape
  BY ReportStart
<1>2. ReportShape /\ [ReportNext]_reportVars => ReportShape'
  BY ReportAssumption, ReportStep
<1>3. ReportShape => InspectAddsUp
  BY ReportAssumption, SamplesDoAddUp, CostsAreDoneOnce, VerdictsDoAreFair,
     OracleIsWithinReach DEF InspectAddsUp
<1>. QED
  BY <1>1, <1>2, <1>3, PTL DEF ReportSpec
=============================================================================
