---------------------------- MODULE OfflineProofs ----------------------------
(***************************************************************************)
(* The programs beside the service, for any trajectories, metrics and      *)
(* samples: the promotion gate, the stability index and the evaluations.   *)
(*                                                                         *)
(* The index and the calibration report promise that a sum over the bins   *)
(* is the number of the samples.  SumFunction is a fold, a function chosen *)
(* to satisfy a recursive equation; the first part proves that there is    *)
(* one, by an induction on the number of indices, and how the sum behaves. *)
(***************************************************************************)
EXTENDS Offline, AttackSuiteProofs, WellFoundedInduction

(***************************************************************************)
(* Induction over sets.                                                    *)
(***************************************************************************)

LEMMA NatInductionOnSets ==
  ASSUME NEW T \in SUBSET Nat, 0 \in T, \A n \in T : n + 1 \in T
  PROVE  T = Nat
<1> DEFINE Out == Nat \ T
<1>1. SUFFICES ASSUME Out # {} PROVE FALSE
  OBVIOUS
<1>2. PICK n \in Out : \A m \in Out : ~ (<<m, n>> \in OpToRel(<, Nat))
  BY ONLY <1>1, WFMin, NatLessThanWellFounded, Out \subseteq Nat
<1>3. \A m \in Out : ~ (m < n)
  BY <1>2 DEF OpToRel
<1>4. n \in Nat /\ n # 0 /\ n - 1 \in Nat
  OBVIOUS
<1>5. n - 1 \in T
  BY <1>3, <1>4
<1>6. (n - 1) + 1 \in T
  BY <1>5
<1>7. QED
  BY <1>4, <1>6

LEMMA FiniteInduction ==
  ASSUME NEW D, IsFiniteSet(D), NEW Good,
         {} \in Good,
         \A s \in SUBSET D : s # {} /\ (\A x \in s : s \ {x} \in Good) => s \in Good
  PROVE  \A s \in SUBSET D : s \in Good
<1> DEFINE T == {n \in Nat : \A s \in SUBSET D : Cardinality(s) = n => s \in Good}
<1>1. \A s \in SUBSET D : IsFiniteSet(s) /\ Cardinality(s) \in Nat
  BY FS_Subset, FS_CardinalityType
<1>2. 0 \in T
  BY <1>1, FS_EmptySet
<1>3. ASSUME NEW n \in T PROVE n + 1 \in T
  <2>1. ASSUME NEW s \in SUBSET D, Cardinality(s) = n + 1 PROVE s \in Good
    <3>1. n \in Nat
      OBVIOUS
    <3>2. s # {}
      <4>1. Cardinality({}) = 0
        BY FS_EmptySet
      <4>2. QED
        BY <2>1, <3>1, <4>1
    <3>3. ASSUME NEW x \in s PROVE s \ {x} \in Good
      <4>1. s \ {x} \in SUBSET D /\ Cardinality(s \ {x}) = n
        BY <1>1, <2>1, <3>1, FS_RemoveElement
      <4>2. QED
        BY <4>1
    <3>4. QED
      BY <3>2, <3>3
  <2>2. QED
    BY <2>1
<1>4. T = Nat
  <2> HIDE DEF T
  <2>1. T \in SUBSET Nat
    BY DEF T
  <2>2. QED
    BY ONLY <1>2, <1>3, <2>1, NatInductionOnSets
<1>5. QED
  BY <1>1, <1>4

\* A finite set of integers, if not empty, has a least element, and Min is one.
LEMMA MinIsLeast ==
  ASSUME NEW S \in SUBSET Int, IsFiniteSet(S), S # {}
  PROVE  Min(S) \in S /\ \A y \in S : Min(S) <= y
<1> DEFINE Good == {s \in SUBSET S : s # {} => \E x \in s : \A y \in s : x <= y}
<1>1. {} \in Good
  OBVIOUS
<1>2. ASSUME NEW s \in SUBSET S, s # {}, \A z \in s : s \ {z} \in Good PROVE s \in Good
  <2>1. PICK z \in s : s \ {z} \in Good
    BY <1>2
  <2>2. CASE s = {z}
    <3>1. \A y \in s : z <= y
      BY <2>2
    <3>2. QED
      BY <3>1
  <2>3. CASE s # {z}
    <3>1. PICK x \in s \ {z} : \A y \in s \ {z} : x <= y
      BY <2>1, <2>3
    <3>2. CASE x <= z
      BY <3>1, <3>2
    <3>3. CASE ~ (x <= z)
      <4>1. \A y \in s : z <= y
        BY <3>1, <3>3
      <4>2. QED
        BY <4>1
    <3>4. QED
      BY <3>2, <3>3
  <2>4. QED
    BY <2>2, <2>3
<1>3. S \in Good
  <2> HIDE DEF Good
  <2>1. \A s \in SUBSET S : s \in Good
    BY ONLY <1>1, <1>2, FiniteInduction, IsFiniteSet(S)
  <2>2. QED
    BY <2>1
<1>4. \E x \in S : \A y \in S : x <= y
  BY <1>3
<1>5. QED
  BY <1>4 DEF Min

\* The same of the greatest, through the opposite numbers.
LEMMA MaxIsGreatest ==
  ASSUME NEW S \in SUBSET Int, IsFiniteSet(S), S # {}
  PROVE  Max(S) \in S /\ \A y \in S : Max(S) >= y
<1> DEFINE Good == {s \in SUBSET S : s # {} => \E x \in s : \A y \in s : x >= y}
<1>1. {} \in Good
  OBVIOUS
<1>2. ASSUME NEW s \in SUBSET S, s # {}, \A z \in s : s \ {z} \in Good PROVE s \in Good
  <2>1. PICK z \in s : s \ {z} \in Good
    BY <1>2
  <2>2. CASE s = {z}
    <3>1. \A y \in s : z >= y
      BY <2>2
    <3>2. QED
      BY <3>1
  <2>3. CASE s # {z}
    <3>1. PICK x \in s \ {z} : \A y \in s \ {z} : x >= y
      BY <2>1, <2>3
    <3>2. CASE x >= z
      BY <3>1, <3>2
    <3>3. CASE ~ (x >= z)
      <4>1. \A y \in s : z >= y
        BY <3>1, <3>3
      <4>2. QED
        BY <4>1
    <3>4. QED
      BY <3>2, <3>3
  <2>4. QED
    BY <2>2, <2>3
<1>3. S \in Good
  <2> HIDE DEF Good
  <2>1. \A s \in SUBSET S : s \in Good
    BY ONLY <1>1, <1>2, FiniteInduction, IsFiniteSet(S)
  <2>2. QED
    BY <2>1
<1>4. \E x \in S : \A y \in S : x >= y
  BY <1>3
<1>5. QED
  BY <1>4 DEF Max

(***************************************************************************)
(* Sums of finite functions.                                               *)
(***************************************************************************)

\* One step of the fold's recursion, over the partial sums in sums.
Peeled(f, sums, s) ==
  IF s = {} THEN 0
  ELSE LET x == CHOOSE x \in s : TRUE IN f[x] + sums[s \ {x}]

PartialSums(f) ==
  CHOOSE sums : sums = [s \in SUBSET DOMAIN f |-> Peeled(f, sums, s)]

LEMMA SumIsAPartialSum ==
  ASSUME NEW f
  PROVE  SumFunction(f) = PartialSums(f)[DOMAIN f]
BY DEF SumFunction, SumFunctionOnSet, FoldFunctionOnSet, MapThenFoldSet, PartialSums, Peeled

\* One element of s is peeled off, the same one for any f and any sums.
LEMMA PeeledElement ==
  ASSUME NEW s, s # {}
  PROVE  \E x \in s : \A f, sums : Peeled(f, sums, s) = f[x] + sums[s \ {x}]
<1> DEFINE x == CHOOSE x \in s : TRUE
<1>1. x \in s
  OBVIOUS
<1>2. \A f, sums : Peeled(f, sums, s) = f[x] + sums[s \ {x}]
  BY DEF Peeled
<1> HIDE DEF x
<1>3. QED
  BY <1>1, <1>2

LEMMA PeeledType ==
  ASSUME NEW D, NEW f \in [D -> Int], NEW sums \in [SUBSET D -> Int], NEW s \in SUBSET D
  PROVE  Peeled(f, sums, s) \in Int
<1>1. CASE s = {}
  BY <1>1 DEF Peeled
<1>2. CASE s # {}
  <2>1. PICK x \in s : Peeled(f, sums, s) = f[x] + sums[s \ {x}]
    BY <1>2, PeeledElement
  <2>2. f[x] \in Int /\ sums[s \ {x}] \in Int
    BY <2>1
  <2>3. QED
    BY <2>1, <2>2
<1>3. QED
  BY <1>1, <1>2

LEMMA PartialSumsExist ==
  ASSUME NEW D, IsFiniteSet(D), NEW f \in [D -> Int]
  PROVE  /\ PartialSums(f) \in [SUBSET D -> Int]
         /\ \A s \in SUBSET D : PartialSums(f)[s] = Peeled(f, PartialSums(f), s)
<1> DEFINE UpTo(sums, n) ==
             \A s \in SUBSET D : Cardinality(s) <= n => sums[s] = Peeled(f, sums, s)
<1> DEFINE T == {n \in Nat : \E sums \in [SUBSET D -> Int] : UpTo(sums, n)}
<1>1. \A s \in SUBSET D : IsFiniteSet(s) /\ Cardinality(s) \in Nat
                          /\ Cardinality(s) <= Cardinality(D)
  BY FS_Subset, FS_CardinalityType
<1>2. 0 \in T
  <2> DEFINE sums == [s \in SUBSET D |-> 0]
  <2>1. sums \in [SUBSET D -> Int]
    OBVIOUS
  <2>2. ASSUME NEW s \in SUBSET D, Cardinality(s) <= 0 PROVE sums[s] = Peeled(f, sums, s)
    <3>1. s = {}
      BY <1>1, <2>2, FS_EmptySet
    <3>2. QED
      BY <3>1 DEF Peeled
  <2>3. QED
    BY <2>1, <2>2
<1>3. ASSUME NEW n \in T PROVE n + 1 \in T
  <2>1. PICK sums \in [SUBSET D -> Int] : UpTo(sums, n)
    OBVIOUS
  <2> DEFINE more == [s \in SUBSET D |->
                        IF Cardinality(s) <= n THEN sums[s] ELSE Peeled(f, sums, s)]
  <2>2. more \in [SUBSET D -> Int]
    BY PeeledType
  <2>3. ASSUME NEW s \in SUBSET D, Cardinality(s) <= n + 1
        PROVE  more[s] = Peeled(f, sums, s) /\ Peeled(f, more, s) = Peeled(f, sums, s)
    <3>1. more[s] = Peeled(f, sums, s)
      BY <2>1
    <3>2. CASE s = {}
      BY <3>1, <3>2 DEF Peeled
    <3>3. CASE s # {}
      <4>1. PICK x \in s : \A g, partial : Peeled(g, partial, s) = g[x] + partial[s \ {x}]
        BY <3>3, PeeledElement
      <4>2. s \ {x} \in SUBSET D /\ Cardinality(s \ {x}) = Cardinality(s) - 1
        BY <1>1, <4>1, FS_RemoveElement
      <4>3. Cardinality(s \ {x}) <= n
        BY <1>1, <2>3, <4>2
      <4>4. more[s \ {x}] = sums[s \ {x}]
        BY <4>2, <4>3
      <4>5. QED
        BY <3>1, <4>1, <4>4
    <3>4. QED
      BY <3>2, <3>3
  <2>4. UpTo(more, n + 1)
    BY <2>3
  <2>5. n + 1 \in Nat
    OBVIOUS
  <2> HIDE DEF UpTo, more
  <2>6. QED
    BY <2>2, <2>4, <2>5
<1>4. T = Nat
  <2> HIDE DEF T
  <2>1. T \in SUBSET Nat
    BY DEF T
  <2>2. QED
    BY ONLY <1>2, <1>3, <2>1, NatInductionOnSets
<1>5. PICK sums \in [SUBSET D -> Int] : UpTo(sums, Cardinality(D))
  BY <1>4, FS_CardinalityType
<1>6. sums = [s \in SUBSET DOMAIN f |-> Peeled(f, sums, s)]
  BY <1>1, <1>5
<1>7. PartialSums(f) = [s \in SUBSET DOMAIN f |-> Peeled(f, PartialSums(f), s)]
  BY <1>6 DEF PartialSums
<1>8. \A s \in SUBSET D : PartialSums(f)[s] = Peeled(f, PartialSums(f), s)
  BY <1>7
<1>9. \A s \in SUBSET D : PartialSums(f)[s] \in Int
  <2> DEFINE Good == {s \in SUBSET D : PartialSums(f)[s] \in Int}
  <2>1. {} \in Good
    <3>1. Peeled(f, PartialSums(f), {}) = 0
      BY DEF Peeled
    <3>2. PartialSums(f)[{}] = 0
      BY <1>8, <3>1
    <3>3. QED
      BY <3>2
  <2>2. ASSUME NEW s \in SUBSET D, s # {}, \A x \in s : s \ {x} \in Good PROVE s \in Good
    <3>1. PICK x \in s : \A g, partial : Peeled(g, partial, s) = g[x] + partial[s \ {x}]
      BY <2>2, PeeledElement
    <3>2. s \ {x} \in Good
      BY <2>2
    <3>3. f[x] \in Int /\ PartialSums(f)[s \ {x}] \in Int
      BY <3>2
    <3>4. PartialSums(f)[s] \in Int
      BY <1>8, <3>1, <3>3
    <3>5. QED
      BY <3>4
  <2> HIDE DEF Good
  <2>3. \A s \in SUBSET D : s \in Good
    BY ONLY <2>1, <2>2, FiniteInduction, IsFiniteSet(D)
  <2>4. QED
    BY <2>3 DEF Good
<1>10. PartialSums(f) \in [SUBSET D -> Int]
  BY <1>7, <1>9
<1>11. QED
  BY <1>8, <1>10

\* A sum is an integer, and two sums over the same indices that differ by the
\* difference of their summands.
LEMMA SumType ==
  ASSUME NEW D, IsFiniteSet(D), NEW f \in [D -> Int]
  PROVE  SumFunction(f) \in Int
<1>1. SumFunction(f) = PartialSums(f)[D]
  BY SumIsAPartialSum
<1>2. PartialSums(f) \in [SUBSET D -> Int]
  BY PartialSumsExist
<1>3. QED
  BY <1>1, <1>2

\* The recursion, for a function on D: nothing is the sum over no index, and
\* one index of s can be split off, the same one for any two functions.
LEMMA SumOverNothing ==
  ASSUME NEW D, IsFiniteSet(D), NEW f \in [D -> Int]
  PROVE  PartialSums(f)[{}] = 0
<1>1. Peeled(f, PartialSums(f), {}) = 0
  BY DEF Peeled
<1>2. QED
  BY <1>1, PartialSumsExist

LEMMA SumSplits ==
  ASSUME NEW D, IsFiniteSet(D), NEW f \in [D -> Int], NEW g \in [D -> Int],
         NEW s \in SUBSET D, s # {}
  PROVE  \E x \in s : /\ PartialSums(f)[s] = f[x] + PartialSums(f)[s \ {x}]
                      /\ PartialSums(g)[s] = g[x] + PartialSums(g)[s \ {x}]
<1>1. PICK x \in s : \A h, sums : Peeled(h, sums, s) = h[x] + sums[s \ {x}]
  BY PeeledElement
<1>2. PartialSums(f)[s] = Peeled(f, PartialSums(f), s)
  BY PartialSumsExist
<1>3. PartialSums(g)[s] = Peeled(g, PartialSums(g), s)
  BY PartialSumsExist
<1>4. QED
  BY <1>1, <1>2, <1>3

LEMMA SumOfZeros ==
  ASSUME NEW D, IsFiniteSet(D)
  PROVE  SumFunction([d \in D |-> 0]) = 0
<1> DEFINE f == [d \in D |-> 0]
           Good == {s \in SUBSET D : PartialSums(f)[s] = 0}
<1>1. f \in [D -> Int]
  OBVIOUS
<1>2. {} \in Good
  BY <1>1, SumOverNothing
<1>3. ASSUME NEW s \in SUBSET D, s # {}, \A x \in s : s \ {x} \in Good PROVE s \in Good
  <2>1. PICK x \in s : PartialSums(f)[s] = f[x] + PartialSums(f)[s \ {x}]
    <3> HIDE DEF f
    <3>1. QED
      BY <1>1, <1>3, SumSplits
  <2>2. PartialSums(f)[s \ {x}] = 0 /\ f[x] = 0
    BY <1>3
  <2>3. PartialSums(f)[s] = 0
    BY <2>1, <2>2
  <2>4. QED
    BY <2>3
<1>4. D \in Good
  <2> HIDE DEF Good
  <2>1. \A s \in SUBSET D : s \in Good
    BY ONLY <1>2, <1>3, FiniteInduction, IsFiniteSet(D)
  <2>2. QED
    BY <2>1
<1>5. SumFunction(f) = PartialSums(f)[D]
  BY SumIsAPartialSum
<1>6. QED
  BY <1>4, <1>5

\* One more at one index is one more in the sum.
LEMMA SumOfOneMore ==
  ASSUME NEW D, IsFiniteSet(D), NEW f \in [D -> Int], NEW b \in D
  PROVE  SumFunction([f EXCEPT ![b] = @ + 1]) = SumFunction(f) + 1
<1> DEFINE g == [f EXCEPT ![b] = @ + 1]
           More(s) == IF b \in s THEN 1 ELSE 0
           Good == {s \in SUBSET D : PartialSums(g)[s] = PartialSums(f)[s] + More(s)}
<1>1. g \in [D -> Int] /\ g[b] = f[b] + 1 /\ \A x \in D : x # b => g[x] = f[x]
  OBVIOUS
<1> HIDE DEF g
<1>2. {} \in Good
  <2>1. PartialSums(f)[{}] = 0 /\ PartialSums(g)[{}] = 0
    BY <1>1, SumOverNothing
  <2>2. QED
    BY <2>1
<1>3. ASSUME NEW s \in SUBSET D, s # {}, \A x \in s : s \ {x} \in Good PROVE s \in Good
  <2>1. PICK x \in s : /\ PartialSums(f)[s] = f[x] + PartialSums(f)[s \ {x}]
                       /\ PartialSums(g)[s] = g[x] + PartialSums(g)[s \ {x}]
    BY <1>1, <1>3, SumSplits
  <2>2. PartialSums(g)[s \ {x}] = PartialSums(f)[s \ {x}] + More(s \ {x})
    BY <1>3
  <2>3. f[x] \in Int /\ PartialSums(f)[s \ {x}] \in Int
    <3>1. PartialSums(f) \in [SUBSET D -> Int]
      BY PartialSumsExist
    <3>2. QED
      BY <3>1
  <2>4. g[x] + More(s \ {x}) = f[x] + More(s)
    BY <1>1, <2>3
  <2>5. More(s) \in Int /\ More(s \ {x}) \in Int /\ g[x] \in Int
    BY <1>1
  <2>6. PartialSums(g)[s] = PartialSums(f)[s] + More(s)
    <3> HIDE DEF More
    <3>1. QED
      BY <2>1, <2>2, <2>3, <2>4, <2>5
  <2>7. QED
    BY <2>6
<1>4. D \in Good
  <2> HIDE DEF Good
  <2>1. \A s \in SUBSET D : s \in Good
    BY ONLY <1>2, <1>3, FiniteInduction, IsFiniteSet(D)
  <2>2. QED
    BY <2>1
<1>5. SumFunction(f) = PartialSums(f)[D] /\ SumFunction(g) = PartialSums(g)[D]
  BY <1>1, SumIsAPartialSum
<1>6. SumFunction(g) = SumFunction(f) + 1
  BY <1>4, <1>5
<1>7. QED
  BY <1>6 DEF g

\* The sizes of disjoint sets sum up to the size of their union.
Partition(A, D, J) ==
  /\ \A b, c \in D : b # c => A[b] \cap A[c] = {}
  /\ \A i : i \in J <=> \E b \in D : i \in A[b]

Sizes(A, D, f) == \A b \in D : f[b] = Cardinality(A[b])

LEMMA SumOfSizes ==
  ASSUME NEW D, IsFiniteSet(D), NEW All, IsFiniteSet(All), NEW A \in [D -> SUBSET All],
         NEW J, Partition(A, D, J), NEW f \in [D -> Int], Sizes(A, D, f)
  PROVE  SumFunction(f) = Cardinality(J)
<1> DEFINE Joint(s) == UNION {A[b] : b \in s}
           Good == {s \in SUBSET D : PartialSums(f)[s] = Cardinality(Joint(s))}
<1>1. \A b \in D : IsFiniteSet(A[b]) /\ Cardinality(A[b]) \in Nat
  BY FS_Subset, FS_CardinalityType
<1>2. {} \in Good
  <2>1. Joint({}) = {} /\ Cardinality({}) = 0
    BY FS_EmptySet
  <2>2. PartialSums(f)[{}] = 0
    BY SumOverNothing
  <2>3. QED
    BY <2>1, <2>2
<1>3. ASSUME NEW s \in SUBSET D, s # {}, \A x \in s : s \ {x} \in Good PROVE s \in Good
  <2>1. PICK x \in s : PartialSums(f)[s] = f[x] + PartialSums(f)[s \ {x}]
    BY <1>3, SumSplits
  <2>2. PartialSums(f)[s \ {x}] = Cardinality(Joint(s \ {x}))
    BY <1>3
  <2>3. Joint(s) = Joint(s \ {x}) \cup A[x] /\ Joint(s \ {x}) \cap A[x] = {}
    BY DEF Partition
  <2>4. IsFiniteSet(Joint(s \ {x})) /\ IsFiniteSet(A[x])
    <3>1. Joint(s \ {x}) \in SUBSET All
      OBVIOUS
    <3>2. QED
      BY <1>1, <3>1, FS_Subset
  <2>5. Cardinality(Joint(s)) = Cardinality(Joint(s \ {x})) + Cardinality(A[x])
    <3> HIDE DEF Joint
    <3>1. Cardinality(Joint(s \ {x}) \cap A[x]) = 0
      BY <2>3, FS_EmptySet
    <3>2. Cardinality(Joint(s \ {x})) \in Nat /\ Cardinality(A[x]) \in Nat
      BY <2>4, FS_CardinalityType
    <3>3. Cardinality(Joint(s \ {x}) \cup A[x]) =
            Cardinality(Joint(s \ {x})) + Cardinality(A[x]) - Cardinality(Joint(s \ {x}) \cap A[x])
      BY ONLY <2>4, FS_Union
    <3>4. Cardinality(Joint(s)) = Cardinality(Joint(s \ {x}) \cup A[x])
      BY ONLY <2>3
    <3>5. QED
      BY ONLY <3>1, <3>2, <3>3, <3>4
  <2>6. Cardinality(Joint(s \ {x})) \in Nat /\ f[x] = Cardinality(A[x]) /\ f[x] \in Nat
    BY <1>1, <2>4, FS_CardinalityType DEF Sizes
  <2>7. PartialSums(f)[s] = Cardinality(Joint(s))
    <3> HIDE DEF Joint
    <3>1. QED
      BY <2>1, <2>2, <2>5, <2>6
  <2>8. QED
    BY <2>7
<1>4. D \in Good
  <2> HIDE DEF Good, Joint
  <2>1. \A s \in SUBSET D : s \in Good
    BY ONLY <1>2, <1>3, FiniteInduction, IsFiniteSet(D)
  <2>2. QED
    BY <2>1
<1>5. SumFunction(f) = PartialSums(f)[D]
  BY SumIsAPartialSum
<1>6. J = Joint(D)
  BY DEF Partition
<1>7. QED
  BY <1>4, <1>5, <1>6

(***************************************************************************)
(* The promotion gate: being at least as good as the champion is           *)
(* transitive over the challengers it lets through, whichever classes      *)
(* each of them measures.                                                  *)
(***************************************************************************)

\* What evaluate_promotion compares, as a relation between any two metrics.
NoWorse(new, old) ==
  /\ \A c \in DOMAIN old.recall : c \in DOMAIN new.recall /\ new.recall[c] >= old.recall[c]
  /\ new.false_positives <= old.false_positives

\* The recalls and the rate of a metrics record are integers.
LEMMA MetricsAreIntegers ==
  ASSUME NEW m \in Metrics
  PROVE  m.false_positives \in Int /\ \A c \in DOMAIN m.recall : m.recall[c] \in Int
<1>1. PICK measured \in SUBSET Classes : m.recall \in [measured -> Levels]
  BY DEF Metrics
<1>2. \A c \in DOMAIN m.recall : m.recall[c] \in Levels
  BY <1>1
<1>3. m.false_positives \in Levels
  BY DEF Metrics
<1>4. QED
  BY <1>2, <1>3, StatisticsAssumption DEF StatisticsAssumption

LEMMA NoWorseTransitive ==
  ASSUME NEW a \in Metrics, NEW b \in Metrics, NEW c \in Metrics, NoWorse(a, b), NoWorse(b, c)
  PROVE  NoWorse(a, c)
<1>1. a.false_positives <= c.false_positives
  BY MetricsAreIntegers DEF NoWorse
<1>2. ASSUME NEW x \in DOMAIN c.recall
      PROVE  x \in DOMAIN a.recall /\ a.recall[x] >= c.recall[x]
  <2>1. x \in DOMAIN b.recall /\ b.recall[x] >= c.recall[x]
    BY DEF NoWorse
  <2>2. x \in DOMAIN a.recall /\ a.recall[x] >= b.recall[x]
    BY <2>1 DEF NoWorse
  <2>3. a.recall[x] \in Int /\ b.recall[x] \in Int /\ c.recall[x] \in Int
    BY <2>1, <2>2, MetricsAreIntegers
  <2>4. QED
    BY <2>1, <2>2, <2>3
<1>3. QED
  BY <1>1, <1>2 DEF NoWorse

GateInv == MetricsOK /\ NoWorse(champion, origin)

LEMMA GateInvariant == StatisticsSpec => []GateInv
<1>1. ASSUME StatisticsInit PROVE GateInv
  <2>1. champion \in Metrics /\ origin = champion
    BY <1>1 DEF StatisticsInit
  <2>2. QED
    BY <2>1, MetricsAreIntegers DEF GateInv, MetricsOK, NoWorse
<1>2. ASSUME GateInv, [StatisticsNext]_statisticsVars PROVE GateInv'
  <2>1. CASE Challenge
    <3>1. PICK challenger \in Metrics :
            ShouldPromote(champion, challenger) /\ champion' = challenger
      BY <2>1 DEF Challenge
    <3>2. NoWorse(challenger, champion) /\ origin' = origin
      BY <2>1, <3>1 DEF ShouldPromote, NoWorse, Challenge
    <3>3. NoWorse(challenger, origin)
      BY <1>2, <3>1, <3>2, NoWorseTransitive DEF GateInv, MetricsOK
    <3>4. QED
      BY <1>2, <3>1, <3>2, <3>3 DEF GateInv, MetricsOK
  <2>2. CASE ComputePsi
    BY <1>2, <2>2 DEF ComputePsi, GateInv, MetricsOK
  <2>3. CASE UNCHANGED statisticsVars
    BY <1>2, <2>3 DEF statisticsVars, GateInv, MetricsOK
  <2>4. QED
    BY <1>2, <2>1, <2>2, <2>3 DEF StatisticsNext
<1>3. QED
  BY <1>1, <1>2, PTL DEF StatisticsSpec

\* The metrics keep their type whichever challengers are promoted.
THEOREM MetricsKeepTheirType == StatisticsSpec => []MetricsOK
BY GateInvariant, PTL DEF GateInv

\* No sequence of promotions loses an attack class, lowers a recall or raises
\* the false-positive rate of the first champion (promotion_gate.py:46-70).
THEOREM NoRegression == StatisticsSpec => []PromotionNeverRegresses
<1>1. GateInv => PromotionNeverRegresses
  BY DEF GateInv, NoWorse, PromotionNeverRegresses
<1>2. QED
  BY <1>1, GateInvariant, PTL

(***************************************************************************)
(* The stability index.                                                    *)
(***************************************************************************)

\* Edges that never fall do not fall from the least to the greatest.
LEMMA RisingThroughout ==
  ASSUME NEW edges \in [0..PsiBins -> Int], NeverFall(edges),
         NEW i \in 0..PsiBins, NEW j \in 0..PsiBins, i <= j
  PROVE  edges[i] <= edges[j]
<1> DEFINE Low == {k \in i..PsiBins : edges[k] < edges[i]}
<1>0. PsiBins \in Nat \ {0}
  BY StatisticsAssumption DEF StatisticsAssumption
<1>1. SUFFICES ASSUME Low # {} PROVE FALSE
  BY <1>0
<1>2. Low \in SUBSET Int /\ IsFiniteSet(Low)
  <2>1. IsFiniteSet(i..PsiBins) /\ Low \in SUBSET (i..PsiBins)
    BY <1>0, FS_Interval
  <2> HIDE DEF Low
  <2>2. i..PsiBins \in SUBSET Int
    BY <1>0
  <2>3. QED
    BY <2>1, <2>2, FS_Subset
<1>3. PICK k \in Low : \A m \in Low : k <= m
  BY <1>1, <1>2, MinIsLeast
<1>4. k \in i..PsiBins /\ edges[k] < edges[i] /\ k # i /\ k \in Int
  BY <1>0
<1>5. k - 1 \in i..PsiBins /\ k \in 1..PsiBins /\ k - 1 \in 0..PsiBins
  BY <1>0, <1>4
<1>6. edges[k - 1] <= edges[k]
  BY <1>5 DEF NeverFall
<1>7. edges[k - 1] < edges[i]
  BY <1>4, <1>5, <1>6
<1>8. k - 1 \in Low
  BY <1>5, <1>7
<1>9. QED
  BY <1>3, <1>4, <1>8

LEMMA BinsAreDisjoint ==
  ASSUME NEW edges \in [0..PsiBins -> Int], NeverFall(edges), NEW v \in Int,
         NEW b \in 1..PsiBins, NEW c \in 1..PsiBins, InBin(edges, b, v), InBin(edges, c, v)
  PROVE  b = c
<1>0. PsiBins \in Nat \ {0}
  BY StatisticsAssumption DEF StatisticsAssumption
<1>1. ASSUME NEW x \in 1..PsiBins, NEW y \in 1..PsiBins, x < y,
             InBin(edges, x, v), InBin(edges, y, v)
      PROVE  FALSE
  <2>1. x # PsiBins /\ x \in 0..PsiBins /\ y - 1 \in 0..PsiBins /\ x <= y - 1
    BY <1>0, <1>1
  <2>2. edges[x] <= edges[y - 1]
    BY <2>1, RisingThroughout
  <2>3. v < edges[x] /\ edges[y - 1] <= v
    BY <1>1, <2>1 DEF InBin
  <2>4. edges[x] \in Int /\ edges[y - 1] \in Int
    BY <2>1
  <2>5. QED
    BY <2>2, <2>3, <2>4
<1>2. b \in Int /\ c \in Int
  BY <1>0
<1>3. ~ (b < c) /\ ~ (c < b)
  BY <1>1
<1>4. QED
  BY <1>2, <1>3

LEMMA SomeBin ==
  ASSUME NEW edges \in [0..PsiBins -> Int], NeverFall(edges), NEW v \in Int,
         edges[0] <= v, v <= edges[PsiBins]
  PROVE  \E b \in 1..PsiBins : InBin(edges, b, v)
<1> DEFINE Higher == {b \in 1..PsiBins : v < edges[b]}
<1>0. PsiBins \in Nat \ {0}
  BY StatisticsAssumption DEF StatisticsAssumption
<1>1. CASE Higher = {}
  <2>1. PsiBins \in 1..PsiBins /\ PsiBins - 1 \in 0..PsiBins /\ PsiBins \in 0..PsiBins
    BY <1>0
  <2>2. ~ (v < edges[PsiBins])
    BY <1>1, <2>1
  <2>3. edges[PsiBins] \in Int /\ edges[PsiBins - 1] \in Int
    BY <2>1
  <2>4. v = edges[PsiBins]
    BY <2>2, <2>3
  <2>5. edges[PsiBins - 1] <= edges[PsiBins]
    BY <2>1 DEF NeverFall
  <2>6. InBin(edges, PsiBins, v)
    BY <2>4, <2>5 DEF InBin
  <2>7. QED
    BY <2>1, <2>6
<1>2. CASE Higher # {}
  <2>1. Higher \in SUBSET Int /\ IsFiniteSet(Higher)
    <3>1. IsFiniteSet(1..PsiBins) /\ Higher \in SUBSET (1..PsiBins)
      BY <1>0, FS_Interval
    <3> HIDE DEF Higher
    <3>2. 1..PsiBins \in SUBSET Int
      BY <1>0
    <3>3. QED
      BY <3>1, <3>2, FS_Subset
  <2>2. PICK b \in Higher : \A m \in Higher : b <= m
    BY <1>2, <2>1, MinIsLeast
  <2>3. b \in 1..PsiBins /\ v < edges[b] /\ b - 1 \notin Higher
    BY <1>0, <2>2
  <2>4. edges[b - 1] <= v
    <3>1. CASE b = 1
      BY <3>1
    <3>2. CASE b # 1
      <4>1. b - 1 \in 1..PsiBins /\ b - 1 \in 0..PsiBins
        BY <1>0, <2>3, <3>2
      <4>2. ~ (v < edges[b - 1]) /\ edges[b - 1] \in Int
        BY <2>3, <4>1
      <4>3. QED
        BY <4>2
    <3>3. QED
      BY <3>1, <3>2
  <2>5. QED
    BY <2>3, <2>4 DEF InBin
<1>3. QED
  BY <1>1, <1>2

LEMMA FirstNumbers ==
  ASSUME NEW n \in Nat
  PROVE  IsFiniteSet(1..n) /\ Cardinality(1..n) = n
BY FS_Interval

\* Values above the first edge are all in the bins, except those above the last.
LEMMA BinsTakeTheRest ==
  ASSUME NEW edges \in [0..PsiBins -> Int], NeverFall(edges), NEW values \in Seq(Int),
         \A i \in DOMAIN values : edges[0] <= values[i]
  PROVE  SumFunction(Counts(edges, values)) =
           Len(values) - Cardinality(Above(values, edges[PsiBins]))
<1> DEFINE Here == DOMAIN values
           Bin == [b \in 1..PsiBins |-> {i \in Here : InBin(edges, b, values[i])}]
           Binned == UNION {Bin[b] : b \in 1..PsiBins}
           Left == Above(values, edges[PsiBins])
<1>0. PsiBins \in Nat \ {0} /\ PsiBins \in 0..PsiBins /\ edges[PsiBins] \in Int
  BY StatisticsAssumption DEF StatisticsAssumption
<1>1. IsFiniteSet(Here) /\ Cardinality(Here) = Len(values) /\ Len(values) \in Nat
  <2>1. Here = 1..Len(values) /\ Len(values) \in Nat
    OBVIOUS
  <2>2. QED
    BY ONLY <2>1, FirstNumbers
<1>2. Bin \in [1..PsiBins -> SUBSET Here]
  OBVIOUS
<1>3. Partition(Bin, 1..PsiBins, Binned)
  <2>1. \A i \in Here : values[i] \in Int
    OBVIOUS
  <2>2. \A b, c \in 1..PsiBins : b # c => Bin[b] \cap Bin[c] = {}
    BY <2>1, BinsAreDisjoint
  <2>3. \A i : i \in Binned <=> \E b \in 1..PsiBins : i \in Bin[b]
    OBVIOUS
  <2> HIDE DEF Bin, Binned
  <2>4. QED
    BY <2>2, <2>3 DEF Partition
<1>4. Counts(edges, values) = [b \in 1..PsiBins |-> Cardinality(Bin[b])]
  BY DEF Counts
<1>5. SumFunction(Counts(edges, values)) = Cardinality(Binned)
  <2>1. IsFiniteSet(1..PsiBins)
    BY <1>0, FS_Interval
  <2> DEFINE f == Counts(edges, values)
  <2>2. f \in [1..PsiBins -> Int] /\ Sizes(Bin, 1..PsiBins, f)
    <3>1. \A b \in 1..PsiBins : Cardinality(Bin[b]) \in Int
      BY <1>1, <1>2, FS_Subset, FS_CardinalityType
    <3>2. QED
      BY <1>4, <3>1 DEF Sizes
  <2>3. IsFiniteSet(Here)
    BY <1>1
  <2> HIDE DEF Bin, Here, Binned, f
  <2>4. SumFunction(f) = Cardinality(Binned)
    BY ONLY <1>2, <1>3, <2>1, <2>2, <2>3, SumOfSizes
  <2>5. QED
    BY <2>4 DEF f
<1>6. \A i \in Here : i \in Binned <=> i \notin Left
  <2>1. ASSUME NEW i \in Here PROVE i \in Binned <=> i \notin Left
    <3>1. values[i] \in Int /\ edges[0] <= values[i]
      OBVIOUS
    <3>2. CASE values[i] <= edges[PsiBins]
      <4>1. i \notin Left
        BY <1>0, <3>1, <3>2 DEF Above
      <4>2. \E b \in 1..PsiBins : InBin(edges, b, values[i])
        BY <3>1, <3>2, SomeBin
      <4>3. QED
        BY <4>1, <4>2
    <3>3. CASE ~ (values[i] <= edges[PsiBins])
      <4>1. i \in Left
        BY <1>0, <3>1, <3>3 DEF Above
      <4>2. ASSUME NEW b \in 1..PsiBins, InBin(edges, b, values[i]) PROVE FALSE
        <5>1. b \in 0..PsiBins /\ b <= PsiBins
          BY <1>0
        <5>2. values[i] <= edges[b] /\ edges[b] \in Int
          BY <3>1, <4>2, <5>1 DEF InBin
        <5>3. edges[b] <= edges[PsiBins]
          BY <1>0, <5>1, RisingThroughout
        <5>4. QED
          BY <1>0, <3>1, <3>3, <5>2, <5>3
      <4>3. QED
        BY <4>1, <4>2
    <3>4. QED
      BY <3>2, <3>3
  <2>2. QED
    BY <2>1
<1>7. Binned \in SUBSET Here /\ Left \in SUBSET Here
  BY DEF Above
<1> HIDE DEF Here, Binned, Left
<1>8. IsFiniteSet(Binned) /\ IsFiniteSet(Left)
  BY <1>1, <1>7, FS_Subset
<1>9. Binned \cup Left = Here /\ Binned \cap Left = {}
  BY <1>6, <1>7
<1>10. Cardinality(Binned \cup Left)
         = Cardinality(Binned) + Cardinality(Left) - Cardinality(Binned \cap Left)
  BY ONLY <1>8, FS_Union
<1>11. Cardinality({}) = 0 /\ Cardinality(Binned) \in Nat /\ Cardinality(Left) \in Nat
  BY <1>8, FS_EmptySet, FS_CardinalityType
<1>12. Cardinality(Binned \cup Left) = Cardinality(Here)
         /\ Cardinality(Binned \cap Left) = Cardinality({})
  BY ONLY <1>9
<1>13. Cardinality(Binned) = Len(values) - Cardinality(Left)
  BY ONLY <1>1, <1>10, <1>11, <1>12
<1>14. QED
  BY <1>5, <1>13 DEF Left

\* Division by a positive number, by its bounds.
LEMMA DivBounds ==
  ASSUME NEW x \in Int, NEW d \in Nat \ {0}
  PROVE  /\ x \div d \in Int
         /\ d * (x \div d) <= x
         /\ x < d * (x \div d) + d
OBVIOUS

LEMMA DivExact ==
  ASSUME NEW x \in Int, NEW d \in Nat \ {0}
  PROVE  (d * x) \div d = x
OBVIOUS

\* The range of a baseline holds its values.
LEMMA RangeHolds ==
  ASSUME NEW sample \in Samples, Len(sample) >= MinSamples
  PROVE  LET range == RangeOf(sample)
         IN  /\ range.lo \in Int /\ range.hi \in Int /\ range.lo <= range.hi
             /\ \A i \in DOMAIN sample : range.lo <= sample[i] /\ sample[i] <= range.hi
<1> DEFINE V == Values(sample)
<1>0. Widening \in Nat /\ MinSamples \in Nat \ {0} /\ sample \in Seq(Int)
  BY StatisticsAssumption DEF StatisticsAssumption
<1>1. V \in SUBSET Int /\ V # {} /\ \A i \in DOMAIN sample : sample[i] \in V
  <2>1. 1 \in DOMAIN sample
    BY <1>0
  <2>2. \A i \in DOMAIN sample : sample[i] \in Int
    BY <1>0
  <2>3. QED
    BY <2>1, <2>2 DEF Values
<1>2. IsFiniteSet(V)
  <2>1. sample \in Surjection(1..Len(sample), V)
    <3>1. sample \in [1..Len(sample) -> V]
      BY <1>0, <1>1
    <3>2. \A v \in V : \E i \in 1..Len(sample) : sample[i] = v
      BY <1>0 DEF Values
    <3> HIDE DEF V
    <3>3. QED
      BY <3>1, <3>2 DEF Surjection
  <2>2. IsFiniteSet(1..Len(sample))
    BY <1>0, FirstNumbers
  <2> HIDE DEF V
  <2>3. QED
    BY ONLY <2>1, <2>2, FS_Surjection
<1>3. Lowest(sample) = Min(V) /\ Highest(sample) \in V /\ \A w \in V : w <= Highest(sample)
  <2>1. Lowest(sample) = Min(V)
    BY DEF Lowest, Min
  <2> HIDE DEF V
  <2>2. Max(V) \in V /\ \A w \in V : Max(V) >= w
    BY ONLY <1>1, <1>2, MaxIsGreatest
  <2>3. \A w \in V : w <= Max(V)
    BY <1>1, <2>2
  <2>4. Highest(sample) = CHOOSE v \in V : \A w \in V : w <= v
    BY DEF Highest, V
  <2>5. QED
    BY ONLY <2>1, <2>2, <2>3, <2>4
<1>4. Lowest(sample) \in V /\ \A w \in V : Lowest(sample) <= w
  <2> HIDE DEF V
  <2>1. QED
    BY ONLY <1>1, <1>2, <1>3, MinIsLeast
<1> HIDE DEF V
<1>5. \A i \in DOMAIN sample : /\ sample[i] \in Int
                               /\ Lowest(sample) <= sample[i] /\ sample[i] <= Highest(sample)
  BY <1>1, <1>3, <1>4
<1>6. Lowest(sample) \in Int /\ Highest(sample) \in Int
  BY <1>1, <1>3, <1>4
<1>7. RangeOf(sample).lo \in Int /\ RangeOf(sample).hi \in Int
      /\ RangeOf(sample).lo <= Lowest(sample) /\ Highest(sample) <= RangeOf(sample).hi
  BY <1>0, <1>6 DEF RangeOf
<1>8. RangeOf(sample).lo <= RangeOf(sample).hi
  BY <1>3, <1>4, <1>6, <1>7
<1>9. \A i \in DOMAIN sample : RangeOf(sample).lo <= sample[i] /\ sample[i] <= RangeOf(sample).hi
  BY <1>5, <1>6, <1>7
<1>10. QED
  BY <1>7, <1>8, <1>9

\* The edges run from the least value to within the rounding error of the
\* greatest.
LEMMA EdgesRunThroughTheRange ==
  ASSUME NEW lo \in Int, NEW hi \in Int, NEW range, range.lo = lo, range.hi = hi,
         NEW error \in Errors
  PROVE  LET edges == Edges(range, error)
         IN  /\ edges \in [0..PsiBins -> Int]
             /\ edges[0] = lo /\ edges[PsiBins] >= hi - RoundingError
<1> DEFINE edges == Edges(range, error)
           width == hi - lo
           step(i) == (i * width) \div PsiBins
           off(i) == IF i = 0 THEN 0 ELSE error[i]
<1>0. PsiBins \in Nat \ {0} /\ RoundingError \in Nat /\ width \in Int
  BY StatisticsAssumption DEF StatisticsAssumption
<1>1. edges = [i \in 0..PsiBins |-> lo + step(i) + off(i)]
  BY DEF Edges
<1>2. ASSUME NEW i \in 0..PsiBins
      PROVE  step(i) \in Int /\ off(i) \in -RoundingError..RoundingError
  <2>1. i * width \in Int
    BY <1>0
  <2>2. step(i) \in Int
    BY <1>0, <2>1, DivBounds
  <2>3. off(i) \in -RoundingError..RoundingError
    <3>1. CASE i = 0
      BY <1>0, <3>1
    <3>2. CASE i # 0
      <4>1. i \in 1..PsiBins
        BY <1>0, <3>2
      <4>2. QED
        BY <3>2, <4>1 DEF Errors
    <3>3. QED
      BY <3>1, <3>2
  <2>4. QED
    BY <2>2, <2>3
<1>3. step(PsiBins) = width
  <2>1. (PsiBins * width) \div PsiBins = width
    BY <1>0, DivExact
  <2>2. QED
    BY <2>1
<1>4. step(0) = 0
  <2>1. 0 * width = PsiBins * 0
    BY <1>0
  <2>2. (PsiBins * 0) \div PsiBins = 0
    BY <1>0, DivExact
  <2>3. QED
    BY <2>1, <2>2
<1> HIDE DEF step, off, width
<1>5. edges \in [0..PsiBins -> Int]
  <2>1. \A i \in 0..PsiBins : lo + step(i) + off(i) \in Int
    BY <1>0, <1>2
  <2>2. QED
    BY <1>1, <2>1
<1>6. edges[0] = lo
  <2>1. edges[0] = lo + step(0) + off(0)
    BY <1>0, <1>1
  <2>2. QED
    BY <1>4, <2>1 DEF off
<1>7. edges[PsiBins] >= hi - RoundingError
  <2>1. PsiBins \in 0..PsiBins
    BY <1>0
  <2>2. /\ edges[PsiBins] = lo + step(PsiBins) + off(PsiBins)
        /\ off(PsiBins) \in -RoundingError..RoundingError
    BY <1>1, <1>2, <2>1
  <2>3. step(PsiBins) = hi - lo
    BY <1>3 DEF width
  <2>4. QED
    BY <1>0, <2>2, <2>3
<1>8. QED
  BY <1>5, <1>6, <1>7

LEMMA ClipStaysInside ==
  ASSUME NEW range, range.lo \in Int, range.hi \in Int, range.lo <= range.hi, NEW v \in Int
  PROVE  /\ Clip(range, v) \in Int
         /\ range.lo <= Clip(range, v) /\ Clip(range, v) <= range.hi
BY DEF Clip

\* Whatever the samples, and however far each edge was rounded, as long as the
\* edges do not fall: every value up to the last edge is counted in exactly one
\* bin, and what lies above it is within the rounding error of the maximum
\* (_bin_distribution and compute_psi, psi.py:41-95).
THEOREM EveryValueHasABin == StatisticsSpec => []BinsLoseOnlyTheTop
<1>1. ASSUME StatisticsInit PROVE BinsLoseOnlyTheTop
  BY <1>1 DEF StatisticsInit, BinsLoseOnlyTheTop
<1>2. ASSUME BinsLoseOnlyTheTop, [StatisticsNext]_statisticsVars PROVE BinsLoseOnlyTheTop'
  <2>1. CASE UNCHANGED psi
    BY <1>2, <2>1 DEF BinsLoseOnlyTheTop, Above
  <2>2. CASE ComputePsi
    <3>1. PICK baseline \in Samples, current \in Samples, error \in Errors :
            /\ Len(baseline) >= MinSamples /\ Len(current) >= MinSamples
            /\ LET range == RangeOf(baseline)
                   edges == Edges(range, error)
                   clipped == [i \in DOMAIN current |-> Clip(range, current[i])]
               IN /\ NeverFall(edges)
                  /\ psi' = [baseline |-> baseline, current |-> clipped,
                             hi |-> range.hi, top |-> edges[PsiBins],
                             baselineCounts |-> Counts(edges, baseline),
                             currentCounts |-> Counts(edges, clipped)]
      BY <2>2 DEF ComputePsi
    <3> DEFINE range == RangeOf(baseline)
               edges == Edges(range, error)
               clipped == [i \in DOMAIN current |-> Clip(range, current[i])]
    <3>2. /\ psi'.baseline = baseline /\ psi'.current = clipped
          /\ psi'.hi = range.hi /\ psi'.top = edges[PsiBins]
          /\ psi'.baselineCounts = Counts(edges, baseline)
          /\ psi'.currentCounts = Counts(edges, clipped) /\ NeverFall(edges)
      BY <3>1
    <3>3. /\ range.lo \in Int /\ range.hi \in Int /\ range.lo <= range.hi
          /\ \A i \in DOMAIN baseline : range.lo <= baseline[i] /\ baseline[i] <= range.hi
      BY <3>1, RangeHolds
    <3> HIDE DEF range
    <3>4. /\ edges \in [0..PsiBins -> Int]
          /\ edges[0] = range.lo /\ edges[PsiBins] >= range.hi - RoundingError
      BY ONLY <3>3, EdgesRunThroughTheRange, error \in Errors
    <3> HIDE DEF edges
    <3>5. baseline \in Seq(Int) /\ current \in Seq(Int)
      BY StatisticsAssumption DEF StatisticsAssumption
    <3>6. \A i \in DOMAIN baseline : edges[0] <= baseline[i]
      BY <3>3, <3>4
    <3>7. /\ clipped \in Seq(Int)
          /\ \A i \in DOMAIN clipped : edges[0] <= clipped[i]
      <4>1. DOMAIN current = 1..Len(current) /\ Len(current) \in Nat
        BY <3>5
      <4>2. \A i \in DOMAIN current : current[i] \in Int
        BY <3>5
      <4>3. \A i \in DOMAIN current :
              /\ Clip(range, current[i]) \in Int
              /\ range.lo <= Clip(range, current[i]) /\ Clip(range, current[i]) <= range.hi
        BY ONLY <3>3, <4>2, ClipStaysInside
      <4>4. clipped \in [1..Len(current) -> Int]
        BY <4>1, <4>3
      <4>5. QED
        BY <3>4, <4>1, <4>3, <4>4
    <3> HIDE DEF clipped
    <3>8. SumFunction(Counts(edges, baseline)) =
            Len(baseline) - Cardinality(Above(baseline, edges[PsiBins]))
      BY ONLY <3>2, <3>4, <3>5, <3>6, BinsTakeTheRest
    <3>9. SumFunction(Counts(edges, clipped)) =
            Len(clipped) - Cardinality(Above(clipped, edges[PsiBins]))
      BY ONLY <3>2, <3>4, <3>7, BinsTakeTheRest
    <3>10. QED
      BY <3>2, <3>4, <3>8, <3>9 DEF BinsLoseOnlyTheTop
  <2>3. QED
    BY <1>2, <2>1, <2>2 DEF StatisticsNext, Challenge, statisticsVars
<1>3. QED
  BY <1>1, <1>2, PTL DEF StatisticsSpec

(***************************************************************************)
(* The evaluations: what the programs make of one trajectory.              *)
(***************************************************************************)

LEMMA MinOfTwo ==
  ASSUME NEW a \in Int, NEW b \in Int
  PROVE  Min({a, b}) = IF a <= b THEN a ELSE b
BY DEF Min

LEMMA MaxOfTwo ==
  ASSUME NEW a \in Int, NEW b \in Int
  PROVE  Max({a, b}) = IF a >= b THEN a ELSE b
BY DEF Max

LEMMA ClampedIsAProbability ==
  ASSUME NEW n \in Int
  PROVE  Clamped(n) \in 0..Certain
<1>1. Certain \in Int /\ Certain >= 0
  BY DEF Certain
<1>2. Min({Certain, n}) \in Int /\ Min({Certain, n}) <= Certain
  BY <1>1, MinOfTwo
<1>3. Max({0, Min({Certain, n})}) \in 0..Certain
  <2> DEFINE m == Min({Certain, n})
  <2> HIDE DEF m
  <2>1. m \in Int /\ m <= Certain
    BY <1>2 DEF m
  <2>2. Max({0, m}) = IF 0 >= m THEN 0 ELSE m
    BY <2>1, MaxOfTwo
  <2>3. Max({0, m}) \in 0..Certain
    BY <1>1, <2>1, <2>2
  <2>4. QED
    BY <2>3 DEF m
<1>4. QED
  BY <1>3 DEF Clamped

\* Trajectories that the programs score: a few calls, at least one.
Scorable == {traj \in SeqOf(CallKinds, MaxCalls) : traj # <<>>}

LEMMA ScorableCalls ==
  ASSUME NEW traj \in Scorable
  PROVE  /\ DOMAIN traj # {} /\ IsFiniteSet(DOMAIN traj) /\ DOMAIN traj \in SUBSET (Nat \ {0})
         /\ \A i \in DOMAIN traj : traj[i] \in CallKinds
<1>1. PICK m \in 0..MaxCalls : traj \in [1..m -> CallKinds]
  BY DEF Scorable, SeqOf
<1>2. m \in Nat
  BY EvaluationAssumption DEF EvaluationAssumption
<1>3. traj # <<>>
  BY DEF Scorable
<1>4. m # 0
  BY <1>1, <1>3
<1>5. DOMAIN traj = 1..m /\ IsFiniteSet(1..m)
  BY <1>1, <1>2, FirstNumbers
<1>6. 1 \in 1..m
  BY <1>2, <1>4
<1>7. QED
  BY <1>1, <1>2, <1>5, <1>6

\* The least similarity over some calls is that of one of them.
LEMMA LeastSimilarity ==
  ASSUME NEW traj \in Scorable, NEW kept \in SUBSET DOMAIN traj, kept # {}
  PROVE  /\ Min(Similarities(traj, kept)) \in Int
         /\ \E i \in kept : Min(Similarities(traj, kept)) = traj[i].similarity
         /\ \A i \in kept : Min(Similarities(traj, kept)) <= traj[i].similarity
<1> DEFINE S == Similarities(traj, kept)
           similarity == [i \in kept |-> traj[i].similarity]
<1>1. \A i \in kept : traj[i].similarity \in Int
  BY ScorableCalls, EvaluationAssumption DEF EvaluationAssumption
<1>2. S \in SUBSET Int /\ S # {}
  BY <1>1 DEF Similarities
<1>3. IsFiniteSet(S)
  <2>1. similarity \in [kept -> S]
    BY DEF Similarities
  <2>2. \A v \in S : \E i \in kept : similarity[i] = v
    BY DEF Similarities
  <2> HIDE DEF S, similarity
  <2>3. similarity \in Surjection(kept, S)
    BY <2>1, <2>2 DEF Surjection
  <2>4. IsFiniteSet(kept)
    BY ScorableCalls, FS_Subset
  <2>5. QED
    BY ONLY <2>3, <2>4, FS_Surjection
<1>4. Min(S) \in S /\ \A v \in S : Min(S) <= v
  <2> HIDE DEF S
  <2>1. QED
    BY ONLY <1>2, <1>3, MinIsLeast
<1>5. QED
  BY <1>2, <1>4 DEF Similarities

LEMMA MinSimilarityIsLeast ==
  ASSUME NEW traj \in Scorable
  PROVE  /\ MinSimilarity(traj) \in Int
         /\ \E i \in DOMAIN traj : MinSimilarity(traj) = traj[i].similarity
         /\ \A i \in DOMAIN traj : MinSimilarity(traj) <= traj[i].similarity
<1>1. traj # <<>> /\ DOMAIN traj # {} /\ DOMAIN traj \in SUBSET DOMAIN traj
  BY ScorableCalls DEF Scorable
<1>2. MinSimilarity(traj) = Min(Similarities(traj, DOMAIN traj))
  BY <1>1 DEF MinSimilarity
<1>3. QED
  BY <1>1, <1>2, LeastSimilarity

\* A trajectory diverges exactly when one of its calls does.
LEMMA DivergesAtACall ==
  ASSUME NEW traj \in Scorable
  PROVE  Divergent(MinSimilarity(traj)) <=> \E i \in DOMAIN traj : Divergent(traj[i].similarity)
<1>1. \A i \in DOMAIN traj : traj[i].similarity \in Int
  BY ScorableCalls, EvaluationAssumption DEF EvaluationAssumption
<1>2. QED
  BY <1>1, MinSimilarityIsLeast DEF Divergent, DivergenceThreshold

\* Leaving out calls makes no other trajectory diverge.
LEMMA FilteredDivergesLess ==
  ASSUME NEW traj \in Scorable, Divergent(MinSimilarityExcludingLowParamCalls(traj))
  PROVE  Divergent(MinSimilarity(traj))
<1>1. CASE WithParams(traj) = {}
  BY <1>1 DEF MinSimilarityExcludingLowParamCalls
<1>2. CASE WithParams(traj) # {}
  <2>1. WithParams(traj) \in SUBSET DOMAIN traj
    BY DEF WithParams
  <2>2. PICK i \in WithParams(traj) :
          Min(Similarities(traj, WithParams(traj))) = traj[i].similarity
    BY <1>2, <2>1, LeastSimilarity
  <2>3. MinSimilarityExcludingLowParamCalls(traj) = traj[i].similarity
    BY <1>2, <2>2 DEF MinSimilarityExcludingLowParamCalls
  <2>4. QED
    BY <2>1, <2>3, DivergesAtACall
<1>3. QED
  BY <1>1, <1>2

\* The onset program finds a call exactly in the trajectories that the explicit
\* baseline flags.
LEMMA OnsetOfTheFlagged ==
  ASSUME NEW traj \in Scorable
  PROVE  OnsetIndex(traj) # 0 <=> ExplicitFlag(traj)
<1>1. FlaggedCalls(traj) # {} <=> ExplicitFlag(traj)
  BY DivergesAtACall DEF FlaggedCalls, ExplicitFlag, ContentFlagsAnyCall
<1>2. FlaggedCalls(traj) \in SUBSET DOMAIN traj
  BY DEF FlaggedCalls
<1>3. FlaggedCalls(traj) \in SUBSET (Nat \ {0}) /\ IsFiniteSet(FlaggedCalls(traj))
  BY <1>2, ScorableCalls, FS_Subset
<1>4. ASSUME FlaggedCalls(traj) # {} PROVE Min(FlaggedCalls(traj)) \in Nat \ {0}
  <2>1. FlaggedCalls(traj) \in SUBSET Int
    BY <1>3
  <2>2. Min(FlaggedCalls(traj)) \in FlaggedCalls(traj)
    BY ONLY <1>3, <1>4, <2>1, MinIsLeast
  <2>3. QED
    BY <1>3, <2>2
<1>5. QED
  BY <1>1, <1>4 DEF OnsetIndex

\* A detector's confidence, when it states one, is a probability.
LEMMA ConfidenceIsAProbability ==
  ASSUME NEW call \in CallKinds
  PROVE  Content(call).confidence # NoConfidence => Content(call).confidence \in 0..Certain
<1>1. call.content.confidence \in Int \cup {NoConfidence}
  BY EvaluationAssumption DEF EvaluationAssumption
<1>2. Confidence(call.content) # NoConfidence => Confidence(call.content) \in 0..Certain
  BY <1>1, ClampedIsAProbability DEF Confidence
<1>3. Content(call).confidence = IF Parsed(call.content) THEN Confidence(call.content)
                                 ELSE NoConfidence
  BY DEF Content, CheckContent
<1>4. QED
  BY <1>2, <1>3

LEMMA TiebreakIsAProbability ==
  ASSUME NEW traj \in Scorable
  PROVE  TiebreakProbability(traj) \in 0..Certain
<1> DEFINE P == ContentProbabilities(traj)
           judged == {j \in DOMAIN traj : Content(traj[j]).confidence # NoConfidence}
           stated == [i \in judged |-> ContentProbability(Content(traj[i]))]
<1>0. Certain \in Int
  BY DEF Certain
<1>1. PseudoProbability(MinSimilarity(traj)) \in 0..Certain
  <2>1. MinSimilarity(traj) \in Int
    BY MinSimilarityIsLeast
  <2>2. (Certain - MinSimilarity(traj)) \div 2 \in Int
    BY <1>0, <2>1
  <2>3. QED
    BY <2>2, ClampedIsAProbability DEF PseudoProbability
<1>2. \A i \in judged : ContentProbability(Content(traj[i])) \in 0..Certain
  <2>1. ASSUME NEW i \in judged PROVE ContentProbability(Content(traj[i])) \in 0..Certain
    <3>1. Content(traj[i]).confidence \in 0..Certain
      BY ScorableCalls, ConfidenceIsAProbability
    <3>2. QED
      BY <1>0, <3>1 DEF ContentProbability
  <2>2. QED
    BY <2>1
<1>3. P = {stated[i] : i \in judged}
  BY DEF ContentProbabilities
<1>4. P \in SUBSET (0..Certain) /\ IsFiniteSet(P)
  <2>1. P \in SUBSET (0..Certain)
    BY <1>2 DEF ContentProbabilities
  <2>2. 0..Certain \in SUBSET Int /\ IsFiniteSet(0..Certain)
    BY <1>0, FS_Interval
  <2> HIDE DEF P
  <2>3. QED
    BY <2>1, <2>2, FS_Subset
<1>5. ASSUME P # {} PROVE Max(P) \in 0..Certain
  <2>1. P \in SUBSET Int
    BY <1>0, <1>4
  <2> HIDE DEF P
  <2>2. Max(P) \in P
    BY ONLY <1>4, <1>5, <2>1, MaxIsGreatest
  <2>3. QED
    BY <1>4, <2>2
<1>6. QED
  BY <1>1, <1>5 DEF TiebreakProbability

\* Every probability has its bin, 1 included.
LEMMA EveryProbabilityHasABin ==
  ASSUME NEW p \in 0..Certain
  PROVE  BinOf(p) \in 0..Bins - 1
<1>1. Bins \in Nat \ {0} /\ p \in Nat /\ Certain \in Nat \ {0}
  BY EvaluationAssumption DEF EvaluationAssumption, Certain
<1>2. p * Bins \in Nat
  BY <1>1
<1>3. (p * Bins) \div Certain \in Nat
  <2> DEFINE x == p * Bins
  <2>1. x \in Nat
    BY <1>2
  <2> HIDE DEF x
  <2>2. x \div Certain \in Nat
    BY <2>1 DEF Certain
  <2>3. QED
    BY <2>2 DEF x
<1>4. BinOf(p) = IF (p * Bins) \div Certain <= Bins - 1 THEN (p * Bins) \div Certain ELSE Bins - 1
  BY <1>1, <1>3, MinOfTwo DEF BinOf
<1>5. QED
  BY <1>1, <1>3, <1>4

(***************************************************************************)
(* The tallies.                                                            *)
(***************************************************************************)

Tallies ==
  [n : Nat, explicit : Nat, with_drift : Nat, divergence : Nat, filtered : Nat,
   missed : Nat, rescued : Nat, onset : Nat, input_only : Nat, context_aware : Nat]

\* What BaselinesAgree says of the tally of one group.
Agree(t) ==
  /\ t.explicit = t.divergence + t.rescued
  /\ t.onset = t.explicit
  /\ t.missed = t.n - t.divergence
  /\ t.filtered <= t.divergence
  /\ t.explicit <= t.with_drift

TallyInv ==
  /\ DOMAIN tally = Groups
  /\ \A g \in Groups : tally[g] \in Tallies /\ Agree(tally[g])
  /\ binned \in [0..Bins - 1 -> Int]
  /\ SumFunction(binned) = tally["attacks"].n + tally["resisted"].n

LEMMA TallyFields ==
  ASSUME NEW t \in Tallies
  PROVE  /\ t.n \in Nat /\ t.explicit \in Nat /\ t.with_drift \in Nat /\ t.divergence \in Nat
         /\ t.filtered \in Nat /\ t.missed \in Nat /\ t.rescued \in Nat /\ t.onset \in Nat
         /\ t.input_only \in Nat /\ t.context_aware \in Nat
BY DEF Tallies

LEMMA ScoredAgrees ==
  ASSUME NEW t \in Tallies, Agree(t), NEW file \in Files, file.calls # <<>>
  PROVE  /\ Scored(t, file) \in Tallies /\ Agree(Scored(t, file))
         /\ Scored(t, file).n = t.n + 1
<1> DEFINE traj == file.calls
           u == Scored(t, file)
           explicit == If(ExplicitFlag(traj))
           drifted == If(WithDriftFlag(file))
           diverges == If(Divergent(MinSimilarity(traj)))
           filtered == If(Divergent(MinSimilarityExcludingLowParamCalls(traj)))
           missed == If(~ Divergent(MinSimilarity(traj)))
           rescued == If(~ Divergent(MinSimilarity(traj)) /\ ContentFlagsAnyCall(traj))
           onset == If(OnsetIndex(traj) # 0)
<1>1. traj \in Scorable
  BY DEF Files, Scorable
<1>2. /\ explicit = diverges + rescued
      /\ onset = explicit
      /\ missed = 1 - diverges
      /\ filtered <= diverges
      /\ explicit <= drifted
  <2>1. explicit = diverges + rescued
    BY DEF If, ExplicitFlag
  <2>2. onset = explicit
    BY <1>1, OnsetOfTheFlagged DEF If
  <2>3. missed = 1 - diverges
    BY DEF If
  <2>4. filtered <= diverges
    BY <1>1, FilteredDivergesLess DEF If
  <2>5. explicit <= drifted
    BY DEF If, WithDriftFlag
  <2>6. QED
    BY <2>1, <2>2, <2>3, <2>4, <2>5
<1>3. /\ explicit \in Nat /\ drifted \in Nat /\ diverges \in Nat /\ filtered \in Nat
      /\ missed \in Nat /\ rescued \in Nat /\ onset \in Nat
  BY DEF If
<1>4. u = [n |-> t.n + 1, explicit |-> t.explicit + explicit,
           with_drift |-> t.with_drift + drifted, divergence |-> t.divergence + diverges,
           filtered |-> t.filtered + filtered, missed |-> t.missed + missed,
           rescued |-> t.rescued + rescued, onset |-> t.onset + onset,
           input_only |-> t.input_only, context_aware |-> t.context_aware]
  BY DEF Scored
<1> HIDE DEF u, explicit, drifted, diverges, filtered, missed, rescued, onset
<1>5. /\ t.n \in Nat /\ t.explicit \in Nat /\ t.with_drift \in Nat /\ t.divergence \in Nat
      /\ t.filtered \in Nat /\ t.missed \in Nat /\ t.rescued \in Nat /\ t.onset \in Nat
      /\ t.input_only \in Nat /\ t.context_aware \in Nat
  BY ONLY TallyFields, t \in Tallies
<1>6. u \in Tallies
  <2>1. /\ t.n + 1 \in Nat /\ t.explicit + explicit \in Nat /\ t.with_drift + drifted \in Nat
        /\ t.divergence + diverges \in Nat /\ t.filtered + filtered \in Nat
        /\ t.missed + missed \in Nat /\ t.rescued + rescued \in Nat /\ t.onset + onset \in Nat
        /\ t.input_only \in Nat /\ t.context_aware \in Nat
    BY ONLY <1>3, <1>5
  <2>2. QED
    BY ONLY <1>4, <2>1 DEF Tallies
<1>7. Agree(u)
  <2>1. /\ u.n = t.n + 1 /\ u.explicit = t.explicit + explicit
        /\ u.with_drift = t.with_drift + drifted /\ u.divergence = t.divergence + diverges
        /\ u.filtered = t.filtered + filtered /\ u.missed = t.missed + missed
        /\ u.rescued = t.rescued + rescued /\ u.onset = t.onset + onset
    BY ONLY <1>4
  <2>2. Agree(t)
    OBVIOUS
  <2>3. QED
    BY ONLY <1>2, <1>3, <1>5, <2>1, <2>2 DEF Agree
<1>8. QED
  BY <1>4, <1>6, <1>7 DEF u

LEMMA ClassifiedAgrees ==
  ASSUME NEW t \in Tallies, Agree(t), NEW call
  PROVE  /\ Classified(t, call) \in Tallies /\ Agree(Classified(t, call))
         /\ Classified(t, call).n = t.n
<1> DEFINE isolated == If(IsFlagged(call.isolated))
           informed == If(IsFlagged(call.informed))
           u == [t EXCEPT !.input_only = @ + isolated, !.context_aware = @ + informed]
<1>1. isolated \in Nat /\ informed \in Nat
  BY DEF If
<1>2. Classified(t, call) = u
  BY DEF Classified
<1> HIDE DEF isolated, informed
<1>3. t.input_only + isolated \in Nat /\ t.context_aware + informed \in Nat
  BY <1>1, TallyFields
<1>4. u \in Tallies
  BY <1>3 DEF Tallies
<1>5. /\ u.n = t.n /\ u.explicit = t.explicit /\ u.with_drift = t.with_drift
      /\ u.divergence = t.divergence /\ u.filtered = t.filtered /\ u.missed = t.missed
      /\ u.rescued = t.rescued /\ u.onset = t.onset
  BY DEF Tallies
<1> HIDE DEF u
<1>6. QED
  BY <1>2, <1>4, <1>5 DEF Agree

LEMMA TallyInvariant == EvaluationSpec => []TallyInv
<1>0. Bins \in Nat \ {0}
  BY EvaluationAssumption DEF EvaluationAssumption
<1>1. ASSUME EvaluationInit PROVE TallyInv
  <2>1. tally = [g \in Groups |-> Zero] /\ binned = [b \in 0..Bins - 1 |-> 0]
    BY <1>1 DEF EvaluationInit
  <2>2. Zero \in Tallies /\ Agree(Zero) /\ Zero.n = 0
    BY DEF Zero, Tallies, Agree
  <2>3. SumFunction(binned) = 0
    <3>1. IsFiniteSet(0..Bins - 1)
      BY <1>0, FS_Interval
    <3>2. QED
      BY <2>1, <3>1, SumOfZeros
  <2>4. tally["attacks"] = Zero /\ tally["resisted"] = Zero
    BY <2>1 DEF Groups
  <2>5. QED
    BY <2>1, <2>2, <2>3, <2>4 DEF TallyInv
<1>2. ASSUME TallyInv, [EvaluationNext]_evaluationVars PROVE TallyInv'
  <2>1. CASE ScoreTrajectory
    <3>1. PICK file \in Files :
            /\ Sampled(file, phase)
            /\ binned' = [binned EXCEPT ![BinOf(TiebreakProbability(file.calls))] = @ + 1]
            /\ \/ tally' = [tally EXCEPT ![phase] =
                              Classified(Scored(tally[phase], file), Last(file.calls))]
               \/ tally' = [tally EXCEPT ![phase] = Scored(tally[phase], file)]
      BY <2>1 DEF ScoreTrajectory
    <3>2. phase \in Groups /\ tally[phase] \in Tallies /\ Agree(tally[phase])
      BY <1>2, <2>1 DEF ScoreTrajectory, TallyInv
    <3>3. file.calls # <<>> /\ file.calls \in Scorable
      BY <3>1 DEF Sampled, Files, Scorable
    <3>4. PICK new : /\ new \in Tallies /\ Agree(new) /\ new.n = tally[phase].n + 1
                     /\ tally' = [tally EXCEPT ![phase] = new]
      <4> DEFINE scored == Scored(tally[phase], file)
      <4>1. scored \in Tallies /\ Agree(scored) /\ scored.n = tally[phase].n + 1
        BY <3>2, <3>3, ScoredAgrees
      <4> DEFINE both == Classified(scored, Last(file.calls))
      <4>2. tally' = [tally EXCEPT ![phase] = both] \/ tally' = [tally EXCEPT ![phase] = scored]
        BY <3>1
      <4> HIDE DEF scored
      <4>3. both \in Tallies /\ Agree(both) /\ both.n = tally[phase].n + 1
        BY <4>1, ClassifiedAgrees
      <4> HIDE DEF both
      <4>4. QED
        BY <4>1, <4>2, <4>3
    <3>5. /\ DOMAIN tally' = Groups /\ tally'[phase] = new
          /\ \A g \in Groups : g # phase => tally'[g] = tally[g]
      BY <1>2, <3>2, <3>4 DEF TallyInv
    <3>6. \A g \in Groups : tally'[g] \in Tallies /\ Agree(tally'[g])
      BY <1>2, <3>4, <3>5 DEF TallyInv
    <3>7. binned' \in [0..Bins - 1 -> Int] /\ SumFunction(binned') = SumFunction(binned) + 1
      <4> DEFINE b == BinOf(TiebreakProbability(file.calls))
      <4>1. b \in 0..Bins - 1
        BY <3>3, TiebreakIsAProbability, EveryProbabilityHasABin
      <4>2. binned' = [binned EXCEPT ![b] = @ + 1] /\ binned \in [0..Bins - 1 -> Int]
        BY <1>2, <3>1 DEF TallyInv
      <4>3. IsFiniteSet(0..Bins - 1)
        BY <1>0, FS_Interval
      <4> HIDE DEF b
      <4>4. SumFunction([binned EXCEPT ![b] = @ + 1]) = SumFunction(binned) + 1
        BY ONLY <4>1, <4>2, <4>3, SumOfOneMore
      <4>5. QED
        BY <4>1, <4>2, <4>4
    <3>8. SumFunction(binned') = tally'["attacks"].n + tally'["resisted"].n
      <4>1. tally["attacks"].n \in Nat /\ tally["resisted"].n \in Nat
        BY <1>2, TallyFields DEF TallyInv, Groups
      <4>2. SumFunction(binned) = tally["attacks"].n + tally["resisted"].n
        BY <1>2 DEF TallyInv
      <4>3. CASE phase = "attacks"
        <5>1. tally'["attacks"].n = tally["attacks"].n + 1
              /\ tally'["resisted"].n = tally["resisted"].n
          BY <3>4, <3>5, <4>3 DEF Groups
        <5>2. QED
          BY ONLY <3>7, <4>1, <4>2, <5>1
      <4>4. CASE phase = "resisted"
        <5>1. tally'["attacks"].n = tally["attacks"].n
              /\ tally'["resisted"].n = tally["resisted"].n + 1
          BY <3>4, <3>5, <4>4 DEF Groups
        <5>2. QED
          BY ONLY <3>7, <4>1, <4>2, <5>1
      <4>5. QED
        BY <3>2, <4>3, <4>4 DEF Groups
    <3>9. QED
      BY <3>5, <3>6, <3>7, <3>8 DEF TallyInv, Agree
  <2>2. CASE LoadFails \/ TurnToResisted \/ Report \/ UNCHANGED evaluationVars
    <3>1. tally' = tally /\ binned' = binned
      BY <2>2 DEF LoadFails, TurnToResisted, Report, evaluationVars
    <3>2. QED
      BY <1>2, <3>1 DEF TallyInv, Agree
  <2>3. QED
    BY <1>2, <2>1, <2>2 DEF EvaluationNext
<1>3. QED
  BY <1>1, <1>2, PTL DEF EvaluationSpec

\* Whatever the trajectories and the answers of the judges, programs written
\* apart describe the sample alike, and the calibration report counts every
\* trajectory in one bin (explicit_detectors_baseline.py:93-146,
\* divergence_rescue_analysis.py:63-97, earliest_onset_baseline.py:55-74,
\* calibration_report.py:70-84).
THEOREM ProgramsAgree == EvaluationSpec => []BaselinesAgree
<1>1. TallyInv => BaselinesAgree
  BY DEF TallyInv, Agree, BaselinesAgree
<1>2. QED
  BY <1>1, TallyInvariant, PTL

(***************************************************************************)
(* The programs side by side.                                              *)
(***************************************************************************)

\* Each program's steps are its own specification's, or leave it alone.
LEMMA ProgramsApart == Spec => SuiteSpec /\ EvaluationSpec /\ StatisticsSpec
<1>1. Init => SuiteInit /\ EvaluationInit /\ StatisticsInit
  BY DEF Init
<1>2. [Next]_vars => [SuiteNext]_suiteVars
  BY DEF Next, vars, Suite, Evaluate, Gate, Index
<1>3. [Next]_vars => [EvaluationNext]_evaluationVars
  BY DEF Next, vars, Suite, Evaluate, Gate, Index
<1>4. [Next]_vars => [StatisticsNext]_statisticsVars
  BY DEF Next, vars, Suite, Evaluate, Gate, Index, StatisticsNext
<1>5. QED
  BY <1>1, <1>2, <1>3, <1>4, PTL DEF Spec, SuiteSpec, EvaluationSpec, StatisticsSpec

\* Whichever of the programs runs: legitimate sessions run clean, attacks show
\* at their call, the tallies agree, the gate never regresses and the index
\* loses nothing but the top.
THEOREM OfflineSafety ==
  Spec => [](/\ LegitimateTasksRunClean /\ AttacksShowAtTheirCall
             /\ BaselinesAgree /\ PromotionNeverRegresses /\ BinsLoseOnlyTheTop)
BY ProgramsApart, LegitimateSessionsRunClean, AttacksShowInTime, ProgramsAgree, NoRegression,
   EveryValueHasABin, PTL
================================================================================
