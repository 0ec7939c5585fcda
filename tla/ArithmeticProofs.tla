-------------------------- MODULE ArithmeticProofs --------------------------
(***************************************************************************)
(* Facts about numbers, sums and transfers that the proofs of all the      *)
(* contracts rest on: rounding, induction over numbers and finite sets     *)
(* (over a set of the good ones, for a theorem has no operator to be       *)
(* instantiated with), the sum of a function, a transfer of tokens.        *)
(***************************************************************************)
EXTENDS Transfers, Functions, FiniteSetTheorems, WellFoundedInduction, TLAPS

-----------------------------------------------------------------------------
(* Natural numbers.                                                        *)

LEMMA DivBounds ==
  ASSUME NEW n \in Nat, NEW d \in Nat \ {0}
  PROVE  /\ n \div d \in Nat
         /\ (n \div d) * d <= n
         /\ n < (n \div d) * d + d
OBVIOUS

LEMMA TimesNat ==
  ASSUME NEW a \in Nat, NEW b \in Nat
  PROVE  a * b \in Nat
OBVIOUS

LEMMA TimesAssociates ==
  ASSUME NEW a \in Nat, NEW b \in Nat, NEW c \in Nat
  PROVE  (a * b) * c = a * (b * c)
OBVIOUS

LEMMA TimesMonotone ==
  ASSUME NEW a \in Nat, NEW b \in Nat, NEW c \in Nat, NEW d \in Nat,
         a <= c, b <= d
  PROVE  a * b <= c * d
OBVIOUS

LEMMA TimesCancel ==
  ASSUME NEW a \in Nat, NEW b \in Nat, NEW c \in Nat \ {0}, a * c <= b * c
  PROVE  a <= b
OBVIOUS

LEMMA LessCancel ==
  ASSUME NEW a \in Nat, NEW b \in Nat, NEW c \in Nat, a * c < b * c
  PROVE  a < b
<1> SUFFICES ASSUME b <= a
             PROVE  FALSE
  OBVIOUS
<1>1. b * c <= a * c
  BY TimesMonotone
<1>2. a * c \in Nat /\ b * c \in Nat
  BY TimesNat
<1> QED  BY <1>1, <1>2

LEMMA DivAtLeast ==
  ASSUME NEW n \in Nat, NEW d \in Nat \ {0}, NEW k \in Nat, k * d <= n
  PROVE  k <= n \div d
<1> DEFINE q == n \div d
<1>1. q \in Nat /\ n < q * d + d
  BY DivBounds
<1> HIDE DEF q
<1>2. (q + 1) * d = q * d + d /\ q * d \in Nat /\ k * d \in Nat
  BY <1>1, TimesNat
<1>3. k * d < (q + 1) * d
  BY <1>1, <1>2
<1>4. k < q + 1
  BY <1>1, <1>3, LessCancel
<1> QED  BY <1>1, <1>4 DEF q

LEMMA DivZero ==
  ASSUME NEW d \in Nat \ {0}
  PROVE  0 \div d = 0
<1> DEFINE q == 0 \div d
<1>1. q \in Nat /\ q * d <= 0
  BY DivBounds
<1> HIDE DEF q
<1>2. CASE q # 0
  <2>1. 1 * d <= q * d
    BY <1>1, <1>2, TimesMonotone
  <2> QED  BY <1>1, <2>1
<1> QED  BY <1>2 DEF q

(* Rounding down never reverses an order. *)
LEMMA DivMonotone ==
  ASSUME NEW n \in Nat, NEW m \in Nat, n <= m, NEW d \in Nat \ {0}
  PROVE  n \div d <= m \div d
<1> DEFINE p == n \div d
           q == m \div d
<1>1. /\ p \in Nat /\ p * d <= n
      /\ q \in Nat /\ m < q * d + d
  BY DivBounds
<1> HIDE DEF p, q
<1>2. p * d < (q + 1) * d
  BY <1>1
<1>3. p < q + 1
  BY <1>1, <1>2
<1> QED  BY <1>1, <1>3 DEF p, q

(* What is rounded down in two parts is no more than rounded at once. *)
LEMMA DivParts ==
  ASSUME NEW n \in Nat, NEW m \in Nat, NEW d \in Nat \ {0}
  PROVE  (n \div d) + (m \div d) <= (n + m) \div d
<1> DEFINE p == n \div d
           q == m \div d
           r == (n + m) \div d
<1>1. /\ p \in Nat /\ p * d <= n
      /\ q \in Nat /\ q * d <= m
      /\ r \in Nat /\ n + m < r * d + d
  BY DivBounds
<1> HIDE DEF p, q, r
<1>2. (p + q) * d < (r + 1) * d
  BY <1>1
<1>3. p + q < r + 1
  BY <1>1, <1>2
<1> QED  BY <1>1, <1>3 DEF p, q, r

(* Every non-empty set of natural numbers has a least element. *)
LEMMA LeastNatural ==
  ASSUME NEW T, T \subseteq Nat, T # {}
  PROVE  \E m \in T : \A k \in T : m <= k
<1>1. PICK m \in T : \A k \in T : ~ (<<k, m>> \in OpToRel(<, Nat))
  BY NatLessThanWellFounded, WFMin
<1>2. \A k \in T : ~ (k < m)
  BY <1>1 DEF OpToRel
<1> QED  BY <1>2

(* Good is inherited from the subsets with one element less. *)
Inherited(Good, D) ==
  \A s \in SUBSET D : (\A x \in s : s \ {x} \in Good) => s \in Good

(* Induction over the subsets of a finite set. *)
LEMMA SubsetInduction ==
  ASSUME NEW D, IsFiniteSet(D), NEW Good, Inherited(Good, D)
  PROVE  \A s \in SUBSET D : s \in Good
<1> DEFINE Bad == {n \in Nat : \E s \in SUBSET D : Cardinality(s) = n /\ s \notin Good}
<1>1. \A s \in SUBSET D : IsFiniteSet(s) /\ Cardinality(s) \in Nat
  BY FS_Subset, FS_CardinalityType
<1>2. ASSUME Bad # {}
      PROVE  FALSE
  <2>1. PICK m \in Bad : \A k \in Bad : m <= k
    BY <1>2, LeastNatural
  <2>2. PICK s \in SUBSET D : Cardinality(s) = m /\ s \notin Good
    BY <2>1
  <2>3. PICK x \in s : s \ {x} \notin Good
    BY <2>2 DEF Inherited
  <2>4. s \ {x} \in SUBSET D /\ Cardinality(s \ {x}) = Cardinality(s) - 1
    BY <1>1, <2>3, FS_RemoveElement
  <2> QED  BY <1>1, <2>1, <2>2, <2>3, <2>4
<1> QED  BY <1>1, <1>2

-----------------------------------------------------------------------------
(* Recursion over the numbers up to a bound, and finite orders.            *)

(* What is done for the first number, and for a number if for the one      *)
(* before it, is done for all.                                             *)
LEMMA UptoInduction ==
  ASSUME NEW n \in Nat, NEW Good, 0 \in Good,
         \A i \in 1 .. n : i - 1 \in Good => i \in Good
  PROVE  \A i \in 0 .. n : i \in Good
<1> DEFINE Bad == {i \in 0 .. n : i \notin Good}
<1>1. ASSUME Bad # {} PROVE FALSE
  <2>1. PICK m \in Bad : \A k \in Bad : m <= k
    <3>1. Bad \subseteq Nat
      OBVIOUS
    <3> HIDE DEF Bad
    <3> QED  BY <1>1, <3>1, LeastNatural
  <2>2. m \in 1 .. n /\ m - 1 \in 0 .. n /\ m - 1 < m
    BY <2>1
  <2>3. m - 1 \in Good
    BY <2>1, <2>2
  <2> QED  BY <2>1, <2>2, <2>3
<1> QED  BY <1>1

(* The values up to n, from v, each from the one before it by a function.  *)
Iterates(f, n, V, v, G) ==
  /\ f \in [0 .. n -> V]
  /\ f[0] = v
  /\ \A i \in 1 .. n : f[i] = G[i][f[i - 1]]

LEMMA RecursionExists ==
  ASSUME NEW n \in Nat, NEW V, NEW v \in V, NEW G \in [1 .. n -> [V -> V]]
  PROVE  \E f : Iterates(f, n, V, v, G)
<1> DEFINE Upto(f, m) == f[0] = v /\ \A i \in 1 .. m : f[i] = G[i][f[i - 1]]
           Good == {m \in 0 .. n : \E f \in [0 .. n -> V] : Upto(f, m)}
<1>1. 0 \in Good
  <2> DEFINE g == [i \in 0 .. n |-> v]
  <2>1. g \in [0 .. n -> V] /\ g[0] = v
    OBVIOUS
  <2>2. Upto(g, 0)
    BY <2>1
  <2> HIDE DEF Upto, g
  <2> QED  BY <2>1, <2>2
<1>2. ASSUME NEW m \in 1 .. n, m - 1 \in Good
      PROVE  m \in Good
  <2>1. PICK f \in [0 .. n -> V] : Upto(f, m - 1)
    BY <1>2
  <2>2. m \in 0 .. n /\ m - 1 \in 0 .. n /\ f[m - 1] \in V
    BY <2>1
  <2> DEFINE g == [f EXCEPT ![m] = G[m][f[m - 1]]]
  <2>3. G[m][f[m - 1]] \in V
    BY <2>2
  <2>4. g \in [0 .. n -> V] /\ g[m] = G[m][f[m - 1]]
        /\ \A i \in 0 .. n : i # m => g[i] = f[i]
    BY <2>2, <2>3
  <2> HIDE DEF g
  <2>5. g[0] = v
    BY <2>1, <2>4
  <2>6. ASSUME NEW i \in 1 .. m
        PROVE  g[i] = G[i][g[i - 1]]
    <3>1. i \in 0 .. n /\ i - 1 \in 0 .. n /\ i - 1 # m
      OBVIOUS
    <3>2. g[i - 1] = f[i - 1]
      BY <2>4, <3>1
    <3>3. CASE i = m
      BY <2>4, <3>2, <3>3
    <3>4. CASE i # m
      <4>1. i \in 1 .. (m - 1)
        BY <3>4
      <4> QED  BY <2>1, <2>4, <3>1, <3>2, <3>4, <4>1
    <3> QED  BY <3>3, <3>4
  <2>7. Upto(g, m)
    BY <2>5, <2>6
  <2> QED  BY <2>2, <2>4, <2>7
<1>3. n \in Good
  <2> HIDE DEF Good
  <2>1. \A i \in 0 .. n : i \in Good
    BY <1>1, <1>2, UptoInduction
  <2> QED  BY <2>1
<1> QED  BY <1>3 DEF Iterates

(* A finite order has an extreme. *)
LEMMA ExtremeExists ==
  ASSUME NEW S, IsFiniteSet(S), S # {}, NEW R,
         \A a \in S : <<a, a>> \notin R,
         \A a, b, c \in S : <<a, b>> \in R /\ <<b, c>> \in R => <<a, c>> \in R
  PROVE  \E k \in S : \A j \in S : <<j, k>> \notin R
<1> DEFINE Under(k) == {j \in S : <<j, k>> \in R}
           T == {Cardinality(Under(k)) : k \in S}
<1>1. \A k \in S : IsFiniteSet(Under(k)) /\ Cardinality(Under(k)) \in Nat
  <2> TAKE k \in S
  <2>1. Under(k) \in SUBSET S
    OBVIOUS
  <2>2. IsFiniteSet(Under(k))
    BY <2>1, FS_Subset
  <2> QED  BY <2>2, FS_CardinalityType
<1>2. PICK m \in T : \A k \in T : m <= k
  <2>1. T \subseteq Nat /\ T # {}
    <3> HIDE DEF Under
    <3> QED  BY <1>1
  <2> HIDE DEF T
  <2> QED  BY <2>1, LeastNatural
<1>3. PICK k \in S : m = Cardinality(Under(k))
  BY <1>2
<1>4. ASSUME NEW j \in S, <<j, k>> \in R
      PROVE  FALSE
  <2>1. Under(j) \in SUBSET (Under(k) \ {j})
    BY <1>4
  <2>2. j \in Under(k)
    BY <1>4
  <2>3. /\ IsFiniteSet(Under(k) \ {j})
        /\ Cardinality(Under(k) \ {j}) = Cardinality(Under(k)) - 1
    <3> HIDE DEF Under
    <3> QED  BY <1>1, <2>2, FS_RemoveElement
  <2>4. Cardinality(Under(j)) <= Cardinality(Under(k)) - 1
    <3> HIDE DEF Under
    <3> QED  BY <2>1, <2>3, FS_Subset
  <2>5. m <= Cardinality(Under(j))
    <3> HIDE DEF Under
    <3> QED  BY <1>2
  <2> HIDE DEF Under, T
  <2> QED  BY <1>1, <1>3, <2>4, <2>5
<1> QED  BY <1>4

-----------------------------------------------------------------------------
(* Sums.  SumFunction is a fold, whose value at the whole domain is that   *)
(* of a function on the subsets, defined by the element it takes first.    *)

First(s) == CHOOSE x \in s : TRUE

Folds(g, f, D) ==
  g = [s \in SUBSET D |->
         IF s = {} THEN 0 ELSE f[First(s)] + g[s \ {First(s)}]]

LEMMA FirstTaken ==
  ASSUME NEW D, IsFiniteSet(D), NEW s \in SUBSET D, s # {}
  PROVE  /\ First(s) \in s
         /\ s \ {First(s)} \in SUBSET D
         /\ Cardinality(s) \in Nat
         /\ Cardinality(s \ {First(s)}) = Cardinality(s) - 1
<1>1. First(s) \in s
  BY DEF First
<1> QED  BY <1>1, FS_Subset, FS_CardinalityType, FS_RemoveElement

(* There is such a function: it is made for ever larger subsets. *)
LEMMA FoldExists ==
  ASSUME NEW f, NEW D, IsFiniteSet(D)
  PROVE  \E g : Folds(g, f, D)
<1> DEFINE Next(g, s) == IF s = {} THEN 0 ELSE f[First(s)] + g[s \ {First(s)}]
           Upto(n) == \E g : /\ g = [s \in SUBSET D |-> g[s]]
                             /\ \A s \in SUBSET D :
                                  Cardinality(s) < n => g[s] = Next(g, s)
           Fails == {n \in Nat : ~Upto(n)}
<1>1. \A s \in SUBSET D : Cardinality(s) \in Nat /\ Cardinality(s) < Cardinality(D) + 1
  BY FS_Subset, FS_CardinalityType
<1>2. Upto(0)
  <2> WITNESS [s \in SUBSET D |-> 0]
  <2> QED  BY <1>1
<1>3. ASSUME NEW n \in Nat, Upto(n)
      PROVE  Upto(n + 1)
  <2>1. PICK g : /\ g = [s \in SUBSET D |-> g[s]]
                 /\ \A s \in SUBSET D : Cardinality(s) < n => g[s] = Next(g, s)
    BY <1>3
  <2> DEFINE h == [s \in SUBSET D |-> IF Cardinality(s) < n THEN g[s] ELSE Next(g, s)]
  <2>2. ASSUME NEW s \in SUBSET D
        PROVE  h[s] = Next(g, s)
    BY <2>1
  <2>3. ASSUME NEW s \in SUBSET D, Cardinality(s) < n + 1
        PROVE  h[s] = Next(h, s)
    <3>1. CASE s = {}
      BY <2>2, <3>1
    <3>2. CASE s # {}
      <4>1. /\ s \ {First(s)} \in SUBSET D
            /\ Cardinality(s \ {First(s)}) < n
        BY <2>3, <3>2, FirstTaken
      <4>2. h[s \ {First(s)}] = g[s \ {First(s)}]
        BY <4>1
      <4> HIDE DEF h
      <4> QED  BY <2>2, <4>2
    <3> QED  BY <3>1, <3>2
  <2>4. h = [s \in SUBSET D |-> h[s]]
    OBVIOUS
  <2> HIDE DEF h
  <2> QED  BY <2>3, <2>4
<1>4. Upto(Cardinality(D) + 1)
  <2> HIDE DEF Upto
  <2>1. SUFFICES Fails = {}
    BY <1>1
  <2>2. ASSUME Fails # {} PROVE FALSE
    <3>1. PICK m \in Fails : \A k \in Fails : m <= k
      BY <2>2, LeastNatural
    <3>2. m # 0 /\ m - 1 \in Nat /\ m - 1 \notin Fails
      BY <1>2, <3>1
    <3> QED  BY <1>3, <3>1, <3>2
  <2> QED  BY <2>2
<1>5. PICK g : /\ g = [s \in SUBSET D |-> g[s]]
               /\ \A s \in SUBSET D :
                    Cardinality(s) < Cardinality(D) + 1 => g[s] = Next(g, s)
  BY <1>4
<1>6. \A s \in SUBSET D : g[s] = Next(g, s)
  BY <1>1, <1>5
<1>7. g = [s \in SUBSET D |-> Next(g, s)]
  BY <1>5, <1>6
<1> QED  BY <1>7 DEF Folds

LEMMA FoldUnfolds ==
  ASSUME NEW f, NEW D, NEW g, Folds(g, f, D)
  PROVE  /\ g[{}] = 0
         /\ \A s \in SUBSET D : s # {} => g[s] = f[First(s)] + g[s \ {First(s)}]
<1>1. \A s \in SUBSET D :
        g[s] = IF s = {} THEN 0 ELSE f[First(s)] + g[s \ {First(s)}]
  BY DEF Folds
<1>2. {} \in SUBSET D
  OBVIOUS
<1> QED  BY <1>1, <1>2

(* It does not matter which element is taken first. *)
LEMMA FoldSplits ==
  ASSUME NEW D, IsFiniteSet(D), NEW f \in [D -> Int], NEW g, Folds(g, f, D)
  PROVE  \A s \in SUBSET D : g[s] \in Int /\ \A x \in s : g[s] = f[x] + g[s \ {x}]
<1> DEFINE Splits(s) ==
             /\ g[s] \in Int
             /\ \A x \in s : g[s] = f[x] + g[s \ {x}] /\ g[s \ {x}] \in Int
           Good == {s \in SUBSET D : Splits(s)}
<1>1. ASSUME NEW s \in SUBSET D, \A x \in s : s \ {x} \in Good
      PROVE  Splits(s)
  <2>1. CASE s = {}
    <3>1. g[s] = 0
      BY <2>1, FoldUnfolds
    <3> QED  BY <2>1, <3>1
  <2>2. CASE s # {}
    <3> DEFINE p == First(s)
    <3>1. p \in s /\ g[s] = f[p] + g[s \ {p}]
      <4>1. p \in s
        BY <2>2, FirstTaken
      <4>2. g[s] = IF s = {} THEN 0 ELSE f[First(s)] + g[s \ {First(s)}]
        BY DEF Folds
      <4> QED  BY <2>2, <4>1, <4>2
    <3> HIDE DEF p
    <3>2. \A x \in s : f[x] \in Int /\ g[s \ {x}] \in Int
      BY <1>1
    <3>3. \A x \in s : \A y \in s \ {x} :
            /\ g[s \ {x}] = f[y] + g[(s \ {x}) \ {y}]
            /\ g[(s \ {x}) \ {y}] \in Int
      BY <1>1
    <3>4. ASSUME NEW x \in s, x # p
          PROVE  g[s] = f[x] + g[s \ {x}]
      <4> DEFINE rest == (s \ {x}) \ {p}
      <4>1. rest = (s \ {p}) \ {x}
        OBVIOUS
      <4>2. g[s \ {p}] = f[x] + g[rest] /\ g[rest] \in Int
        BY <3>1, <3>3, <3>4, <4>1
      <4>3. g[s \ {x}] = f[p] + g[rest]
        BY <3>1, <3>3, <3>4
      <4> HIDE DEF rest
      <4> QED  BY <3>1, <3>2, <4>2, <4>3
    <3>5. g[s] \in Int
      BY <3>1, <3>2
    <3> QED  BY <3>1, <3>2, <3>4, <3>5
  <2> QED  BY <2>1, <2>2
<1>2. Inherited(Good, D)
  <2> HIDE DEF Splits
  <2> QED  BY <1>1 DEF Inherited
<1>3. \A s \in SUBSET D : s \in Good
  <2> HIDE DEF Good
  <2> QED  BY <1>2, SubsetInduction
<1> QED  BY <1>3

(* Two such functions agree where what they add up does. *)
LEMMA FoldsAgree ==
  ASSUME NEW D, IsFiniteSet(D), NEW f \in [D -> Int], NEW g, Folds(g, f, D),
         NEW E, IsFiniteSet(E), NEW e \in [E -> Int], NEW h, Folds(h, e, E),
         E \subseteq D, \A x \in E : e[x] = f[x]
  PROVE  \A s \in SUBSET E : h[s] = g[s]
<1> DEFINE Good == {s \in SUBSET E : h[s] = g[s]}
<1>1. ASSUME NEW s \in SUBSET E, \A x \in s : s \ {x} \in Good
      PROVE  s \in Good
  <2>1. CASE s = {}
    BY <2>1, FoldUnfolds
  <2>2. CASE s # {}
    <3>1. PICK x \in s : TRUE
      BY <2>2
    <3>2. g[s] = f[x] + g[s \ {x}]
      BY FoldSplits
    <3>3. h[s] = e[x] + h[s \ {x}]
      BY FoldSplits
    <3>4. h[s \ {x}] = g[s \ {x}] /\ e[x] = f[x]
      BY <1>1
    <3> QED  BY <3>2, <3>3, <3>4
  <2> QED  BY <2>1, <2>2
<1>2. \A s \in SUBSET E : s \in Good
  <2> HIDE DEF Good
  <2>1. Inherited(Good, E)
    BY <1>1 DEF Inherited
  <2> QED  BY <2>1, SubsetInduction
<1> QED  BY <1>2

(* A sum is the last value of such a function. *)
LEMMA SumIsFold ==
  ASSUME NEW f, IsFiniteSet(DOMAIN f)
  PROVE  \E g : Folds(g, f, DOMAIN f) /\ SumFunction(f) = g[DOMAIN f]
<1> DEFINE g == CHOOSE iter : Folds(iter, f, DOMAIN f)
<1>1. SumFunction(f) = g[DOMAIN f]
  BY DEF SumFunction, SumFunctionOnSet, FoldFunctionOnSet, MapThenFoldSet, Folds, First
<1>2. Folds(g, f, DOMAIN f)
  BY FoldExists
<1> QED  BY <1>1, <1>2

(* The part of a function that lies over s. *)
Over(f, s) == [x \in s |-> f[x]]

(* total[s] is the sum of f over s, for every part s of D: that of any of  *)
(* its elements and of the rest.                                           *)
Totals(total, f, D) ==
  /\ total \in [SUBSET D -> Int]
  /\ total[{}] = 0
  /\ total[D] = SumFunction(f)
  /\ \A s \in SUBSET D : total[s] = SumFunction(Over(f, s))
  /\ \A s \in SUBSET D : \A x \in s : total[s] = f[x] + total[s \ {x}]

(* What all the facts about sums follow from. *)
LEMMA TotalsExist ==
  ASSUME NEW D, IsFiniteSet(D), NEW f \in [D -> Int]
  PROVE  \E total : Totals(total, f, D)
<1>1. DOMAIN f = D
  OBVIOUS
<1>2. PICK g : Folds(g, f, D) /\ SumFunction(f) = g[D]
  BY <1>1, SumIsFold
<1>3. \A s \in SUBSET D : g[s] \in Int /\ \A x \in s : g[s] = f[x] + g[s \ {x}]
  <2>1. Folds(g, f, D)
    BY <1>2
  <2> QED  BY <2>1, FoldSplits
<1>4. g \in [SUBSET D -> Int]
  BY <1>2, <1>3 DEF Folds
<1>5. g[{}] = 0
  BY <1>2, FoldUnfolds
<1>6. ASSUME NEW s \in SUBSET D
      PROVE  g[s] = SumFunction(Over(f, s))
  <2> DEFINE e == Over(f, s)
  <2>1. e \in [s -> Int] /\ DOMAIN e = s /\ \A x \in s : e[x] = f[x]
    BY DEF Over
  <2>2. IsFiniteSet(s)
    BY FS_Subset
  <2> HIDE DEF e
  <2>3. PICK h : Folds(h, e, s) /\ SumFunction(e) = h[s]
    BY <2>1, <2>2, SumIsFold
  <2>4. h[s] = g[s]
    BY <1>2, <2>1, <2>2, <2>3, FoldsAgree
  <2> QED  BY <2>3, <2>4 DEF e
<1>7. Totals(g, f, D)
  BY <1>2, <1>3, <1>4, <1>5, <1>6 DEF Totals
<1> QED  BY <1>7

LEMMA SumEmpty ==
  ASSUME NEW f \in [{} -> Int]
  PROVE  SumFunction(f) = 0
<1>1. PICK total : Totals(total, f, {})
  BY FS_EmptySet, TotalsExist
<1> QED  BY <1>1 DEF Totals

LEMMA SumType ==
  ASSUME NEW D, IsFiniteSet(D), NEW f \in [D -> Int]
  PROVE  SumFunction(f) \in Int
<1>1. PICK total : Totals(total, f, D)
  BY TotalsExist
<1> QED  BY <1>1 DEF Totals

(* One element is split off. *)
LEMMA SumSplit ==
  ASSUME NEW D, IsFiniteSet(D), NEW f \in [D -> Int], NEW x \in D
  PROVE  /\ SumFunction(f) = f[x] + SumFunction(Over(f, D \ {x}))
         /\ SumFunction(Over(f, D \ {x})) \in Int
<1>1. PICK total : Totals(total, f, D)
  BY TotalsExist
<1>2. total[D] = f[x] + total[D \ {x}] /\ total[D] = SumFunction(f)
  BY <1>1 DEF Totals
<1>3. /\ total[D \ {x}] = SumFunction(Over(f, D \ {x}))
      /\ total[D \ {x}] \in Int
  BY <1>1 DEF Totals
<1> QED  BY <1>2, <1>3

(* A sum changes as the one element that changes. *)
LEMMA SumChange ==
  ASSUME NEW D, IsFiniteSet(D), NEW f \in [D -> Int], NEW g \in [D -> Int],
         NEW x \in D, \A y \in D \ {x} : g[y] = f[y]
  PROVE  /\ SumFunction(f) \in Int
         /\ SumFunction(g) = SumFunction(f) + g[x] - f[x]
<1>1. Over(f, D \ {x}) = Over(g, D \ {x})
  BY DEF Over
<1>2. SumFunction(f) = f[x] + SumFunction(Over(f, D \ {x}))
  BY SumSplit
<1>3. SumFunction(g) = g[x] + SumFunction(Over(f, D \ {x}))
  BY <1>1, SumSplit
<1>4. SumFunction(Over(f, D \ {x})) \in Int /\ SumFunction(f) \in Int
  BY SumSplit, SumType
<1> QED  BY <1>2, <1>3, <1>4

LEMMA SumMonotone ==
  ASSUME NEW D, IsFiniteSet(D), NEW f \in [D -> Int], NEW g \in [D -> Int],
         \A x \in D : f[x] <= g[x]
  PROVE  SumFunction(f) <= SumFunction(g)
<1>1. PICK t : Totals(t, f, D)
  BY TotalsExist
<1>2. PICK u : Totals(u, g, D)
  BY TotalsExist
<1> DEFINE Good == {s \in SUBSET D : t[s] <= u[s]}
<1>3. ASSUME NEW s \in SUBSET D, \A x \in s : s \ {x} \in Good
      PROVE  s \in Good
  <2>1. CASE s = {}
    BY <1>1, <1>2, <2>1 DEF Totals
  <2>2. CASE s # {}
    <3>1. PICK x \in s : TRUE
      BY <2>2
    <3>2. /\ t[s] = f[x] + t[s \ {x}] /\ u[s] = g[x] + u[s \ {x}]
          /\ t[s \ {x}] <= u[s \ {x}] /\ f[x] <= g[x]
          /\ t[s \ {x}] \in Int /\ u[s \ {x}] \in Int /\ f[x] \in Int /\ g[x] \in Int
      BY <1>1, <1>2, <1>3 DEF Totals
    <3> QED  BY <3>2
  <2> QED  BY <2>1, <2>2
<1>4. D \in Good
  <2> HIDE DEF Good
  <2>1. Inherited(Good, D)
    BY <1>3 DEF Inherited
  <2> QED  BY <2>1, SubsetInduction
<1> QED  BY <1>1, <1>2, <1>4 DEF Totals

(* The sum of the sums of two functions. *)
LEMMA SumPlus ==
  ASSUME NEW D, IsFiniteSet(D), NEW f \in [D -> Int], NEW g \in [D -> Int],
         NEW h \in [D -> Int], \A x \in D : h[x] = f[x] + g[x]
  PROVE  SumFunction(h) = SumFunction(f) + SumFunction(g)
<1>1. PICK t : Totals(t, f, D)
  BY TotalsExist
<1>2. PICK u : Totals(u, g, D)
  BY TotalsExist
<1>3. PICK v : Totals(v, h, D)
  BY TotalsExist
<1> DEFINE Good == {s \in SUBSET D : v[s] = t[s] + u[s]}
<1>4. ASSUME NEW s \in SUBSET D, \A x \in s : s \ {x} \in Good
      PROVE  s \in Good
  <2>1. CASE s = {}
    BY <1>1, <1>2, <1>3, <2>1 DEF Totals
  <2>2. CASE s # {}
    <3>1. PICK x \in s : TRUE
      BY <2>2
    <3>2. /\ t[s] = f[x] + t[s \ {x}] /\ u[s] = g[x] + u[s \ {x}]
          /\ v[s] = h[x] + v[s \ {x}]
          /\ v[s \ {x}] = t[s \ {x}] + u[s \ {x}] /\ h[x] = f[x] + g[x]
          /\ t[s \ {x}] \in Int /\ u[s \ {x}] \in Int /\ f[x] \in Int /\ g[x] \in Int
      BY <1>1, <1>2, <1>3, <1>4 DEF Totals
    <3> QED  BY <3>2
  <2> QED  BY <2>1, <2>2
<1>5. D \in Good
  <2> HIDE DEF Good
  <2>1. Inherited(Good, D)
    BY <1>4 DEF Inherited
  <2> QED  BY <2>1, SubsetInduction
<1> QED  BY <1>1, <1>2, <1>3, <1>5 DEF Totals

(* A factor can be taken out. *)
LEMMA SumTimes ==
  ASSUME NEW D, IsFiniteSet(D), NEW f \in [D -> Int], NEW c \in Int
  PROVE  SumFunction([x \in D |-> c * f[x]]) = c * SumFunction(f)
<1> DEFINE h == [x \in D |-> c * f[x]]
<1> h \in [D -> Int] /\ \A x \in D : h[x] = c * f[x]
  OBVIOUS
<1> HIDE DEF h
<1>1. PICK t : Totals(t, f, D)
  BY TotalsExist
<1>2. PICK v : Totals(v, h, D)
  BY TotalsExist
<1> DEFINE Good == {s \in SUBSET D : v[s] = c * t[s]}
<1>3. ASSUME NEW s \in SUBSET D, \A x \in s : s \ {x} \in Good
      PROVE  s \in Good
  <2>1. CASE s = {}
    <3>1. v[s] = 0 /\ t[s] = 0
      BY <1>1, <1>2, <2>1 DEF Totals
    <3> QED  BY <3>1
  <2>2. CASE s # {}
    <3>1. PICK x \in s : TRUE
      BY <2>2
    <3>2. /\ t[s] = f[x] + t[s \ {x}] /\ v[s] = h[x] + v[s \ {x}]
          /\ v[s \ {x}] = c * t[s \ {x}] /\ h[x] = c * f[x]
          /\ t[s \ {x}] \in Int /\ f[x] \in Int
      BY <1>1, <1>2, <1>3 DEF Totals
    <3>3. c * (f[x] + t[s \ {x}]) = c * f[x] + c * t[s \ {x}]
      BY <3>2
    <3> QED  BY <3>2, <3>3
  <2> QED  BY <2>1, <2>2
<1>4. D \in Good
  <2> HIDE DEF Good
  <2>1. Inherited(Good, D)
    BY <1>3 DEF Inherited
  <2> QED  BY <2>1, SubsetInduction
<1> QED  BY <1>1, <1>2, <1>4 DEF Totals, h

(* What is zero outside of a part adds up to the sum of the part. *)
LEMMA SumOfPart ==
  ASSUME NEW D, IsFiniteSet(D), NEW f \in [D -> Int], NEW E, E \subseteq D,
         \A x \in D \ E : f[x] = 0
  PROVE  SumFunction(f) = SumFunction(Over(f, E))
<1>1. PICK t : Totals(t, f, D)
  BY TotalsExist
<1> DEFINE Good == {s \in SUBSET D : t[s] = t[s \intersect E]}
<1>2. ASSUME NEW s \in SUBSET D, \A x \in s : s \ {x} \in Good
      PROVE  s \in Good
  <2>1. CASE s \subseteq E
    <3>1. s \intersect E = s
      BY <2>1
    <3> QED  BY <3>1
  <2>2. CASE ~ (s \subseteq E)
    <3>1. PICK x \in s : x \notin E
      BY <2>2
    <3>2. (s \ {x}) \intersect E = s \intersect E
      BY <3>1
    <3>3. t[s] = f[x] + t[s \ {x}] /\ f[x] = 0 /\ t[s \ {x}] \in Int
      BY <1>1, <3>1 DEF Totals
    <3>4. t[s \ {x}] = t[s \intersect E]
      BY <1>2, <3>1, <3>2
    <3> QED  BY <3>3, <3>4
  <2> QED  BY <2>1, <2>2
<1>3. D \in Good
  <2> HIDE DEF Good
  <2>1. Inherited(Good, D)
    BY <1>2 DEF Inherited
  <2> QED  BY <2>1, SubsetInduction
<1>4. D \intersect E = E /\ E \in SUBSET D
  OBVIOUS
<1> QED  BY <1>1, <1>3, <1>4 DEF Totals

LEMMA SumZero ==
  ASSUME NEW D, IsFiniteSet(D), NEW f \in [D -> Int], \A x \in D : f[x] = 0
  PROVE  SumFunction(f) = 0
<1>1. SumFunction(f) = SumFunction(Over(f, {}))
  BY SumOfPart
<1>2. Over(f, {}) \in [{} -> Int]
  BY DEF Over
<1> QED  BY <1>1, <1>2, SumEmpty

LEMMA SumNat ==
  ASSUME NEW D, IsFiniteSet(D), NEW f \in [D -> Nat]
  PROVE  SumFunction(f) \in Nat
<1> DEFINE zero == [x \in D |-> 0]
<1>1. zero \in [D -> Int] /\ f \in [D -> Int]
  OBVIOUS
<1>2. \A x \in D : zero[x] <= f[x]
  OBVIOUS
<1>3. \A x \in D : zero[x] = 0
  OBVIOUS
<1> HIDE DEF zero
<1>4. SumFunction(zero) = 0
  BY <1>1, <1>3, SumZero
<1>5. SumFunction(f) \in Int /\ SumFunction(zero) <= SumFunction(f)
  BY <1>1, <1>2, SumMonotone, SumType
<1> QED  BY <1>4, <1>5

(* The sum of a part of natural numbers is at most that of all. *)
LEMMA SumPartAtMost ==
  ASSUME NEW D, IsFiniteSet(D), NEW f \in [D -> Nat], NEW E, E \subseteq D
  PROVE  SumFunction(Over(f, E)) <= SumFunction(f)
<1> DEFINE g == [x \in D |-> IF x \in E THEN f[x] ELSE 0]
<1>1. /\ f \in [D -> Int] /\ g \in [D -> Int]
      /\ \A x \in D : g[x] <= f[x]
      /\ \A x \in D \ E : g[x] = 0
  OBVIOUS
<1>2. Over(g, E) = Over(f, E)
  BY DEF Over
<1> HIDE DEF g
<1>3. SumFunction(g) = SumFunction(Over(g, E))
  BY <1>1, SumOfPart
<1>4. SumFunction(g) <= SumFunction(f)
  BY <1>1, SumMonotone
<1> QED  BY <1>2, <1>3, <1>4

(* Every element grows by a multiple of a weight. *)
LEMMA SumRises ==
  ASSUME NEW D, IsFiniteSet(D), NEW f \in [D -> Int], NEW g \in [D -> Int],
         NEW weight \in [D -> Nat], NEW rise \in Nat,
         \A y \in D : g[y] = f[y] + rise * weight[y]
  PROVE  SumFunction(g) = SumFunction(f) + rise * SumFunction(weight)
<1> DEFINE risen == [y \in D |-> rise * weight[y]]
<1>1. risen \in [D -> Nat] /\ risen \in [D -> Int]
  OBVIOUS
<1>2. \A y \in D : risen[y] = rise * weight[y]
  OBVIOUS
<1>3. SumFunction(risen) = rise * SumFunction(weight)
  <2>1. weight \in [D -> Int]
    OBVIOUS
  <2> QED  BY <2>1, SumTimes
<1> HIDE DEF risen
<1>4. \A y \in D : g[y] = f[y] + risen[y]
  BY <1>2
<1>5. SumFunction(g) = SumFunction(f) + SumFunction(risen)
  BY <1>1, <1>4, SumPlus
<1> QED  BY <1>3, <1>5

(* And one may grow by more. *)
LEMMA SumGrows ==
  ASSUME NEW D, IsFiniteSet(D), NEW f \in [D -> Int], NEW g \in [D -> Int],
         NEW weight \in [D -> Nat], NEW rise \in Nat, NEW x \in D, NEW more \in Nat,
         \A y \in D \ {x} : g[y] = f[y] + rise * weight[y],
         g[x] <= f[x] + rise * weight[x] + more
  PROVE  SumFunction(g) <= SumFunction(f) + rise * SumFunction(weight) + more
<1> DEFINE even == [y \in D |-> f[y] + rise * weight[y]]
<1>1. even \in [D -> Int]
  OBVIOUS
<1>2. \A y \in D : even[y] = f[y] + rise * weight[y]
  OBVIOUS
<1> HIDE DEF even
<1>3. SumFunction(even) = SumFunction(f) + rise * SumFunction(weight)
  BY <1>1, <1>2, SumRises
<1>4. \A y \in D \ {x} : g[y] = even[y]
  BY <1>2
<1>5. SumFunction(g) = SumFunction(even) + g[x] - even[x] /\ SumFunction(even) \in Int
  BY <1>1, <1>4, SumChange
<1>6. g[x] <= even[x] + more /\ g[x] \in Int /\ even[x] \in Int
  BY <1>1, <1>2
<1> QED  BY <1>3, <1>5, <1>6

(* A set is counted by a sum of ones. *)
LEMMA SumOfOnes ==
  ASSUME NEW D, IsFiniteSet(D), NEW E, E \subseteq D
  PROVE  SumFunction([x \in D |-> IF x \in E THEN 1 ELSE 0]) = Cardinality(E)
<1> DEFINE one == [x \in D |-> IF x \in E THEN 1 ELSE 0]
<1>1. one \in [D -> Int] /\ \A x \in D : one[x] = IF x \in E THEN 1 ELSE 0
  OBVIOUS
<1> HIDE DEF one
<1>2. PICK t : Totals(t, one, D)
  BY <1>1, TotalsExist
<1> DEFINE Good == {s \in SUBSET D : t[s] = Cardinality(s \intersect E)}
<1>3. ASSUME NEW s \in SUBSET D, \A x \in s : s \ {x} \in Good
      PROVE  s \in Good
  <2>1. CASE s = {}
    <3>1. Cardinality({}) = 0 /\ s \intersect E = {}
      BY <2>1, FS_EmptySet
    <3> QED  BY <1>2, <2>1, <3>1 DEF Totals
  <2>2. CASE s # {}
    <3>1. PICK x \in s : TRUE
      BY <2>2
    <3>2. t[s] = one[x] + t[s \ {x}] /\ t[s \ {x}] = Cardinality((s \ {x}) \intersect E)
      BY <1>2, <1>3, <3>1 DEF Totals
    <3>3. IsFiniteSet(s \intersect E)
      BY FS_Subset
    <3>4. Cardinality(s \intersect E) \in Nat
      BY <3>3, FS_CardinalityType
    <3>5. CASE x \in E
      <4>1. (s \ {x}) \intersect E = (s \intersect E) \ {x} /\ x \in s \intersect E
        BY <3>1, <3>5
      <4>2. Cardinality((s \intersect E) \ {x}) = Cardinality(s \intersect E) - 1
        BY <3>3, <4>1, FS_RemoveElement
      <4>3. one[x] = 1
        BY <1>1, <3>5
      <4>4. t[s \ {x}] = Cardinality(s \intersect E) - 1
        BY <3>2, <4>1, <4>2
      <4>5. t[s] = Cardinality(s \intersect E)
        BY <3>2, <3>4, <4>3, <4>4
      <4> QED  BY <4>5
    <3>6. CASE x \notin E
      <4>1. (s \ {x}) \intersect E = s \intersect E
        BY <3>6
      <4>2. one[x] = 0 /\ x \in D
        BY <1>1, <3>6
      <4>3. t[s \ {x}] = Cardinality(s \intersect E)
        BY <3>2, <4>1
      <4>4. t[s] = Cardinality(s \intersect E)
        BY <3>2, <3>4, <4>2, <4>3
      <4> QED  BY <4>4
    <3> QED  BY <3>5, <3>6
  <2> QED  BY <2>1, <2>2
<1>4. D \in Good
  <2> HIDE DEF Good
  <2>1. Inherited(Good, D)
    BY <1>3 DEF Inherited
  <2> QED  BY <2>1, SubsetInduction
<1>5. D \intersect E = E
  OBVIOUS
<1> QED  BY <1>2, <1>4, <1>5 DEF Totals, one

-----------------------------------------------------------------------------
(* Families: the members of a[k], k \in A, are values, and may be equal.   *)

Places(v, a, s) == {k \in s : a[k] = v}

LEMMA PlacesFinite ==
  ASSUME NEW a, NEW s, IsFiniteSet(s), NEW v
  PROVE  IsFiniteSet(Places(v, a, s)) /\ Cardinality(Places(v, a, s)) \in Nat
<1>1. Places(v, a, s) \subseteq s
  BY DEF Places
<1> QED  BY <1>1, FS_Subset, FS_CardinalityType

LEMMA PlacesOfRest ==
  ASSUME NEW a, NEW s, IsFiniteSet(s), NEW x \in s, NEW v
  PROVE  Cardinality(Places(v, a, s \ {x})) =
           Cardinality(Places(v, a, s)) - IF a[x] = v THEN 1 ELSE 0
<1>1. CASE a[x] = v
  <2>1. Places(v, a, s \ {x}) = Places(v, a, s) \ {x} /\ x \in Places(v, a, s)
    BY <1>1 DEF Places
  <2> QED  BY <1>1, <2>1, PlacesFinite, FS_RemoveElement
<1>2. CASE a[x] # v
  <2>1. Places(v, a, s \ {x}) = Places(v, a, s)
    BY <1>2 DEF Places
  <2> QED  BY <1>2, <2>1, PlacesFinite
<1> QED  BY <1>1, <1>2

(* b has every value that counts as often as a has. *)
Covers(b, t, a, s, value) ==
  \A v \in DOMAIN value : value[v] > 0 =>
    Cardinality(Places(v, a, s)) <= Cardinality(Places(v, b, t))

(* Then its values add up to as much. *)
LEMMA CoveringSum ==
  ASSUME NEW V, NEW value \in [V -> Nat],
         NEW A, IsFiniteSet(A), NEW a \in [A -> V],
         NEW B, IsFiniteSet(B), NEW b \in [B -> V],
         Covers(b, B, a, A, value)
  PROVE  SumFunction([k \in A |-> value[a[k]]]) <= SumFunction([k \in B |-> value[b[k]]])
<1> DEFINE f == [k \in A |-> value[a[k]]]
           g == [k \in B |-> value[b[k]]]
<1>1. /\ f \in [A -> Int] /\ \A k \in A : f[k] = value[a[k]] /\ f[k] \in Nat
      /\ g \in [B -> Nat] /\ g \in [B -> Int] /\ \A k \in B : g[k] = value[b[k]]
  OBVIOUS
<1> HIDE DEF f, g
<1>2. PICK t : Totals(t, f, A)
  BY <1>1, TotalsExist
<1>3. PICK u : Totals(u, g, B)
  BY <1>1, TotalsExist
<1> DEFINE Good == {s \in SUBSET A : \A r \in SUBSET B :
                      Covers(b, r, a, s, value) => t[s] <= u[r]}
<1>4. ASSUME NEW s \in SUBSET A, \A x \in s : s \ {x} \in Good,
             NEW r \in SUBSET B, Covers(b, r, a, s, value)
      PROVE  t[s] <= u[r]
  <2>1. u[r] >= 0 /\ u[r] \in Int
    <3>1. u[r] = SumFunction(Over(g, r)) /\ IsFiniteSet(r) /\ Over(g, r) \in [r -> Nat]
      BY <1>1, <1>3, FS_Subset DEF Totals, Over
    <3>2. SumFunction(Over(g, r)) \in Nat
      BY <3>1, SumNat
    <3> QED  BY <3>1, <3>2
  <2>2. CASE s = {}
    <3>1. t[s] = 0
      BY <1>2, <2>2 DEF Totals
    <3> QED  BY <2>1, <3>1
  <2>3. CASE s # {}
    <3>1. PICK x \in s : TRUE
      BY <2>3
    <3>2. /\ IsFiniteSet(s) /\ IsFiniteSet(r) /\ x \in A /\ a[x] \in V
          /\ s \ {x} \in SUBSET A
      BY <3>1, FS_Subset
    <3>3. t[s] = value[a[x]] + t[s \ {x}] /\ t[s \ {x}] \in Int
      BY <1>1, <1>2, <3>1, ZenonT(40) DEF Totals
    <3>4. \A v : /\ Cardinality(Places(v, a, s)) \in Nat
                 /\ Cardinality(Places(v, b, r)) \in Nat
                 /\ Cardinality(Places(v, a, s \ {x})) =
                      Cardinality(Places(v, a, s)) - IF a[x] = v THEN 1 ELSE 0
      BY <3>1, <3>2, PlacesFinite, PlacesOfRest
    <3>5. CASE value[a[x]] = 0
      <4>1. Covers(b, r, a, s \ {x}, value)
        <5>1. ASSUME NEW v \in DOMAIN value, value[v] > 0
              PROVE  Cardinality(Places(v, a, s \ {x})) <= Cardinality(Places(v, b, r))
          <6>1. a[x] # v
            BY <3>5, <5>1
          <6>2. Cardinality(Places(v, a, s)) <= Cardinality(Places(v, b, r))
            BY <1>4, <5>1 DEF Covers
          <6> QED  BY <3>4, <6>1, <6>2, SMTT(30)
        <5> QED  BY <5>1 DEF Covers
      <4>2. t[s \ {x}] <= u[r]
        BY <1>4, <3>1, <4>1
      <4> QED  BY <3>3, <3>5, <4>2
    <3>6. CASE value[a[x]] > 0
      <4>1. Cardinality(Places(a[x], a, s)) <= Cardinality(Places(a[x], b, r))
        BY <1>4, <3>2, <3>6 DEF Covers
      <4>2. Cardinality(Places(a[x], a, s \ {x})) = Cardinality(Places(a[x], a, s)) - 1
        BY <3>4
      <4>3. Cardinality(Places(a[x], a, s \ {x})) \in Nat
        <5>1. IsFiniteSet(s \ {x})
          BY <3>2, FS_Subset
        <5> QED  BY <5>1, PlacesFinite
      <4>4. Places(a[x], b, r) # {}
        <5>1. Cardinality(Places(a[x], b, r)) >= 1
          <6>1. /\ Cardinality(Places(a[x], a, s)) \in Nat
                /\ Cardinality(Places(a[x], b, r)) \in Nat
            BY <3>4
          <6> QED  BY <4>1, <4>2, <4>3, <6>1
        <5>2. Cardinality({}) = 0
          BY FS_EmptySet
        <5> QED  BY <5>1, <5>2
      <4>5. PICK y \in r : b[y] = a[x]
        BY <4>4 DEF Places
      <4>6. \A v : Cardinality(Places(v, b, r \ {y})) =
                     Cardinality(Places(v, b, r)) - IF b[y] = v THEN 1 ELSE 0
        BY <3>2, <4>5, PlacesOfRest
      <4>7. Covers(b, r \ {y}, a, s \ {x}, value)
        <5>1. ASSUME NEW v \in DOMAIN value, value[v] > 0
              PROVE  Cardinality(Places(v, a, s \ {x}))
                       <= Cardinality(Places(v, b, r \ {y}))
          <6>1. Cardinality(Places(v, a, s)) <= Cardinality(Places(v, b, r))
            BY <1>4, <5>1 DEF Covers
          <6>2. /\ Cardinality(Places(v, a, s)) \in Nat
                /\ Cardinality(Places(v, b, r)) \in Nat
                /\ Cardinality(Places(v, a, s \ {x})) =
                     Cardinality(Places(v, a, s)) - IF a[x] = v THEN 1 ELSE 0
                /\ Cardinality(Places(v, b, r \ {y})) =
                     Cardinality(Places(v, b, r)) - IF b[y] = v THEN 1 ELSE 0
            BY <3>4, <4>6
          <6>3. CASE a[x] = v
            BY <4>5, <6>1, <6>2, <6>3
          <6>4. CASE a[x] # v
            BY <4>5, <6>1, <6>2, <6>4
          <6> QED  BY <6>3, <6>4
        <5> QED  BY <5>1 DEF Covers
      <4>8. t[s \ {x}] <= u[r \ {y}]
        BY <1>4, <3>1, <4>5, <4>7
      <4>9. u[r] = value[b[y]] + u[r \ {y}] /\ u[r \ {y}] \in Int
        BY <1>1, <1>3, <4>5, ZenonT(40) DEF Totals
      <4> QED  BY <1>1, <3>2, <3>3, <4>5, <4>8, <4>9
    <3>7. value[a[x]] \in Nat
      BY <3>2
    <3> QED  BY <3>5, <3>6, <3>7
  <2> QED  BY <2>2, <2>3
<1>5. A \in Good
  <2> HIDE DEF Good
  <2>1. Inherited(Good, A)
    BY <1>4 DEF Inherited, Good
  <2> QED  BY <2>1, SubsetInduction
<1>6. t[A] <= u[B]
  BY <1>5
<1> QED  BY <1>2, <1>3, <1>6 DEF Totals, f, g

-----------------------------------------------------------------------------
(* Transfers.                                                              *)

(* A transfer debits one holder and credits the other, or changes nothing  *)
(* when they are the same, and touches no third one.                       *)
LEMMA MoveFacts ==
  ASSUME NEW Holders, NEW balance \in [Holders -> Nat],
         NEW from \in Holders, NEW to \in Holders,
         NEW n \in Nat, n <= balance[from]
  PROVE  /\ Move(balance, from, to, n) \in [Holders -> Nat]
         /\ from # to => /\ Move(balance, from, to, n)[from] = balance[from] - n
                         /\ Move(balance, from, to, n)[to] = balance[to] + n
         /\ from = to => Move(balance, from, to, n)[from] = balance[from]
         /\ \A a \in Holders \ {from, to} :
              Move(balance, from, to, n)[a] = balance[a]
<1> DEFINE debited == [balance EXCEPT ![from] = balance[from] - n]
<1>1. balance[from] - n \in Nat
  OBVIOUS
<1>2. debited \in [Holders -> Nat]
  BY <1>1
<1>3. debited[from] = balance[from] - n
  OBVIOUS
<1>4. \A a \in Holders \ {from} : debited[a] = balance[a]
  OBVIOUS
<1>5. Move(balance, from, to, n) = [debited EXCEPT ![to] = debited[to] + n]
  BY DEF Move
<1> HIDE DEF debited
<1>6. debited[to] + n \in Nat
  BY <1>2
<1>7. Move(balance, from, to, n) \in [Holders -> Nat]
  BY <1>2, <1>5, <1>6
<1>8. Move(balance, from, to, n)[to] = debited[to] + n
  BY <1>2, <1>5
<1>9. \A a \in Holders \ {to} : Move(balance, from, to, n)[a] = debited[a]
  BY <1>2, <1>5
<1> QED  BY <1>1, <1>3, <1>4, <1>7, <1>8, <1>9

(* A transfer neither makes nor loses tokens. *)
LEMMA MoveKeepsSum ==
  ASSUME NEW Holders, IsFiniteSet(Holders), NEW balance \in [Holders -> Nat],
         NEW from \in Holders, NEW to \in Holders,
         NEW n \in Nat, n <= balance[from]
  PROVE  SumFunction(Move(balance, from, to, n)) = SumFunction(balance)
<1> DEFINE debited == [balance EXCEPT ![from] = balance[from] - n]
           moved   == Move(balance, from, to, n)
<1>1. /\ balance[from] \in Nat /\ balance[from] - n \in Nat
      /\ balance \in [Holders -> Int]
  OBVIOUS
<1>2. /\ debited \in [Holders -> Nat]
      /\ debited[from] = balance[from] - n
      /\ \A a \in Holders \ {from} : debited[a] = balance[a]
  BY <1>1
<1>3. moved = [debited EXCEPT ![to] = debited[to] + n]
  BY DEF Move
<1> HIDE DEF debited, moved
<1>4. debited \in [Holders -> Int] /\ debited[to] \in Int
  BY <1>2
<1>5. /\ moved \in [Holders -> Int]
      /\ moved[to] = debited[to] + n
      /\ \A a \in Holders \ {to} : moved[a] = debited[a]
  BY <1>3, <1>4
<1>6. /\ SumFunction(balance) \in Int
      /\ SumFunction(debited) = SumFunction(balance) + debited[from] - balance[from]
  BY <1>1, <1>2, <1>4, SumChange
<1>7. SumFunction(debited) = SumFunction(balance) - n
  BY <1>1, <1>2, <1>6
<1>8. SumFunction(moved) = SumFunction(debited) + moved[to] - debited[to]
  BY <1>4, <1>5, SumChange
<1>9. SumFunction(moved) = SumFunction(balance)
  BY <1>4, <1>5, <1>6, <1>7, <1>8
<1> QED  BY <1>9 DEF moved
=============================================================================
