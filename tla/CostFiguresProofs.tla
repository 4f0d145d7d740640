-------------------------- MODULE CostFiguresProofs --------------------------
(***************************************************************************)
(* Proofs about the computations on costs, for every series of amounts and *)
(* not only those of a small instance.                                     *)
(***************************************************************************)
EXTENDS CostFiguresProperties, FiniteSetTheorems, WellFoundedInduction, TLAPS

-----------------------------------------------------------------------------
(* Numbers                                                                 *)

\* Induction on the natural numbers, for a set of them.
LEMMA AllNumbers ==
  ASSUME NEW T \in SUBSET Nat, 0 \in T, \A n \in T : n + 1 \in T
  PROVE  T = Nat
<1> SUFFICES ASSUME Nat \ T # {} PROVE FALSE
  OBVIOUS
<1> DEFINE Smaller == StrictSubsetOrdering(Nat)
           Sets == FiniteSubsetsOf(Nat)
           Initial == {0..(n - 1) : n \in Nat \ T}
<1>1. IsWellFoundedOn(Smaller, Sets)
  BY FS_StrictSubsetOrderingWellFounded
<1>2. Initial \subseteq Sets /\ Initial # {}
  <2>1. \A n \in Nat : IsFiniteSet(0..(n - 1))
    BY FS_Interval
  <2>2. QED
    BY <2>1 DEF FiniteSubsetsOf
<1>3. PICK X \in Initial : \A Y \in Initial : ~(<<Y, X>> \in Smaller)
  <2> HIDE DEF Initial, Smaller, Sets
  <2>1. QED
    BY <1>1, <1>2, WFMin
<1>4. PICK m \in Nat \ T : X = 0..(m - 1)
  OBVIOUS
<1>5. m # 0 /\ m - 1 \in Nat \ T
  OBVIOUS
<1> DEFINE Y == 0..(m - 2)
<1>6. Y \in Initial
  BY <1>5
<1>7. Y \subseteq X /\ m - 1 \in X /\ m - 1 \notin Y /\ X \subseteq Nat /\ Y \subseteq Nat
  BY <1>4, <1>5
<1>8. <<Y, X>> \in Smaller
  BY <1>7 DEF StrictSubsetOrdering
<1>9. QED
  BY <1>3, <1>6, <1>8

LEMMA Quotient ==
  ASSUME NEW a \in Int, NEW d \in Nat \ {0}
  PROVE  a \div d \in Int /\ d * (a \div d) <= a /\ a < d * (a \div d) + d
OBVIOUS

LEMMA Distributed ==
  ASSUME NEW a \in Int, NEW b \in Int, NEW c \in Int
  PROVE  a * (b + c) = a * b + a * c
OBVIOUS

LEMMA Product ==
  ASSUME NEW d \in Nat \ {0}, NEW q \in Int, NEW r \in Int, q <= r
  PROVE  d * q <= d * r
OBVIOUS

LEMMA QuotientMonotone ==
  ASSUME NEW a \in Int, NEW b \in Int, a <= b, NEW d \in Nat \ {0}
  PROVE  a \div d <= b \div d
<1> DEFINE q == a \div d
           r == b \div d
<1>1. q \in Int /\ r \in Int /\ d * q <= a /\ b < d * r + d
  BY Quotient
<1> HIDE DEF q, r
<1>2. SUFFICES ASSUME r + 1 <= q PROVE FALSE
  BY <1>1 DEF q, r
<1>3. d * (r + 1) <= d * q
  BY <1>1, <1>2, Product
<1>4. d * (r + 1) = d * r + d
  BY <1>1
<1>5. d * q \in Int /\ d * r \in Int
  BY <1>1
<1>6. QED
  BY <1>1, <1>3, <1>4, <1>5

LEMMA QuotientOfNumber ==
  ASSUME NEW a \in Nat, NEW d \in Nat \ {0}
  PROVE  a \div d \in Nat
<1> DEFINE q == a \div d
<1>1. q \in Int /\ a < d * q + d
  BY Quotient
<1> HIDE DEF q
<1>2. ASSUME q <= -1 PROVE FALSE
  <2>1. d * q <= d * (-1) /\ d * (-1) = -d /\ d * q \in Int
    BY <1>1, <1>2, Product
  <2>2. QED
    BY <1>1, <2>1
<1>3. QED
  BY <1>1, <1>2 DEF q

\* Rounding keeps the order of amounts and the sign.
LEMMA RoundMonotone ==
  ASSUME NEW a \in Int, NEW b \in Int, a <= b, NEW d \in Nat \ {0}
  PROVE  /\ Round(a, d) \in Int /\ Round(b, d) \in Int /\ Round(a, d) <= Round(b, d)
         /\ a >= 0 => Round(a, d) >= 0
<1>1. 2 * d \in Nat \ {0} /\ 2 * a + d \in Int /\ 2 * b + d \in Int
      /\ d - 2 * a \in Int /\ d - 2 * b \in Int
  OBVIOUS
<1>2. a >= 0 => (2 * a + d) \div (2 * d) >= 0
  <2>1. 0 \div (2 * d) = 0
    BY <1>1, Quotient
  <2>2. QED
    BY <1>1, <2>1, QuotientMonotone
<1>3. CASE a >= 0
  BY <1>1, <1>2, <1>3, Quotient, QuotientMonotone DEF Round
<1>4. CASE a < 0 /\ b < 0
  <2>1. d - 2 * b <= d - 2 * a
    BY <1>4
  <2>2. (d - 2 * b) \div (2 * d) <= (d - 2 * a) \div (2 * d)
    BY <1>1, <2>1, QuotientMonotone
  <2>3. (d - 2 * b) \div (2 * d) \in Int /\ (d - 2 * a) \div (2 * d) \in Int
    BY <1>1, Quotient
  <2>4. QED
    BY <1>4, <2>2, <2>3 DEF Round
<1>5. CASE a < 0 /\ b >= 0
  <2>1. (d - 2 * a) \div (2 * d) >= 0 /\ (2 * b + d) \div (2 * d) >= 0
    <3>1. 0 \div (2 * d) = 0
      BY <1>1, Quotient
    <3>2. QED
      BY <1>1, <1>5, <3>1, QuotientMonotone
  <2>2. (d - 2 * a) \div (2 * d) \in Int /\ (2 * b + d) \div (2 * d) \in Int
    BY <1>1, Quotient
  <2>3. QED
    BY <1>5, <2>1, <2>2 DEF Round
<1>6. QED
  BY <1>3, <1>4, <1>5

\* a and b are at most half of c apart.
Near(a, b, c) == 2 * (a - b) <= c /\ 2 * (b - a) <= c

\* A rounded amount is within a half.
LEMMA RoundNearest ==
  ASSUME NEW a \in Nat, NEW d \in Nat \ {0}
  PROVE  Round(a, d) \in Nat /\ Near(d * Round(a, d), a, d)
<1> DEFINE q == (2 * a + d) \div (2 * d)
<1>1. 2 * a + d \in Nat /\ 2 * d \in Nat \ {0}
  OBVIOUS
<1>2. Round(a, d) = q
  BY DEF Round
<1>3. q \in Nat
  BY <1>1, QuotientOfNumber
<1>4. (2 * d) * q <= 2 * a + d /\ 2 * a + d < (2 * d) * q + 2 * d
  <2> DEFINE e == 2 * d
             b == 2 * a + d
  <2>1. e \in Nat \ {0} /\ b \in Int
    OBVIOUS
  <2> HIDE DEF e, b
  <2>2. e * (b \div e) <= b /\ b < e * (b \div e) + e
    BY <2>1, Quotient
  <2>3. QED
    BY <2>2 DEF e, b
<1> HIDE DEF q
<1>5. (2 * d) * q = 2 * (d * q) /\ d * q \in Nat
  BY <1>3
<1>6. QED
  BY <1>2, <1>3, <1>4, <1>5 DEF Near

\* An amount that is whole already is not moved.
LEMMA RoundExact ==
  ASSUME NEW q \in Nat, NEW d \in Nat \ {0}
  PROVE  Round(d * q, d) = q
<1> DEFINE r == Round(d * q, d)
<1>1. d * q \in Nat
  OBVIOUS
<1>2. r \in Nat /\ Near(d * r, d * q, d)
  BY <1>1, RoundNearest
<1> HIDE DEF r
<1>3. ASSUME r >= q + 1 PROVE FALSE
  <2>1. d * (q + 1) <= d * r
    BY <1>2, <1>3, Product
  <2>2. d * (q + 1) = d * q + d /\ d * r \in Nat
    BY <1>2
  <2>3. QED
    BY <1>1, <1>2, <2>1, <2>2 DEF Near
<1>4. ASSUME r + 1 <= q PROVE FALSE
  <2>1. d * (r + 1) <= d * q
    BY <1>2, <1>4, Product
  <2>2. d * (r + 1) = d * r + d /\ d * r \in Nat
    BY <1>2
  <2>3. QED
    BY <1>1, <1>2, <2>1, <2>2 DEF Near
<1>5. r = q
  BY <1>2, <1>3, <1>4
<1>6. QED
  BY <1>5 DEF r

-----------------------------------------------------------------------------
(* Sums                                                                    *)

\* Induction on the subsets of a finite set, for a set of them.
LEMMA AllSubsets ==
  ASSUME NEW S, IsFiniteSet(S), NEW T \in SUBSET (SUBSET S),
         \A A \in SUBSET S : (\A B \in SUBSET A : B # A => B \in T) => A \in T
  PROVE  T = SUBSET S
<1> SUFFICES ASSUME (SUBSET S) \ T # {} PROVE FALSE
  OBVIOUS
<1> DEFINE Smaller == StrictSubsetOrdering(S)
           Sets == FiniteSubsetsOf(S)
           Others == (SUBSET S) \ T
<1>1. IsWellFoundedOn(Smaller, Sets)
  BY FS_StrictSubsetOrderingWellFounded
<1>2. Others \subseteq Sets /\ Others # {}
  <2>1. \A A \in SUBSET S : IsFiniteSet(A)
    BY FS_Subset
  <2>2. QED
    BY <2>1 DEF FiniteSubsetsOf
<1>3. PICK A \in Others : \A B \in Others : ~(<<B, A>> \in Smaller)
  <2> HIDE DEF Others, Smaller, Sets
  <2>1. QED
    BY <1>1, <1>2, WFMin
<1>4. \A B \in SUBSET A : B # A => B \in T
  <2> SUFFICES ASSUME NEW B \in SUBSET A, B # A, B \notin T PROVE FALSE
    OBVIOUS
  <2>1. B \in Others
    OBVIOUS
  <2>2. <<B, A>> \in Smaller
    BY DEF StrictSubsetOrdering
  <2>3. QED
    BY <1>3, <2>1, <2>2
<1>5. QED
  BY <1>4

\* The recursion by which the library defines a sum: the elements of a set are
\* taken from it one by one.
First(S) == CHOOSE x \in S : TRUE
Iterates(g, f, S) ==
  g = [A \in SUBSET S |-> IF A = {} THEN 0 ELSE f[First(A)] + g[A \ {First(A)}]]

LEMMA SumIsIterate ==
  ASSUME NEW f, NEW S
  PROVE  SumFunctionOnSet(f, S) = (CHOOSE g : Iterates(g, f, S))[S]
BY DEF SumFunctionOnSet, FoldFunctionOnSet, MapThenFoldSet, Iterates, First

LEMMA IterateAt ==
  ASSUME NEW f, NEW S, NEW g, Iterates(g, f, S), NEW A \in SUBSET S
  PROVE  g[A] = IF A = {} THEN 0 ELSE f[First(A)] + g[A \ {First(A)}]
BY DEF Iterates

LEMMA FirstIsIn ==
  ASSUME NEW A, A # {}
  PROVE  First(A) \in A /\ A \ {First(A)} \in SUBSET A /\ A \ {First(A)} # A
BY DEF First

LEMMA IterateUnique ==
  ASSUME NEW f, NEW S, IsFiniteSet(S), NEW g, Iterates(g, f, S), NEW R, NEW h, Iterates(h, f, R),
         S \subseteq R
  PROVE  \A A \in SUBSET S : g[A] = h[A]
<1> DEFINE T == {A \in SUBSET S : g[A] = h[A]}
<1>1. ASSUME NEW A \in SUBSET S, \A B \in SUBSET A : B # A => B \in T
      PROVE  A \in T
  <2>1. /\ g[A] = IF A = {} THEN 0 ELSE f[First(A)] + g[A \ {First(A)}]
        /\ h[A] = IF A = {} THEN 0 ELSE f[First(A)] + h[A \ {First(A)}]
    <3>1. A \in SUBSET S /\ A \in SUBSET R
      OBVIOUS
    <3>2. g[A] = IF A = {} THEN 0 ELSE f[First(A)] + g[A \ {First(A)}]
      BY <3>1, IterateAt
    <3>3. h[A] = IF A = {} THEN 0 ELSE f[First(A)] + h[A \ {First(A)}]
      BY <3>1, IterateAt
    <3>4. QED
      BY <3>2, <3>3
  <2>2. A # {} => A \ {First(A)} \in T
    BY <1>1, FirstIsIn
  <2>3. QED
    BY <2>1, <2>2
<1>2. T \in SUBSET (SUBSET S)
  OBVIOUS
<1> HIDE DEF T
<1>3. T = SUBSET S
  BY <1>1, <1>2, AllSubsets
<1>4. QED
  BY <1>3 DEF T

LEMMA IterateExists ==
  ASSUME NEW f, NEW S, IsFiniteSet(S)
  PROVE  \E g : Iterates(g, f, S)
<1> DEFINE T == {A \in SUBSET S : \E g : Iterates(g, f, A)}
           Sum(A) == SumFunctionOnSet(f, A)
<1>1. ASSUME NEW A \in SUBSET S, \A B \in SUBSET A : B # A => B \in T
      PROVE  A \in T
  <2> DEFINE g == [B \in SUBSET A |->
                     IF B = {} THEN 0 ELSE f[First(B)] + Sum(B \ {First(B)})]
  <2>1. ASSUME NEW B \in SUBSET A, B # A, B # {}
        PROVE  Sum(B) = f[First(B)] + Sum(B \ {First(B)})
    <3> DEFINE C == B \ {First(B)}
               h == CHOOSE h : Iterates(h, f, B)
               k == CHOOSE k : Iterates(k, f, C)
    <3>1. C \in SUBSET B /\ C # A /\ C \in SUBSET A
      BY <2>1, FirstIsIn
    <3>2. Iterates(h, f, B) /\ Iterates(k, f, C)
      <4>1. (\E x : Iterates(x, f, B)) /\ (\E x : Iterates(x, f, C))
        BY <1>1, <2>1, <3>1
      <4>2. QED
        BY <4>1
    <3>3. Sum(B) = h[B] /\ Sum(C) = k[C]
      BY SumIsIterate
    <3> HIDE DEF h, k
    <3>4. k[C] = h[C]
      <4>1. IsFiniteSet(C)
        BY <3>1, FS_Subset
      <4>2. QED
        BY <3>1, <3>2, <4>1, IterateUnique
    <3>5. h[B] = f[First(B)] + h[C]
      BY <2>1, <3>2, IterateAt
    <3>6. QED
      BY <3>3, <3>4, <3>5
  <2>2. Sum({}) = 0
    <3> DEFINE e == [B \in SUBSET {} |-> 0]
               h == CHOOSE h : Iterates(h, f, {})
    <3>1. Iterates(e, f, {})
      BY DEF Iterates
    <3> HIDE DEF e
    <3>2. Iterates(h, f, {})
      BY <3>1
    <3>3. Sum({}) = h[{}]
      BY SumIsIterate
    <3> HIDE DEF h
    <3>4. h[{}] = 0
      BY <3>2, IterateAt
    <3>5. QED
      BY <3>3, <3>4
  <2>3. \A B \in SUBSET A : B # A => g[B] = Sum(B)
    <3> HIDE DEF Sum
    <3>1. QED
      BY <2>1, <2>2
  <2>4. \A B \in SUBSET A : B # {} => g[B \ {First(B)}] = Sum(B \ {First(B)})
    <3> HIDE DEF g, Sum
    <3>1. QED
      BY <2>3, FirstIsIn
  <2>5. Iterates(g, f, A)
    <3> HIDE DEF Sum
    <3>1. \A B \in SUBSET A : g[B] = IF B = {} THEN 0 ELSE f[First(B)] + g[B \ {First(B)}]
      BY <2>4
    <3>2. g = [B \in SUBSET A |-> g[B]]
      OBVIOUS
    <3> HIDE DEF g
    <3>3. QED
      BY <3>1, <3>2 DEF Iterates
  <2>6. QED
    BY <2>5
<1>2. T \in SUBSET (SUBSET S)
  OBVIOUS
<1> HIDE DEF T
<1>3. T = SUBSET S
  BY <1>1, <1>2, AllSubsets
<1>4. QED
  BY <1>3 DEF T

\* A sum takes its elements one by one.
LEMMA SumStep ==
  ASSUME NEW f, NEW S, IsFiniteSet(S)
  PROVE  SumFunctionOnSet(f, S) =
           IF S = {} THEN 0 ELSE f[First(S)] + SumFunctionOnSet(f, S \ {First(S)})
<1> DEFINE g == CHOOSE g : Iterates(g, f, S)
<1>1. Iterates(g, f, S)
  BY IterateExists
<1>2. SumFunctionOnSet(f, S) = g[S]
  BY SumIsIterate
<1> HIDE DEF g
<1>3. g[S] = IF S = {} THEN 0 ELSE f[First(S)] + g[S \ {First(S)}]
  BY <1>1, IterateAt
<1>4. ASSUME S # {} PROVE SumFunctionOnSet(f, S \ {First(S)}) = g[S \ {First(S)}]
  <2> DEFINE R == S \ {First(S)}
             h == CHOOSE h : Iterates(h, f, R)
  <2>1. IsFiniteSet(R) /\ R \subseteq S /\ R \in SUBSET R
    BY FS_Subset
  <2>2. Iterates(h, f, R)
    BY <2>1, IterateExists
  <2>3. SumFunctionOnSet(f, R) = h[R]
    BY SumIsIterate
  <2> HIDE DEF h, R
  <2>4. \A A \in SUBSET R : h[A] = g[A]
    BY <1>1, <2>1, <2>2, IterateUnique
  <2>5. QED
    BY <2>1, <2>3, <2>4 DEF R
<1>5. QED
  BY <1>2, <1>3, <1>4

\* Sums of numbers of a kind that is closed under addition are of that kind.
LEMMA SumIn ==
  ASSUME NEW f, NEW S, IsFiniteSet(S), NEW N, 0 \in N, \A a, b \in N : a + b \in N,
         \A x \in S : f[x] \in N
  PROVE  SumFunctionOnSet(f, S) \in N
<1> DEFINE Sum(A) == SumFunctionOnSet(f, A)
           T == {A \in SUBSET S : Sum(A) \in N}
<1>1. ASSUME NEW A \in SUBSET S, \A B \in SUBSET A : B # A => B \in T
      PROVE  A \in T
  <2>1. IsFiniteSet(A)
    BY FS_Subset
  <2>2. Sum(A) = IF A = {} THEN 0 ELSE f[First(A)] + Sum(A \ {First(A)})
    BY <2>1, SumStep
  <2>3. A # {} => A \ {First(A)} \in T /\ f[First(A)] \in N
    BY <1>1, FirstIsIn
  <2> HIDE DEF Sum
  <2>4. QED
    BY <2>2, <2>3
<1>2. T \in SUBSET (SUBSET S)
  OBVIOUS
<1> HIDE DEF T
<1>3. T = SUBSET S
  BY <1>1, <1>2, AllSubsets
<1>4. QED
  BY <1>3 DEF T

LEMMA SumOfNumbers ==
  ASSUME NEW f, NEW S, IsFiniteSet(S), \A x \in S : f[x] \in Int
  PROVE  /\ SumFunctionOnSet(f, S) \in Int
         /\ (\A x \in S : f[x] \in Nat) => SumFunctionOnSet(f, S) \in Nat
<1>1. 0 \in Int /\ \A a, b \in Int : a + b \in Int
  OBVIOUS
<1>2. 0 \in Nat /\ \A a, b \in Nat : a + b \in Nat
  OBVIOUS
<1>3. SumFunctionOnSet(f, S) \in Int
  BY <1>1, SumIn
<1>4. ASSUME \A x \in S : f[x] \in Nat PROVE SumFunctionOnSet(f, S) \in Nat
  BY <1>2, <1>4, SumIn
<1>5. QED
  BY <1>3, <1>4

\* A sum of larger numbers is larger.
LEMMA SumMonotone ==
  ASSUME NEW f, NEW g, NEW S, IsFiniteSet(S),
         \A x \in S : f[x] \in Int /\ g[x] \in Int /\ f[x] <= g[x]
  PROVE  SumFunctionOnSet(f, S) <= SumFunctionOnSet(g, S)
<1> DEFINE F(A) == SumFunctionOnSet(f, A)
           G(A) == SumFunctionOnSet(g, A)
           T == {A \in SUBSET S : F(A) <= G(A)}
<1>0. \A A \in SUBSET S : IsFiniteSet(A) /\ F(A) \in Int /\ G(A) \in Int
  <2> SUFFICES ASSUME NEW A \in SUBSET S
               PROVE  IsFiniteSet(A) /\ F(A) \in Int /\ G(A) \in Int
    OBVIOUS
  <2>1. IsFiniteSet(A)
    BY FS_Subset
  <2>2. QED
    BY <2>1, SumOfNumbers
<1>1. ASSUME NEW A \in SUBSET S, \A B \in SUBSET A : B # A => B \in T
      PROVE  A \in T
  <2>2. /\ F(A) = IF A = {} THEN 0 ELSE f[First(A)] + F(A \ {First(A)})
        /\ G(A) = IF A = {} THEN 0 ELSE g[First(A)] + G(A \ {First(A)})
    BY <1>0, SumStep
  <2>3. A # {} => /\ A \ {First(A)} \in T /\ First(A) \in S
                  /\ F(A \ {First(A)}) \in Int /\ G(A \ {First(A)}) \in Int
    BY <1>0, <1>1, FirstIsIn
  <2> HIDE DEF F, G
  <2>4. CASE A = {}
    BY <2>2, <2>4
  <2>5. CASE A # {}
    <3> DEFINE B == A \ {First(A)}
               x == First(A)
    <3>1. F(B) <= G(B) /\ F(B) \in Int /\ G(B) \in Int
          /\ f[x] \in Int /\ g[x] \in Int /\ f[x] <= g[x]
      BY <2>3, <2>5
    <3>2. F(A) = f[x] + F(B) /\ G(A) = g[x] + G(B)
      BY <2>2, <2>5
    <3> HIDE DEF x, B
    <3>3. QED
      BY <3>1, <3>2
  <2>6. QED
    BY <2>4, <2>5
<1>2. T \in SUBSET (SUBSET S)
  OBVIOUS
<1> HIDE DEF T
<1>3. T = SUBSET S
  BY <1>1, <1>2, AllSubsets
<1>4. QED
  BY <1>3 DEF T

\* A sum depends on the values it is of alone.
LEMMA SumSame ==
  ASSUME NEW f, NEW g, NEW S, IsFiniteSet(S), \A x \in S : f[x] = g[x]
  PROVE  SumFunctionOnSet(f, S) = SumFunctionOnSet(g, S)
<1> DEFINE F(A) == SumFunctionOnSet(f, A)
           G(A) == SumFunctionOnSet(g, A)
           T == {A \in SUBSET S : F(A) = G(A)}
<1>1. ASSUME NEW A \in SUBSET S, \A B \in SUBSET A : B # A => B \in T
      PROVE  A \in T
  <2>1. IsFiniteSet(A)
    BY FS_Subset
  <2>2. /\ F(A) = IF A = {} THEN 0 ELSE f[First(A)] + F(A \ {First(A)})
        /\ G(A) = IF A = {} THEN 0 ELSE g[First(A)] + G(A \ {First(A)})
    BY <2>1, SumStep
  <2>3. A # {} => A \ {First(A)} \in T /\ f[First(A)] = g[First(A)]
    BY <1>1, FirstIsIn
  <2> HIDE DEF F, G
  <2>4. QED
    BY <2>2, <2>3
<1>2. T \in SUBSET (SUBSET S)
  OBVIOUS
<1> HIDE DEF T
<1>3. T = SUBSET S
  BY <1>1, <1>2, AllSubsets
<1>4. QED
  BY <1>3 DEF T

\* The elements of a sum may be taken in any order.
LEMMA SumTake ==
  ASSUME NEW f, NEW S, IsFiniteSet(S), \A y \in S : f[y] \in Int, NEW x \in S
  PROVE  SumFunctionOnSet(f, S) = f[x] + SumFunctionOnSet(f, S \ {x})
<1> DEFINE Sum(A) == SumFunctionOnSet(f, A)
           T == {A \in SUBSET S : \A z \in A : Sum(A) = f[z] + Sum(A \ {z})}
<1>0. \A A \in SUBSET S : IsFiniteSet(A) /\ Sum(A) \in Int
  <2> SUFFICES ASSUME NEW A \in SUBSET S PROVE IsFiniteSet(A) /\ Sum(A) \in Int
    OBVIOUS
  <2>1. IsFiniteSet(A)
    BY FS_Subset
  <2>2. QED
    BY <2>1, SumOfNumbers
<1>1. ASSUME NEW A \in SUBSET S, \A B \in SUBSET A : B # A => B \in T
      PROVE  A \in T
  <2> SUFFICES ASSUME NEW z \in A PROVE Sum(A) = f[z] + Sum(A \ {z})
    OBVIOUS
  <2> DEFINE w == First(A)
             B == A \ {w}
             C == A \ {z}
             D == (A \ {w}) \ {z}
  <2>1. w \in A /\ B \in SUBSET A /\ B # A /\ C \in SUBSET A /\ C # A
    BY FirstIsIn
  <2>2. Sum(A) = f[w] + Sum(B)
    BY <1>0, SumStep
  <2>3. CASE z = w
    BY <2>2, <2>3
  <2>4. CASE z # w
    <3>1. Sum(B) = f[z] + Sum(D)
      BY <1>1, <2>1, <2>4
    <3>2. Sum(C) = f[w] + Sum(C \ {w})
      BY <1>1, <2>1, <2>4
    <3>3. C \ {w} = D
      OBVIOUS
    <3>4. f[w] \in Int /\ f[z] \in Int /\ Sum(D) \in Int
      BY <1>0, <2>1
    <3> HIDE DEF Sum, w, B, C, D
    <3>5. Sum(A) = f[w] + (f[z] + Sum(D)) /\ Sum(C) = f[w] + Sum(D)
      BY <2>2, <3>1, <3>2, <3>3
    <3>6. Sum(A) = f[z] + Sum(C)
      BY <3>4, <3>5
    <3>7. QED
      BY <3>6 DEF C
  <2>5. QED
    BY <2>3, <2>4
<1>2. T \in SUBSET (SUBSET S)
  OBVIOUS
<1> HIDE DEF T
<1>3. T = SUBSET S
  BY <1>1, <1>2, AllSubsets
<1>4. QED
  BY <1>3 DEF T

\* The elements of a set in no order, for a set T of its subsets.
LEMMA BySubsets ==
  ASSUME NEW S, IsFiniteSet(S), NEW T \in SUBSET (SUBSET S), {} \in T,
         \A A \in SUBSET S : \A x \in A : (IsFiniteSet(A) /\ A \ {x} \in T) => A \in T
  PROVE  S \in T
<1>1. ASSUME NEW A \in SUBSET S, \A B \in SUBSET A : B # A => B \in T
      PROVE  A \in T
  <2>1. CASE A = {}
    BY <2>1
  <2>2. CASE A # {}
    <3>1. PICK x \in A : TRUE
      BY <2>2
    <3>2. A \ {x} \in T /\ IsFiniteSet(A)
      BY <1>1, FS_Subset
    <3>3. QED
      BY <3>2
  <2>3. QED
    BY <2>1, <2>2
<1>2. T = SUBSET S
  BY <1>1, AllSubsets
<1>3. QED
  BY <1>2

LEMMA SumOfNone ==
  ASSUME NEW f
  PROVE  SumFunctionOnSet(f, {}) = 0
BY SumStep, FS_EmptySet

\* p * f and q * g are termwise near.
Apart(f, g, S, p, q, c) ==
  \A x \in S : f[x] \in Int /\ g[x] \in Int /\ Near(p * f[x], q * g[x], c)

\* The errors of the terms add up, at most.
LEMMA ErrorsAdd ==
  ASSUME NEW f, NEW g, NEW S, IsFiniteSet(S), NEW p \in Int, NEW q \in Int, NEW c \in Int,
         Apart(f, g, S, p, q, c)
  PROVE  Near(p * SumFunctionOnSet(f, S), q * SumFunctionOnSet(g, S), c * Cardinality(S))
<1> USE DEF Apart
<1> DEFINE F(A) == SumFunctionOnSet(f, A)
           G(A) == SumFunctionOnSet(g, A)
           Good(A) == Near(p * F(A), q * G(A), c * Cardinality(A))
           T == {A \in SUBSET S : Good(A)}
<1>1. Good({})
  <2>1. F({}) = 0 /\ G({}) = 0 /\ Cardinality({}) = 0
    BY SumOfNone, FS_EmptySet
  <2> HIDE DEF F, G
  <2>2. QED
    BY <2>1 DEF Near
<1>2. ASSUME NEW A \in SUBSET S, NEW x \in A, IsFiniteSet(A), Good(A \ {x})
      PROVE  Good(A)
  <2> DEFINE B == A \ {x}
             n == Cardinality(B)
             u == F(B)
             v == G(B)
             fx == f[x]
             gx == g[x]
  <2>1. IsFiniteSet(B) /\ n \in Nat /\ Cardinality(A) = n + 1
    <3>1. IsFiniteSet(B) /\ Cardinality(B) = Cardinality(A) - 1
      BY <1>2, FS_RemoveElement
    <3>2. n \in Nat /\ Cardinality(A) \in Nat
      BY <1>2, <3>1, FS_CardinalityType
    <3>3. QED
      BY <3>1, <3>2
  <2>2. F(A) = fx + u /\ G(A) = gx + v
    BY <1>2, SumTake
  <2>3. u \in Int /\ v \in Int
    BY <2>1, SumOfNumbers
  <2>4. fx \in Int /\ gx \in Int /\ Near(p * fx, q * gx, c)
    OBVIOUS
  <2>5. Near(p * u, q * v, c * n)
    BY <1>2
  <2> HIDE DEF F, G, u, v, n, fx, gx, B
  <2>6. /\ p * (fx + u) = p * fx + p * u /\ q * (gx + v) = q * gx + q * v
        /\ c * (n + 1) = c * n + c
    <3>1. p * (fx + u) = p * fx + p * u /\ q * (gx + v) = q * gx + q * v
      BY <2>3, <2>4, Distributed
    <3>2. c * (n + 1) = c * n + c * 1 /\ c * 1 = c
      BY <2>1, Distributed
    <3>3. QED
      BY <3>1, <3>2
  <2>7. p * fx \in Int /\ p * u \in Int /\ q * gx \in Int /\ q * v \in Int /\ c * n \in Int
    BY <2>1, <2>3, <2>4
  <2>8. Near(p * (fx + u), q * (gx + v), c * (n + 1))
    BY <2>4, <2>5, <2>6, <2>7 DEF Near
  <2>9. QED
    BY <2>1, <2>2, <2>8
<1> HIDE DEF Good
<1>3. T \in SUBSET (SUBSET S) /\ {} \in T
  BY <1>1
<1>4. \A A \in SUBSET S : \A x \in A : (IsFiniteSet(A) /\ A \ {x} \in T) => A \in T
  BY <1>2
<1> HIDE DEF T
<1>5. S \in T
  BY <1>3, <1>4, BySubsets
<1>6. QED
  BY <1>5 DEF T, Good

\* Terms that are 0 need not be added.
LEMMA SumOfSome ==
  ASSUME NEW f, NEW S, IsFiniteSet(S), \A x \in S : f[x] \in Int,
         NEW R \in SUBSET S, \A x \in S \ R : f[x] = 0
  PROVE  SumFunctionOnSet(f, S) = SumFunctionOnSet(f, R)
<1> DEFINE F(A) == SumFunctionOnSet(f, A)
           Good(A) == F(A) = F(A \cap R)
           T == {A \in SUBSET S : Good(A)}
<1>1. Good({})
  <2>1. {} \cap R = {}
    OBVIOUS
  <2>2. QED
    BY <2>1
<1>2. ASSUME NEW A \in SUBSET S, NEW x \in A, IsFiniteSet(A), Good(A \ {x})
      PROVE  Good(A)
  <2> DEFINE B == A \ {x}
  <2>1. F(A) = f[x] + F(B) /\ F(B) = F(B \cap R)
    BY <1>2, SumTake
  <2>2. CASE x \in R
    <3>1. IsFiniteSet(A \cap R) /\ (A \cap R) \ {x} = B \cap R /\ x \in A \cap R
      <4>1. IsFiniteSet(A \cap R)
        BY <1>2, FS_Intersection
      <4>2. QED
        BY <2>2, <4>1
    <3>2. \A y \in A \cap R : f[y] \in Int
      OBVIOUS
    <3>3. F(A \cap R) = f[x] + F((A \cap R) \ {x})
      BY <3>1, <3>2, SumTake
    <3>4. QED
      BY <2>1, <3>1, <3>3
  <2>3. CASE x \notin R
    <3>1. A \cap R = B \cap R /\ f[x] = 0
      BY <2>3
    <3>2. F(B) \in Int
      BY <1>2, FS_RemoveElement, SumOfNumbers
    <3> HIDE DEF F, B
    <3>3. f[x] + F(B) = F(B)
      BY <3>1, <3>2
    <3>4. F(A \cap R) = F(B \cap R)
      BY <3>1
    <3>5. QED
      BY <2>1, <3>3, <3>4
  <2>4. QED
    BY <2>2, <2>3
<1> HIDE DEF Good
<1>3. T \in SUBSET (SUBSET S) /\ {} \in T
  BY <1>1
<1>4. \A A \in SUBSET S : \A x \in A : (IsFiniteSet(A) /\ A \ {x} \in T) => A \in T
  BY <1>2
<1> HIDE DEF T
<1>5. S \in T
  BY <1>3, <1>4, BySubsets
<1>6. S \cap R = R
  OBVIOUS
<1>7. QED
  BY <1>5, <1>6 DEF T, Good

\* f is of the pairs with d what g is of the right sides.
Paired(f, d, g, S) == \A x \in S : f[<<d, x>>] = g[x] /\ g[x] \in Int

\* A sum over the pairs with one left side is a sum over the right ones.
LEMMA SumOfPairs ==
  ASSUME NEW f, NEW g, NEW d, NEW S, IsFiniteSet(S), Paired(f, d, g, S)
  PROVE  SumFunctionOnSet(f, {d} \X S) = SumFunctionOnSet(g, S)
<1> USE DEF Paired
<1> DEFINE F(A) == SumFunctionOnSet(f, A)
           G(A) == SumFunctionOnSet(g, A)
           Good(A) == IsFiniteSet({d} \X A) /\ F({d} \X A) = G(A)
           T == {A \in SUBSET S : Good(A)}
<1>1. Good({})
  <2> DEFINE E == {d} \X {}
  <2>1. E = {}
    OBVIOUS
  <2> HIDE DEF E
  <2>2. IsFiniteSet(E) /\ F(E) = 0 /\ G({}) = 0
    BY <2>1, SumOfNone, FS_EmptySet
  <2>3. QED
    BY <2>2 DEF E
<1>2. ASSUME NEW A \in SUBSET S, NEW x \in A, IsFiniteSet(A), Good(A \ {x})
      PROVE  Good(A)
  <2> DEFINE B == A \ {x}
             y == <<d, x>>
             P == {d} \X A
  <2>1. G(A) = g[x] + G(B)
    <3>1. \A z \in A : g[z] \in Int
      OBVIOUS
    <3>2. QED
      BY <1>2, <3>1, SumTake
  <2>2. y \in P /\ P \ {y} = {d} \X B
    OBVIOUS
  <2>3. IsFiniteSet(P)
    BY <1>2, FS_Product, FS_Singleton
  <2>4. \A z \in P : f[z] \in Int
    <3> SUFFICES ASSUME NEW w \in A PROVE f[<<d, w>>] \in Int
      OBVIOUS
    <3>1. QED
      OBVIOUS
  <2> HIDE DEF P
  <2>5. F(P) = f[y] + F(P \ {y})
    BY <2>2, <2>3, <2>4, SumTake
  <2>6. f[y] = g[x]
    OBVIOUS
  <2>7. QED
    BY <1>2, <2>1, <2>2, <2>3, <2>5, <2>6 DEF P
<1> HIDE DEF Good
<1>3. T \in SUBSET (SUBSET S) /\ {} \in T
  BY <1>1
<1>4. \A A \in SUBSET S : \A x \in A : (IsFiniteSet(A) /\ A \ {x} \in T) => A \in T
  BY <1>2
<1> HIDE DEF T
<1>5. S \in T
  BY <1>3, <1>4, BySubsets
<1>6. QED
  BY <1>5 DEF T, Good

\* The sums of the groups of S, where of[x] is the group of x.
SumsOf(g, f, S, of, R) == g = [r \in R |-> SumFunctionOnSet(f, {x \in S : of[x] = r})]

\* A sum over the elements is a sum over the sums of their groups.
LEMMA SumOfGroups ==
  ASSUME NEW f, NEW S, IsFiniteSet(S), \A x \in S : f[x] \in Int,
         NEW R, IsFiniteSet(R), NEW of \in [S -> R],
         NEW g, SumsOf(g, f, S, of, R)
  PROVE  SumFunctionOnSet(g, R) = SumFunctionOnSet(f, S)
<1> DEFINE F(A) == SumFunctionOnSet(f, A)
           Part(A) == [r \in R |-> F({x \in A : of[x] = r})]
           Good(A) == SumFunctionOnSet(Part(A), R) = F(A)
           T == {A \in SUBSET S : Good(A)}
<1>0. \A A \in SUBSET S : IsFiniteSet(A) /\ F(A) \in Int
  <2> SUFFICES ASSUME NEW A \in SUBSET S PROVE IsFiniteSet(A) /\ F(A) \in Int
    OBVIOUS
  <2>1. IsFiniteSet(A)
    BY FS_Subset
  <2>2. QED
    BY <2>1, SumOfNumbers
<1>1. Good({})
  <2>1. \A r \in R : {x \in {} : of[x] = r} = {}
    OBVIOUS
  <2> DEFINE none == Part({})
  <2>2. \A r \in R : none[r] = 0 /\ none[r] \in Int
    BY <2>1, SumOfNone
  <2> HIDE DEF none
  <2>3. SumFunctionOnSet(none, R) = SumFunctionOnSet(none, {})
    BY <2>2, SumOfSome
  <2>4. QED
    BY <2>3, SumOfNone DEF none
<1>2. ASSUME NEW A \in SUBSET S, NEW x \in A, IsFiniteSet(A), Good(A \ {x})
      PROVE  Good(A)
  <2> DEFINE B == A \ {x}
             r == of[x]
             before == Part(B)
             after == Part(A)
             Q == R \ {r}
  <2>1. F(A) = f[x] + F(B) /\ r \in R
    BY <1>2, SumTake
  <2>2. ASSUME NEW q \in Q PROVE after[q] = before[q]
    <3>1. {y \in A : of[y] = q} = {y \in B : of[y] = q}
      OBVIOUS
    <3>2. QED
      BY <3>1
  <2>3. after[r] = f[x] + before[r]
    <3> DEFINE U == {y \in A : of[y] = r}
    <3>1. x \in U /\ U \ {x} = {y \in B : of[y] = r} /\ U \in SUBSET S
      OBVIOUS
    <3>2. after[r] = F(U) /\ before[r] = F(U \ {x})
      BY <2>1, <3>1
    <3> HIDE DEF U
    <3>3. IsFiniteSet(U) /\ \A y \in U : f[y] \in Int
      BY <1>0, <3>1
    <3>4. F(U) = f[x] + F(U \ {x})
      BY <3>1, <3>3, SumTake
    <3>5. QED
      BY <3>2, <3>4
  <2>4. \A q \in R : before[q] \in Int /\ after[q] \in Int
    <3> SUFFICES ASSUME NEW q \in R PROVE before[q] \in Int /\ after[q] \in Int
      OBVIOUS
    <3>1. {y \in A : of[y] = q} \in SUBSET S /\ {y \in B : of[y] = q} \in SUBSET S
      OBVIOUS
    <3>2. F({y \in A : of[y] = q}) \in Int /\ F({y \in B : of[y] = q}) \in Int
      BY <1>0, <3>1
    <3>3. QED
      BY <3>2
  <2> HIDE DEF before, after
  <2>5. /\ SumFunctionOnSet(before, R) = before[r] + SumFunctionOnSet(before, Q)
        /\ SumFunctionOnSet(after, R) = after[r] + SumFunctionOnSet(after, Q)
    BY <2>1, <2>4, SumTake
  <2>6. IsFiniteSet(Q) /\ SumFunctionOnSet(before, Q) = SumFunctionOnSet(after, Q)
    <3>1. IsFiniteSet(Q)
      BY FS_RemoveElement
    <3> HIDE DEF Q
    <3>2. QED
      BY <2>2, <3>1, SumSame
  <2>7. SumFunctionOnSet(before, R) = F(B)
    BY <1>2 DEF before
  <2> DEFINE c == SumFunctionOnSet(after, Q)
  <2>8. c \in Int
    <3>1. \A q \in Q : after[q] \in Int
      BY <2>4
    <3> HIDE DEF Q
    <3>2. QED
      BY <2>6, <3>1, SumOfNumbers
  <2>9. f[x] \in Int /\ before[r] \in Int
    BY <2>1, <2>4
  <2> HIDE DEF F, B, r, c, Q
  <2>10. SumFunctionOnSet(after, R) = F(A)
    BY <2>1, <2>3, <2>5, <2>6, <2>7, <2>8, <2>9 DEF c
  <2>11. QED
    BY <2>10 DEF after
<1> HIDE DEF Good
<1>3. T \in SUBSET (SUBSET S) /\ {} \in T
  BY <1>1
<1>4. \A A \in SUBSET S : \A x \in A : (IsFiniteSet(A) /\ A \ {x} \in T) => A \in T
  BY <1>2
<1> HIDE DEF T
<1>5. S \in T
  BY <1>3, <1>4, BySubsets
<1>6. Part(S) = g
  BY DEF SumsOf
<1>7. QED
  BY <1>5, <1>6 DEF T, Good

\* A set of numbers that is finite and not empty has a least and a largest one.
LEMMA ExtremesOf ==
  ASSUME NEW S \in SUBSET Int, IsFiniteSet(S), S # {}
  PROVE  /\ Min(S) \in S /\ \A x \in S : Min(S) <= x
         /\ Max(S) \in S /\ \A x \in S : x <= Max(S)
<1> DEFINE Good(A) == A # {} => /\ \E x \in A : \A y \in A : x <= y
                               /\ \E x \in A : \A y \in A : x >= y
           T == {A \in SUBSET S : Good(A)}
<1>1. Good({})
  OBVIOUS
<1>2. ASSUME NEW A \in SUBSET S, NEW x \in A, IsFiniteSet(A), Good(A \ {x})
      PROVE  Good(A)
  <2> DEFINE B == A \ {x}
  <2>1. CASE B = {}
    <3>1. A = {x} /\ x \in Int
      BY <2>1
    <3>2. QED
      BY <3>1
  <2>2. CASE B # {}
    <3>1. PICK l \in B : \A y \in B : l <= y
      BY <1>2, <2>2
    <3>2. PICK h \in B : \A y \in B : h >= y
      BY <1>2, <2>2
    <3>3. \A y \in A : y \in Int /\ (y = x \/ y \in B)
      OBVIOUS
    <3> HIDE DEF B
    <3>4. \E v \in A : \A y \in A : v <= y
      <4>1. CASE x <= l
        <5>1. \A y \in A : x <= y
          BY <3>1, <3>3, <4>1 DEF B
        <5>2. QED
          BY <5>1
      <4>2. CASE l <= x
        <5>1. \A y \in A : l <= y
          BY <3>1, <3>3, <4>2
        <5>2. QED
          BY <3>1, <5>1 DEF B
      <4>3. QED
        BY <3>1, <3>3, <4>1, <4>2 DEF B
    <3>5. \E v \in A : \A y \in A : v >= y
      <4>1. CASE x >= h
        <5>1. \A y \in A : x >= y
          BY <3>2, <3>3, <4>1 DEF B
        <5>2. QED
          BY <5>1
      <4>2. CASE h >= x
        <5>1. \A y \in A : h >= y
          BY <3>2, <3>3, <4>2
        <5>2. QED
          BY <3>2, <5>1 DEF B
      <4>3. QED
        BY <3>2, <3>3, <4>1, <4>2 DEF B
    <3>6. QED
      BY <3>4, <3>5
  <2>3. QED
    BY <2>1, <2>2
<1> HIDE DEF Good
<1>3. T \in SUBSET (SUBSET S) /\ {} \in T
  BY <1>1
<1>4. \A A \in SUBSET S : \A x \in A : (IsFiniteSet(A) /\ A \ {x} \in T) => A \in T
  BY <1>2
<1> HIDE DEF T
<1>5. S \in T
  BY <1>3, <1>4, BySubsets
<1>6. (\E x \in S : \A y \in S : x <= y) /\ (\E x \in S : \A y \in S : x >= y)
  BY <1>5 DEF T, Good
<1>7. Min(S) \in S /\ \A x \in S : Min(S) <= x
  BY <1>6 DEF Min
<1>8. Max(S) \in S /\ \A x \in S : Max(S) >= x
  BY <1>6 DEF Max
<1>9. QED
  BY <1>7, <1>8

-----------------------------------------------------------------------------
(* Medians                                                                 *)

Below(s, v) == {i \in DOMAIN s : s[i] < v}
UpTo(s, v) == {i \in DOMAIN s : s[i] <= v}

LEMMA Counted ==
  ASSUME NEW n \in Nat, NEW s \in [1..n -> Int], NEW S \in SUBSET (1..n)
  PROVE  /\ IsFiniteSet(S) /\ Cardinality(S) \in Nat
         /\ \A T \in SUBSET S : Cardinality(T) <= Cardinality(S)
<1>1. IsFiniteSet(1..n)
  BY FS_Interval
<1>2. IsFiniteSet(S)
  BY <1>1, FS_Subset
<1>3. QED
  BY <1>2, FS_Subset, FS_CardinalityType

\* No two values have the same rank.
LEMMA RankedIs ==
  ASSUME NEW n \in Nat, NEW s \in [1..n -> Int], NEW k \in Nat, NEW v \in Range(s),
         Cardinality(Below(s, v)) < k, Cardinality(UpTo(s, v)) >= k
  PROVE  Ranked(s, k) = v
<1> DEFINE Has(w) == Cardinality(Below(s, w)) < k /\ Cardinality(UpTo(s, w)) >= k
<1>1. Range(s) \subseteq Int /\ DOMAIN s = 1..n
  BY DEF Range
<1>2. ASSUME NEW w \in Range(s), NEW u \in Range(s), u < w, Has(w), Has(u) PROVE FALSE
  <2>1. UpTo(s, u) \subseteq Below(s, w)
    BY <1>1, <1>2 DEF UpTo, Below
  <2>2. Below(s, w) \in SUBSET (1..n) /\ UpTo(s, u) \in SUBSET (1..n)
    BY <1>1 DEF UpTo, Below
  <2>3. /\ Cardinality(UpTo(s, u)) <= Cardinality(Below(s, w))
        /\ Cardinality(UpTo(s, u)) \in Nat /\ Cardinality(Below(s, w)) \in Nat
    BY <2>1, <2>2, Counted
  <2>4. QED
    BY <1>2, <2>3
<1>3. \A w \in Range(s) : Has(w) => w = v
  BY <1>1, <1>2
<1>4. Ranked(s, k) = CHOOSE w \in Range(s) : Has(w)
  BY DEF Ranked, Below, UpTo
<1>5. Has(v)
  OBVIOUS
<1> HIDE DEF Has
<1>6. QED
  BY <1>3, <1>4, <1>5

\* Of some of the values of a sequence one is the largest.
LEMMA Largest ==
  ASSUME NEW n \in Nat, NEW s \in [1..n -> Int], NEW S \in SUBSET (1..n), S # {}
  PROVE  \E i \in S : \A j \in S : s[j] <= s[i]
<1> DEFINE Has(A) == \E i \in A : \A j \in A : s[j] <= s[i]
           Within(m) == \A A \in SUBSET (1..n) : A # {} /\ A \subseteq 1..m => Has(A)
           T == {m \in Nat : Within(m)}
<1>1. Within(0)
  <2>1. 1..0 = {}
    OBVIOUS
  <2> HIDE DEF Has
  <2>2. QED
    BY <2>1
<1>2. ASSUME NEW m \in Nat, Within(m) PROVE Within(m + 1)
  <2> SUFFICES ASSUME NEW A \in SUBSET (1..n), A # {}, A \subseteq 1..(m + 1)
               PROVE  Has(A)
    OBVIOUS
  <2>1. CASE m + 1 \notin A
    BY <1>2, <2>1
  <2>2. CASE A = {m + 1}
    BY <2>2
  <2>3. CASE m + 1 \in A /\ A # {m + 1}
    <3>1. A \ {m + 1} \subseteq 1..m /\ A \ {m + 1} # {}
      BY <2>3
    <3>2. PICK i \in A \ {m + 1} : \A j \in A \ {m + 1} : s[j] <= s[i]
      BY <1>2, <3>1
    <3>3. \A j \in A : s[j] \in Int
      OBVIOUS
    <3>4. CASE s[m + 1] <= s[i]
      <4>1. \A j \in A : s[j] <= s[i]
        BY <3>2, <3>4
      <4>2. QED
        BY <4>1
    <3>5. CASE s[i] < s[m + 1]
      <4>1. ASSUME NEW j \in A PROVE s[j] <= s[m + 1]
        <5>1. CASE j = m + 1
          BY <3>3, <5>1
        <5>2. CASE j # m + 1
          <6>1. s[j] <= s[i] /\ s[j] \in Int /\ s[i] \in Int /\ s[m + 1] \in Int
            BY <2>3, <3>2, <3>3, <5>2
          <6>2. QED
            BY <3>5, <6>1
        <5>3. QED
          BY <5>1, <5>2
      <4>2. QED
        BY <2>3, <4>1
    <3>6. s[i] \in Int /\ s[m + 1] \in Int
      BY <2>3, <3>3
    <3> HIDE DEF Has
    <3>7. QED
      BY <3>4, <3>5, <3>6
  <2>4. QED
    BY <2>1, <2>2, <2>3
<1> HIDE DEF Within
<1>3. 0 \in T /\ \A m \in T : m + 1 \in T
  BY <1>1, <1>2
<1> HIDE DEF T
<1>4. T = Nat
  BY <1>3, AllNumbers DEF T
<1>5. Within(n)
  BY <1>4 DEF T
<1>6. QED
  BY <1>5 DEF Within

LEMMA Smallest ==
  ASSUME NEW n \in Nat, NEW s \in [1..n -> Int], NEW S \in SUBSET (1..n), S # {}
  PROVE  \E i \in S : \A j \in S : s[i] <= s[j]
<1> DEFINE negated == [i \in 1..n |-> -s[i]]
<1>1. negated \in [1..n -> Int]
  OBVIOUS
<1> HIDE DEF negated
<1>2. PICK i \in S : \A j \in S : negated[j] <= negated[i]
  BY <1>1, Largest
<1>3. \A j \in S : -s[j] <= -s[i] /\ s[j] \in Int
  BY <1>2 DEF negated
<1>4. QED
  BY <1>3

\* Every rank up to the length is that of a value.
LEMMA RankedExists ==
  ASSUME NEW n \in Nat, NEW s \in [1..n -> Int], NEW k \in 1..n
  PROVE  /\ Ranked(s, k) \in Range(s) /\ Ranked(s, k) \in Int
         /\ Cardinality(Below(s, Ranked(s, k))) < k
         /\ Cardinality(UpTo(s, Ranked(s, k))) >= k
<1> DEFINE high == {i \in 1..n : Cardinality(UpTo(s, s[i])) >= k}
<1>1. \A v : UpTo(s, v) \in SUBSET (1..n) /\ Below(s, v) \in SUBSET (1..n)
  BY DEF UpTo, Below
<1>2. \A S \in SUBSET (1..n) : Cardinality(S) \in Nat
  BY Counted
<1>3. high # {}
  <2>1. PICK i \in 1..n : \A j \in 1..n : s[j] <= s[i]
    BY Largest
  <2>2. UpTo(s, s[i]) = 1..n
    BY <2>1 DEF UpTo
  <2>3. Cardinality(1..n) = n
    BY FS_Interval
  <2>4. QED
    BY <2>2, <2>3
<1>4. PICK i \in high : \A j \in high : s[i] <= s[j]
  BY <1>3, Smallest
<1>5. Cardinality(Below(s, s[i])) < k
  <2>1. SUFFICES ASSUME Cardinality(Below(s, s[i])) >= k PROVE FALSE
    BY <1>1, <1>2
  <2>2. Below(s, s[i]) # {}
    <3>1. Cardinality({}) = 0
      BY FS_EmptySet
    <3>2. QED
      BY <2>1, <3>1
  <2>3. PICK j \in Below(s, s[i]) : \A h \in Below(s, s[i]) : s[h] <= s[j]
    BY <1>1, <2>2, Largest
  <2>4. s[j] < s[i] /\ j \in 1..n
    BY <2>3 DEF Below
  <2>5. UpTo(s, s[j]) = Below(s, s[i])
    BY <2>3, <2>4 DEF UpTo, Below
  <2>6. QED
    BY <1>4, <2>1, <2>4, <2>5
<1>6. s[i] \in Range(s) /\ Cardinality(UpTo(s, s[i])) >= k
  BY <1>4 DEF Range
<1>7. Ranked(s, k) = s[i]
  BY <1>5, <1>6, RankedIs
<1>8. QED
  BY <1>5, <1>6, <1>7

\* A series of which one value is raised.
Raised(n, s, i, raised) ==
  /\ s \in [1..n -> Int] /\ raised \in [1..n -> Int] /\ i \in 1..n /\ raised[i] >= s[i]
  /\ \A j \in (1..n) \ {i} : raised[j] = s[j]

\* A value above a rank may grow without moving it.
LEMMA RankedUnmoved ==
  ASSUME NEW n \in Nat, NEW s, NEW i, NEW raised, Raised(n, s, i, raised),
         NEW k \in 1..n, s[i] > Ranked(s, k)
  PROVE  Ranked(raised, k) = Ranked(s, k)
<1> DEFINE v == Ranked(s, k)
           x == raised[i]
<1>0. s \in [1..n -> Int]
  BY DEF Raised
<1>1. /\ v \in Range(s) /\ v \in Int
      /\ Cardinality(Below(s, v)) < k /\ Cardinality(UpTo(s, v)) >= k
  BY <1>0, RankedExists
<1>2. /\ raised \in [1..n -> Int] /\ raised[i] = x /\ i \in 1..n /\ x >= s[i]
      /\ \A j \in (1..n) \ {i} : raised[j] = s[j]
  BY DEF Raised
<1> HIDE DEF x
<1>3. s[i] > v
  OBVIOUS
<1> HIDE DEF v
<1>4. v \in Range(raised)
  <2>1. PICK j \in 1..n : s[j] = v
    BY <1>0, <1>1 DEF Range
  <2>2. j # i
    BY <1>1, <1>3, <2>1
  <2>3. QED
    BY <1>2, <2>1, <2>2 DEF Range
<1>5. Below(raised, v) = Below(s, v) /\ UpTo(raised, v) = UpTo(s, v)
  <2>1. ~(s[i] < v) /\ ~(s[i] <= v) /\ ~(x < v) /\ ~(x <= v)
    BY <1>0, <1>1, <1>2, <1>3
  <2>2. DOMAIN s = 1..n /\ DOMAIN raised = 1..n
    BY <1>0, <1>2
  <2>3. QED
    BY <1>2, <2>1, <2>2 DEF Below, UpTo
<1>6. Ranked(raised, k) = v
  BY <1>1, <1>2, <1>4, <1>5, RankedIs
<1>7. QED
  BY <1>6 DEF v

\* The two middle values are in order, and no value is between them.
LEMMA Middle ==
  ASSUME NEW n \in Nat \ {0}, NEW s \in [1..n -> Int]
  PROVE  LET low == Ranked(s, (n + 1) \div 2)
             high == Ranked(s, (n + 2) \div 2)
         IN  /\ low \in Int /\ high \in Int /\ low <= high
             /\ low \in Range(s) /\ high \in Range(s)
             /\ \A j \in 1..n : s[j] <= low \/ s[j] >= high
<1> DEFINE k == (n + 1) \div 2
           l == (n + 2) \div 2
           low == Ranked(s, k)
           high == Ranked(s, l)
<1>1. k \in 1..n /\ l \in 1..n /\ k <= l /\ l <= k + 1
  OBVIOUS
<1>2. /\ low \in Int /\ low \in Range(s)
      /\ Cardinality(Below(s, low)) < k /\ Cardinality(UpTo(s, low)) >= k
  BY <1>1, RankedExists
<1>3. /\ high \in Int /\ high \in Range(s)
      /\ Cardinality(Below(s, high)) < l /\ Cardinality(UpTo(s, high)) >= l
  BY <1>1, RankedExists
<1> HIDE DEF low, high, k, l
<1>4. \A v : UpTo(s, v) \in SUBSET (1..n) /\ Below(s, v) \in SUBSET (1..n)
  BY DEF UpTo, Below
<1>5. \A S \in SUBSET (1..n) : /\ IsFiniteSet(S) /\ Cardinality(S) \in Nat
                               /\ \A T \in SUBSET S : Cardinality(T) <= Cardinality(S)
  BY Counted
<1>6. low <= high
  <2> SUFFICES ASSUME high < low PROVE FALSE
    BY <1>2, <1>3
  <2>1. UpTo(s, high) \in SUBSET Below(s, low)
    BY <1>2, <1>3 DEF UpTo, Below
  <2>2. Cardinality(UpTo(s, high)) <= Cardinality(Below(s, low))
    BY <1>4, <1>5, <2>1
  <2>3. Cardinality(UpTo(s, high)) \in Nat /\ Cardinality(Below(s, low)) \in Nat
    BY <1>4, <1>5
  <2>4. QED
    BY <1>1, <1>2, <1>3, <2>2, <2>3
<1>7. ASSUME NEW j \in 1..n, s[j] > low, s[j] < high PROVE FALSE
  <2>1. UpTo(s, low) \cup {j} \in SUBSET Below(s, high)
    BY <1>2, <1>3, <1>7 DEF UpTo, Below
  <2>2. j \notin UpTo(s, low)
    BY <1>2, <1>7 DEF UpTo
  <2>3. Cardinality(UpTo(s, low) \cup {j}) = Cardinality(UpTo(s, low)) + 1
    BY <1>4, <1>5, <2>2, FS_AddElement
  <2>4. Cardinality(UpTo(s, low) \cup {j}) <= Cardinality(Below(s, high))
    BY <1>4, <1>5, <2>1
  <2>5. Cardinality(UpTo(s, low)) \in Nat /\ Cardinality(Below(s, high)) \in Nat
    BY <1>4, <1>5
  <2>6. QED
    BY <1>1, <1>2, <1>3, <2>3, <2>4, <2>5
<1>8. \A j \in 1..n : s[j] <= low \/ s[j] >= high
  BY <1>2, <1>3, <1>7
<1>9. QED
  BY <1>2, <1>3, <1>6, <1>8 DEF low, high, k, l

\* The median of amounts is an amount, and so is their MAD.
LEMMA MedianOfNumbers ==
  ASSUME NEW n \in Nat \ {0}, NEW s \in [1..n -> Int]
  PROVE  /\ Median2(s) \in Int
         /\ (\A i \in 1..n : s[i] >= 0) => Median2(s) >= 0
<1>1. (n + 1) \div 2 \in 1..n /\ (n + 2) \div 2 \in 1..n /\ Len(s) = n
  OBVIOUS
<1> DEFINE low == Ranked(s, (n + 1) \div 2)
           high == Ranked(s, (n + 2) \div 2)
<1>2. low \in Range(s) /\ high \in Range(s)
  BY <1>1, RankedExists
<1>3. Median2(s) = low + high
  BY <1>1 DEF Median2
<1> HIDE DEF low, high
<1>4. QED
  BY <1>2, <1>3 DEF Range

LEMMA SpreadOfNumbers ==
  ASSUME NEW n \in Nat \ {0}, NEW s \in [1..n -> Int]
  PROVE  Mad4(s) \in Nat
<1> DEFINE d == [j \in DOMAIN s |-> Abs(2 * s[j] - Median2(s))]
<1>1. Median2(s) \in Int
  BY MedianOfNumbers
<1>2. d \in [1..n -> Int] /\ \A i \in 1..n : d[i] >= 0
  BY <1>1 DEF Abs
<1>3. Mad4(s) = Median2(d)
  BY DEF Mad4
<1> HIDE DEF d
<1>4. QED
  BY <1>2, <1>3, MedianOfNumbers

\* Every element but one has the value c.
AllBut(n, s, i, c) ==
  s \in [1..n -> Int] /\ i \in 1..n /\ c \in Int /\ \A j \in (1..n) \ {i} : s[j] = c

LEMMA RankOfTheOthers ==
  ASSUME NEW n \in Nat, n >= 3, NEW s, NEW i, NEW c, AllBut(n, s, i, c), NEW k \in 2..(n - 1)
  PROVE  Ranked(s, k) = c
<1>0. s \in [1..n -> Int] /\ i \in 1..n /\ c \in Int /\ \A j \in (1..n) \ {i} : s[j] = c
  BY DEF AllBut
<1>1. \E j \in (1..n) \ {i} : TRUE
  BY 1 \in 1..n, 2 \in 1..n
<1>2. c \in Range(s)
  BY <1>0, <1>1 DEF Range
<1>3. Below(s, c) \subseteq {i} /\ (1..n) \ {i} \subseteq UpTo(s, c)
  BY <1>0 DEF Below, UpTo
<1>4. Below(s, c) \in SUBSET (1..n) /\ UpTo(s, c) \in SUBSET (1..n)
  BY <1>0 DEF Below, UpTo
<1>5. Cardinality({i}) = 1 /\ Cardinality((1..n) \ {i}) = n - 1
  <2>1. IsFiniteSet(1..n) /\ Cardinality(1..n) = n
    BY FS_Interval
  <2>2. IsFiniteSet((1..n) \ {i}) /\ Cardinality((1..n) \ {i}) = Cardinality(1..n) - 1
    BY <1>0, <2>1, FS_RemoveElement
  <2>3. Cardinality({i}) = 1
    BY FS_Singleton
  <2>4. QED
    BY <2>1, <2>2, <2>3
<1>6. Cardinality(Below(s, c)) <= 1 /\ Cardinality(UpTo(s, c)) >= n - 1
  BY <1>0, <1>3, <1>4, <1>5, Counted
<1>7. Cardinality(Below(s, c)) < k /\ Cardinality(UpTo(s, c)) >= k
  <2>1. Cardinality(Below(s, c)) \in Nat /\ Cardinality(UpTo(s, c)) \in Nat
    BY <1>0, <1>4, Counted
  <2>2. QED
    BY <1>6, <2>1
<1>8. QED
  BY <1>0, <1>2, <1>7, RankedIs

LEMMA MedianOfTheOthers ==
  ASSUME NEW n \in Nat, n >= 3, NEW s, NEW i, NEW c, AllBut(n, s, i, c)
  PROVE  Median2(s) = 2 * c
<1>1. Len(s) = n
  BY DEF AllBut
<1>2. (n + 1) \div 2 \in 2..(n - 1) /\ (n + 2) \div 2 \in 2..(n - 1)
  OBVIOUS
<1>3. Ranked(s, (n + 1) \div 2) = c /\ Ranked(s, (n + 2) \div 2) = c
  BY <1>2, RankOfTheOthers
<1>4. QED
  BY <1>1, <1>3 DEF Median2, AllBut

LEMMA SpreadOfTheOthers ==
  ASSUME NEW n \in Nat, n >= 3, NEW s, NEW i, NEW c, AllBut(n, s, i, c)
  PROVE  Mad4(s) = 0
<1> DEFINE d == [j \in DOMAIN s |-> Abs(2 * s[j] - Median2(s))]
           zero == 0
<1>1. Mad4(s) = Median2(d)
  BY DEF Mad4
<1>2. AllBut(n, d, i, zero)
  <2>1. Median2(s) = 2 * c
    BY MedianOfTheOthers
  <2>2. QED
    BY <2>1 DEF AllBut, Abs
<1> HIDE DEF d, zero
<1>4. Median2(d) = 2 * zero
  BY <1>2, MedianOfTheOthers
<1>5. QED
  BY <1>1, <1>4 DEF zero

-----------------------------------------------------------------------------
(* The calls                                                               *)

BillCall ==
  [of : {"bill"}, cloud : Clouds, granularity : Granularities,
   bill : [BillDays \X Services -> Int], setting : Settings, sdk : SdkCalls]
DayCall == [of : {"day"}, history : SeriesOf(Costs3), actual : Costs3]
SeriesCall ==
  {[of |-> "series", daily |-> daily, forecast |-> GroupForecast(daily, Horizons[1])] :
     daily \in SeriesOf(Costs3)}
AdviceCall == [of : {"advice"}, daily : [Services -> UNION {[1..n -> MonthlyCosts] : n \in 2..3}]]
EvaluatedBudget ==
  /\ call.length \in Months /\ call.today \in 1..call.length
  /\ call.daily \in [1..call.today -> BudgetCosts]
  /\ \E amount \in Costs3 \ {0} :
       call.evaluation =
         Evaluation(ItemsOf(call.daily), BudgetOf(amount), call.today, call.length)

\* A call with its arguments, and with the result it keeps.
CallGood ==
  /\ call.of = "bill" => call \in BillCall
  /\ call.of = "day" => call \in DayCall
  /\ call.of = "series" => call \in SeriesCall
  /\ call.of = "advice" => call \in AdviceCall
  /\ call.of = "budget" => EvaluatedBudget

LEMMA Series ==
  ASSUME NEW costs \in SUBSET Int, NEW s \in SeriesOf(costs)
  PROVE  \E n \in Nat : s \in [1..n -> Int] /\ Len(s) = n /\ DOMAIN s = 1..n
<1>1. PICK n \in Lengths : s \in [1..n -> costs]
  BY DEF SeriesOf
<1>2. n \in Nat /\ s \in [1..n -> Int]
  BY <1>1, FiguresAssumption
<1>3. Len(s) = n /\ DOMAIN s = 1..n
  BY <1>2
<1>4. QED
  BY <1>2, <1>3

LEMMA CallsAreGood == Spec => []CallGood
<1>1. Init => CallGood
  BY DEF Init, CallGood
<1>2. CallGood /\ [Next]_vars => CallGood'
  <2> SUFFICES ASSUME CallGood, [Next]_vars PROVE CallGood'
    OBVIOUS
  <2>1. CASE DetectDay
    <3>1. call' \in DayCall /\ call'.of = "day"
      BY <2>1 DEF DetectDay, DayCall
    <3>2. QED
      BY <3>1 DEF CallGood, DayCall
  <2>2. CASE ForecastSeries
    <3>1. call' \in SeriesCall /\ call'.of = "series"
      BY <2>2 DEF ForecastSeries, SeriesCall
    <3>2. QED
      BY <3>1 DEF CallGood, SeriesCall
  <2>3. CASE Recommend
    <3>1. call' \in AdviceCall /\ call'.of = "advice"
      BY <2>3 DEF Recommend, AdviceCall
    <3>2. QED
      BY <3>1 DEF CallGood, AdviceCall
  <2>4. CASE EvaluateBudget
    <3>a. PICK length \in Months, amount \in Costs3 \ {0} :
            \E today \in 1..length : \E costs \in [1..today -> BudgetCosts] :
              call' = [of |-> "budget", length |-> length, today |-> today, daily |-> costs,
                       evaluation |->
                         Evaluation(ItemsOf(costs), BudgetOf(amount), today, length)]
      BY <2>4 DEF EvaluateBudget
    <3>b. PICK today \in 1..length : \E costs \in [1..today -> BudgetCosts] :
              call' = [of |-> "budget", length |-> length, today |-> today, daily |-> costs,
                       evaluation |->
                         Evaluation(ItemsOf(costs), BudgetOf(amount), today, length)]
      BY <3>a
    <3>1. PICK costs \in [1..today -> BudgetCosts] :
            call' = [of |-> "budget", length |-> length, today |-> today, daily |-> costs,
                     evaluation |->
                       Evaluation(ItemsOf(costs), BudgetOf(amount), today, length)]
      BY <3>b
    <3>2. call'.of = "budget" /\ EvaluatedBudget'
      BY <3>1 DEF EvaluatedBudget
    <3>3. QED
      BY <3>2 DEF CallGood, EvaluatedBudget
  <2>5. CASE LoadBill \/ LoadBillInTrouble
    <3>1. ASSUME LoadBill PROVE call' \in BillCall
      <4>1. [failure |-> None, listing |-> FALSE, first |-> BillDays \X Services] \in SdkCalls
        BY DEF SdkCalls
      <4>2. [enabled |-> TRUE, mock |-> FALSE, scope |-> "given"] \in Settings
        BY DEF Settings
      <4>3. \A bill \in [BillDays \X Services -> Amounts] :
              bill \in [BillDays \X Services -> Int]
        <5>1. Amounts \subseteq Int
          BY FiguresAssumption
        <5>2. QED
          BY <5>1
      <4> DEFINE sdk == [failure |-> None, listing |-> FALSE, first |-> BillDays \X Services]
                 setting == [enabled |-> TRUE, mock |-> FALSE, scope |-> "given"]
      <4>4. PICK cloud \in Clouds, granularity \in Granularities,
                 bill \in [BillDays \X Services -> Amounts] :
              call' = [of |-> "bill", cloud |-> cloud, granularity |-> granularity,
                       bill |-> bill, setting |-> setting, sdk |-> sdk]
        BY <3>1 DEF LoadBill
      <4> HIDE DEF sdk, setting
      <4>5. sdk \in SdkCalls /\ setting \in Settings /\ bill \in [BillDays \X Services -> Int]
        BY <4>1, <4>2, <4>3 DEF sdk, setting
      <4>6. QED
        BY <4>4, <4>5 DEF BillCall
    <3>2. ASSUME LoadBillInTrouble PROVE call' \in BillCall
      <4>1. Max(Amounts) \in Int
        BY ExtremesOf, FiguresAssumption
      <4>2. [k \in BillDays \X Services |-> Max(Amounts)] \in [BillDays \X Services -> Int]
        BY <4>1
      <4> DEFINE bill == [k \in BillDays \X Services |-> Max(Amounts)]
      <4>3. PICK cloud \in Clouds, granularity \in Granularities, setting \in Settings,
                 sdk \in SdkCalls :
              call' = [of |-> "bill", cloud |-> cloud, granularity |-> granularity,
                       bill |-> bill, setting |-> setting, sdk |-> sdk]
        BY <3>2 DEF LoadBillInTrouble
      <4> HIDE DEF bill
      <4>4. bill \in [BillDays \X Services -> Int]
        BY <4>2 DEF bill
      <4>5. QED
        BY <4>3, <4>4 DEF BillCall
    <3>3. call' \in BillCall
      BY <2>5, <3>1, <3>2
    <3>4. call'.of = "bill"
      BY <3>3 DEF BillCall
    <3>5. QED
      BY <3>3, <3>4 DEF CallGood, BillCall
  <2>6. CASE AnalyseItems
    <3>1. call'.of = "items"
      BY <2>6 DEF AnalyseItems
    <3>2. QED
      BY <3>1 DEF CallGood
  <2>7. CASE ComparePeriods
    <3>1. call'.of = "periods"
      BY <2>7 DEF ComparePeriods
    <3>2. QED
      BY <3>1 DEF CallGood
  <2>8. CASE call' = call
    BY <2>8 DEF CallGood, BillCall, DayCall, SeriesCall, AdviceCall, EvaluatedBudget
  <2>9. QED
    BY <2>1, <2>2, <2>3, <2>4, <2>5, <2>6, <2>7, <2>8 DEF Next, vars
<1>3. QED
  BY <1>1, <1>2, PTL DEF Spec

\* What is found of a day depends on the median and the MAD of its history alone.
LEMMA SeverityOfMedians ==
  ASSUME NEW h, NEW g, NEW a, Len(h) = Len(g), Median2(h) = Median2(g), Mad4(h) = Mad4(g)
  PROVE  Severity(h, a) = Severity(g, a)
BY DEF Severity, Deviates, Deviation2, Percentage, Score

\* For histories of any length and any costs, one day that went wrong does not
\* move what the days after it are compared with.
THEOREM SpikesAreForgiven == Spec => []SpikeForgiven
<1>1. CallGood => SpikeForgiven
  <2> SUFFICES ASSUME CallGood, call.of = "day", NEW c \in Costs3,
                      NEW i \in DOMAIN call.history, Len(call.history) >= 3,
                      \A j \in DOMAIN call.history \ {i} : call.history[j] = c
               PROVE  Severity(call.history, call.actual)
                        = Severity([j \in DOMAIN call.history |-> c], call.actual)
    BY DEF SpikeForgiven
  <2> DEFINE h == call.history
             g == [j \in DOMAIN h |-> c]
  <2>1. PICK n \in Nat : h \in [1..n -> Int] /\ Len(h) = n /\ DOMAIN h = 1..n
    BY Series, FiguresAssumption DEF CallGood, DayCall
  <2>2. n >= 3 /\ AllBut(n, h, i, c)
    BY <2>1, FiguresAssumption DEF AllBut
  <2>3. AllBut(n, g, i, c)
    BY <2>1, <2>2 DEF AllBut
  <2>4. Len(h) = Len(g)
    BY <2>1, <2>3
  <2> HIDE DEF h, g
  <2>5. Median2(h) = Median2(g) /\ Mad4(h) = Mad4(g)
    BY <2>1, <2>2, <2>3, MedianOfTheOthers, SpreadOfTheOthers
  <2>6. Severity(h, call.actual) = Severity(g, call.actual)
    BY <2>4, <2>5, SeverityOfMedians
  <2>7. QED
    BY <2>6 DEF h, g
<1>2. QED
  BY <1>1, CallsAreGood, PTL

\* The severity of a score is a rank that grows with it.
LEMMA SeverityMonotone ==
  ASSUME NEW a \in Int, NEW b \in Int, a <= b
  PROVE  SeverityOf(a) \in Severities /\ SeverityOf(a) <= SeverityOf(b)
<1> DEFINE Reached(score) == {0} \cup {s \in 1..4 : score >= Scores[s]}
<1>1. \A s \in 1..4 : Scores[s] \in Nat
  BY DetectorAssumption
<1>2. ASSUME NEW S \in SUBSET (0..4), 0 \in S
      PROVE  Max(S) \in S /\ \A x \in S : Max(S) >= x
  <2>1. \E x \in S : \A y \in S : x >= y
    <3>1. S \subseteq {0, 1, 2, 3, 4}
      OBVIOUS
    <3>2. QED
      BY <1>2, <3>1
  <2>2. QED
    BY <2>1 DEF Max
<1>3. Reached(a) \subseteq Reached(b)
  BY <1>1
<1>4. Reached(a) \in SUBSET (0..4) /\ Reached(b) \in SUBSET (0..4)
  OBVIOUS
<1>5. 0 \in Reached(a) /\ 0 \in Reached(b)
  OBVIOUS
<1>6. SeverityOf(a) = Max(Reached(a)) /\ SeverityOf(b) = Max(Reached(b))
  BY DEF SeverityOf
<1> HIDE DEF Reached
<1>7. QED
  BY <1>2, <1>3, <1>4, <1>5, <1>6 DEF Severities

\* The guards and the score grow with the cost of the day.
LEMMA CostlierDeviates ==
  ASSUME NEW n \in Nat \ {0}, NEW h \in [1..n -> Int], \A i \in 1..n : h[i] >= 0,
         NEW a \in Int, NEW b \in Int, a <= b, Deviates(h, a)
  PROVE  /\ Deviates(h, b)
         /\ Score(h, a) \in Int /\ Score(h, b) \in Int /\ Score(h, a) <= Score(h, b)
<1> DEFINE m == Median2(h)
           scale == AtLeast(20000, 7413 * Mad4(h))
           da == Deviation2(h, a)
           db == Deviation2(h, b)
<1>1. m \in Nat
  BY MedianOfNumbers
<1>2. scale \in Nat \ {0}
  BY SpreadOfNumbers DEF AtLeast
<1>3. da \in Int /\ db \in Int /\ da <= db
  BY <1>1 DEF Deviation2
<1>4. da > 0 /\ da >= 2 * MinCost
  BY DEF Deviates
<1>5. m > 0 => Percentage(h, b) \in Int /\ Percentage(h, b) >= MinPercent
  <2> SUFFICES ASSUME m > 0 PROVE Percentage(h, b) \in Int /\ Percentage(h, b) >= MinPercent
    OBVIOUS
  <2>1. Percentage(h, a) = Round(10000 * da, m) /\ Percentage(h, b) = Round(10000 * db, m)
    BY DEF Percentage
  <2>2. 10000 * da \in Int /\ 10000 * db \in Int /\ 10000 * da <= 10000 * db
    BY <1>3
  <2>3. m \in Nat \ {0} /\ Percentage(h, a) >= MinPercent
    BY <1>1 DEF Deviates
  <2> HIDE DEF da, db, m
  <2>4. /\ Percentage(h, a) \in Int /\ Percentage(h, b) \in Int
        /\ Percentage(h, a) <= Percentage(h, b)
    BY <2>1, <2>2, <2>3, RoundMonotone
  <2>5. QED
    BY <2>3, <2>4, DetectorAssumption
<1>6. Deviates(h, b)
  <2>1. db > 0 /\ db >= 2 * MinCost
    BY <1>3, <1>4, DetectorAssumption
  <2>2. Len(h) >= MinHistory
    BY DEF Deviates
  <2>3. QED
    BY <1>5, <2>1, <2>2 DEF Deviates
<1>7. Abs(da) = da /\ Abs(db) = db
  BY <1>3, <1>4 DEF Abs
<1>8. Score(h, a) = Round(da * 1000000, scale) /\ Score(h, b) = Round(db * 1000000, scale)
  BY <1>7 DEF Score
<1>9. da * 1000000 \in Int /\ db * 1000000 \in Int /\ da * 1000000 <= db * 1000000
  BY <1>3
<1> HIDE DEF da, db, scale
<1>10. QED
  BY <1>2, <1>6, <1>8, <1>9, RoundMonotone

\* For histories of any length and any costs and thresholds, no rise hides what a
\* smaller one shows.
THEOREM CostlierIsNoMilder == Spec => []CostlierNoMilder
<1>1. CallGood => CostlierNoMilder
  <2> SUFFICES ASSUME CallGood, call.of = "day", NEW more \in Costs3, more >= call.actual
               PROVE  Severity(call.history, more) >= Severity(call.history, call.actual)
    BY DEF CostlierNoMilder
  <2> DEFINE h == call.history
             a == call.actual
  <2>1. PICK n \in Lengths : h \in [1..n -> Costs3]
    BY DEF CallGood, DayCall, SeriesOf
  <2>2. /\ n \in Nat /\ h \in [1..n -> Int] /\ Len(h) = n /\ \A i \in 1..n : h[i] >= 0
        /\ a \in Int /\ more \in Int /\ a <= more
    <3>1. call \in DayCall
      BY DEF CallGood
    <3>2. a \in Costs3 /\ Costs3 \in SUBSET Nat /\ n \in Nat
      BY <3>1, FiguresAssumption DEF DayCall
    <3> HIDE DEF h, a
    <3>3. a <= more
      BY DEF a
    <3>4. h \in [1..n -> Int] /\ \A i \in 1..n : h[i] >= 0
      <4>1. \A i \in 1..n : h[i] \in Costs3 /\ h[i] \in Nat
        BY <2>1, <3>2 DEF h
      <4>2. h = [i \in 1..n |-> h[i]]
        BY <2>1 DEF h
      <4>3. QED
        BY <4>1, <4>2
    <3>5. Len(h) = n
      BY <2>1, <3>2 DEF h
    <3>6. QED
      BY <3>2, <3>3, <3>4, <3>5
  <2> HIDE DEF h, a
  <2>3. \A x : Deviates(h, x) => n \in Nat \ {0}
    BY <2>2, DetectorAssumption DEF Deviates
  <2>4. ASSUME NEW x \in Int, Deviates(h, x)
        PROVE  Severity(h, x) = SeverityOf(IF Median2(h) = 0 THEN Scores[4] ELSE Score(h, x))
    BY <2>4 DEF Severity
  <2>5. Scores[4] \in Int
    BY DetectorAssumption
  <2>6. CASE Deviates(h, a)
    <3>1. /\ Deviates(h, more)
          /\ Score(h, a) \in Int /\ Score(h, more) \in Int /\ Score(h, a) <= Score(h, more)
      BY <2>2, <2>3, <2>6, CostlierDeviates
    <3> DEFINE sa == IF Median2(h) = 0 THEN Scores[4] ELSE Score(h, a)
               sm == IF Median2(h) = 0 THEN Scores[4] ELSE Score(h, more)
    <3>2. sa \in Int /\ sm \in Int /\ sa <= sm
      BY <2>5, <3>1
    <3>3. Severity(h, a) = SeverityOf(sa) /\ Severity(h, more) = SeverityOf(sm)
      BY <2>2, <2>4, <2>6, <3>1
    <3> HIDE DEF sa, sm
    <3>4. QED
      BY <3>2, <3>3, SeverityMonotone DEF h, a, Severities
  <2>7. CASE ~Deviates(h, a)
    <3>1. Severity(h, a) = 0
      BY <2>7 DEF Severity
    <3>2. Severity(h, more) \in Nat
      <4>1. CASE ~Deviates(h, more)
        BY <4>1 DEF Severity
      <4>2. CASE Deviates(h, more)
        <5> DEFINE sm == IF Median2(h) = 0 THEN Scores[4] ELSE Score(h, more)
        <5>1. sm \in Int
          BY <2>2, <2>3, <2>5, <4>2, CostlierDeviates
        <5>2. Severity(h, more) = SeverityOf(sm)
          BY <2>2, <2>4, <4>2
        <5> HIDE DEF sm
        <5>3. QED
          BY <5>1, <5>2, SeverityMonotone DEF Severities
      <4>3. QED
        BY <4>1, <4>2
    <3>3. QED
      BY <3>1, <3>2 DEF h, a
  <2>8. QED
    BY <2>6, <2>7
<1>2. QED
  BY <1>1, CallsAreGood, PTL

-----------------------------------------------------------------------------
(* Forecasts                                                               *)

\* Every place in the order of a set of positions is that of one of them.
LEMMA NthOf ==
  ASSUME NEW n \in Nat, NEW S \in SUBSET (1..n), NEW i \in 1..Cardinality(S)
  PROVE  Nth(S, i) \in S
<1> DEFINE UpToOf(A, k) == {j \in A : j <= k}
           Has(A) == \A p \in 1..Cardinality(A) : \E k \in A : Cardinality(UpToOf(A, k)) = p
           T == {A \in SUBSET S : Has(A)}
           identity == [j \in 1..n |-> j]
<1>0. \A A \in SUBSET S : IsFiniteSet(A) /\ Cardinality(A) \in Nat
  <2>1. identity \in [1..n -> Int]
    OBVIOUS
  <2>2. QED
    BY <2>1, Counted
<1>1. ASSUME NEW A \in SUBSET S, \A B \in SUBSET A : B # A => B \in T
      PROVE  A \in T
  <2> SUFFICES ASSUME NEW p \in 1..Cardinality(A)
               PROVE  \E k \in A : Cardinality(UpToOf(A, k)) = p
    OBVIOUS
  <2>1. A # {}
    BY FS_EmptySet
  <2>2. PICK m \in A : \A j \in A : j <= m
    <3>1. identity \in [1..n -> Int] /\ A \in SUBSET (1..n)
      OBVIOUS
    <3>2. \E m \in A : \A j \in A : identity[j] <= identity[m]
      <4> HIDE DEF identity
      <4>1. QED
        BY <2>1, <3>1, Largest
    <3>3. QED
      BY <3>2
  <2>3. UpToOf(A, m) = A
    BY <2>2
  <2>4. Cardinality(A \ {m}) = Cardinality(A) - 1
    BY <1>0, FS_RemoveElement
  <2>5. CASE p = Cardinality(A)
    BY <2>3, <2>5
  <2>6. CASE p # Cardinality(A)
    <3>1. Has(A \ {m})
      BY <1>1
    <3>2. p \in 1..Cardinality(A \ {m})
      BY <1>0, <2>4, <2>6
    <3>3. PICK k \in A \ {m} : Cardinality(UpToOf(A \ {m}, k)) = p
      BY <3>1, <3>2
    <3>4. k <= m /\ k # m /\ k \in Int /\ m \in Int
      BY <2>2
    <3>5. UpToOf(A \ {m}, k) = UpToOf(A, k)
      BY <3>4
    <3>6. QED
      BY <3>3, <3>5
  <2>7. QED
    BY <2>5, <2>6
<1>2. T \in SUBSET (SUBSET S)
  OBVIOUS
<1> HIDE DEF T
<1>3. T = SUBSET S
  BY <1>0, <1>1, <1>2, AllSubsets
<1>4. \E k \in S : Cardinality({j \in S : j <= k}) = i
  BY <1>3 DEF T
<1>5. QED
  BY <1>4 DEF Nth

\* What is left of a series is a series, with enough values to fit a line to.
LEMMA CleanedSeries ==
  ASSUME NEW n \in Nat, n >= MinObservations, NEW s \in [1..n -> Int]
  PROVE  \E m \in Nat : m >= 2 /\ Cleaned(s) \in [1..m -> Int] /\ Len(Cleaned(s)) = m
<1> DEFINE kept == {i \in 1..n : ~Extreme(s, s[i])}
           m == Cardinality(kept)
           left == InOrder(Restrict(s, kept))
<1>1. DOMAIN s = 1..n /\ Len(s) = n /\ n >= 2
  BY ForecasterAssumption
<1>2. m \in Nat
  BY Counted
<1>3. CASE m <= 2
  <2>1. Cleaned(s) = s
    BY <1>1, <1>3 DEF Cleaned
  <2>2. QED
    BY <1>1, <2>1
<1>4. CASE m > 2
  <2>1. Cleaned(s) = left
    BY <1>1, <1>2, <1>4, ForecasterAssumption DEF Cleaned
  <2>2. left = [i \in 1..m |-> s[Nth(kept, i)]]
    <3>1. DOMAIN Restrict(s, kept) = kept /\ \A k \in kept : Restrict(s, kept)[k] = s[k]
      BY DEF Restrict
    <3>2. \A i \in 1..m : Nth(kept, i) \in kept
      BY NthOf
    <3> HIDE DEF kept
    <3>3. QED
      BY <3>1, <3>2 DEF InOrder
  <2>3. \A i \in 1..m : Nth(kept, i) \in 1..n
    BY NthOf
  <2> HIDE DEF m, kept, left
  <2>4. left \in [1..m -> Int]
    BY <2>2, <2>3
  <2>5. Len(left) = m
    BY <1>2, <2>4
  <2>6. QED
    BY <1>2, <1>4, <2>1, <2>4, <2>5
<1>5. QED
  BY <1>2, <1>3, <1>4

\* The figures a series is projected from: of a unit and a spread that are
\* positive.
FitGood(fit) ==
  /\ fit.parts \in Nat \ {0} /\ fit.level \in Int /\ fit.trend \in Int
  /\ fit.spread \in Nat

LEMMA UnitPositive ==
  ASSUME NEW n \in Nat, n >= 2
  PROVE  Weights(n) \in Nat \ {0} /\ Moments(n) \in Nat \ {0} /\ Parts(n) \in Nat \ {0}
<1> DEFINE k == AtMost(RecentDays, n)
<1>1. k \in Nat \ {0}
  BY ForecasterAssumption DEF AtMost
<1>2. Weights(n) = (k * (k + 1)) \div 2
  BY DEF Weights
<1> HIDE DEF k
<1>3. k * (k + 1) \in Nat /\ k * (k + 1) >= 2
  <2>1. k >= 1 /\ k + 1 >= 2
    BY <1>1
  <2>2. k * 2 <= k * (k + 1)
    BY <1>1, <2>1, Product
  <2>3. QED
    BY <1>1, <2>2
<1>4. Weights(n) \in Nat \ {0}
  <2> DEFINE q == k * (k + 1)
  <2>1. q \in Nat /\ q >= 2 /\ Weights(n) = q \div 2
    BY <1>2, <1>3
  <2> HIDE DEF q
  <2>2. QED
    BY <2>1
<1>5. Moments(n) \in Nat \ {0}
  <2>1. n * n \in Nat /\ n * 2 <= n * n
    BY Product
  <2> DEFINE r == n * n - 1
  <2>2. r \in Nat \ {0}
    BY <2>1
  <2>3. Moments(n) = n * r
    BY DEF Moments
  <2> HIDE DEF r
  <2>4. n * 1 <= n * r /\ n * r \in Nat
    BY <2>2, Product
  <2>5. QED
    BY <2>3, <2>4
<1>6. Parts(n) \in Nat \ {0}
  <2> DEFINE w == Weights(n)
             x == Moments(n)
  <2>1. w \in Nat \ {0} /\ x \in Nat \ {0} /\ Parts(n) = 10 * w * x
    BY <1>4, <1>5 DEF Parts
  <2> HIDE DEF w, x
  <2>2. 10 * w \in Nat \ {0}
    BY <2>1
  <2>3. (10 * w) * 1 <= (10 * w) * x /\ (10 * w) * x \in Nat
    BY <2>1, <2>2, Product
  <2>4. QED
    BY <2>1, <2>2, <2>3
<1>7. QED
  BY <1>4, <1>5, <1>6

LEMMA LevelOfNumbers ==
  ASSUME NEW n \in Nat, n >= 2, NEW s \in [1..n -> Int]
  PROVE  Level(s) \in Int /\ Slope(s) \in Int
<1> DEFINE first == AtLeast(0, n - RecentDays)
           weighted == [i \in (first + 1)..n |-> (i - first) * s[i]]
           moment == [i \in 1..n |-> 6 * (2 * i - n - 1) * s[i]]
<1>1. Len(s) = n
  OBVIOUS
<1>2. first \in Nat
  BY ForecasterAssumption DEF AtLeast
<1>3. SumFunction(weighted) \in Int
  <2>1. IsFiniteSet((first + 1)..n)
    BY <1>2, FS_Interval
  <2>2. \A i \in (first + 1)..n : weighted[i] \in Int
    BY <1>2
  <2>3. DOMAIN weighted = (first + 1)..n
    OBVIOUS
  <2> HIDE DEF weighted, first
  <2>4. QED
    BY <2>1, <2>2, <2>3, SumOfNumbers DEF SumFunction
<1>4. SumFunction(moment) \in Int
  <2>1. IsFiniteSet(1..n)
    BY FS_Interval
  <2>2. \A i \in 1..n : moment[i] \in Int
    OBVIOUS
  <2>3. DOMAIN moment = 1..n
    OBVIOUS
  <2> HIDE DEF moment
  <2>4. QED
    BY <2>1, <2>2, <2>3, SumOfNumbers DEF SumFunction
<1>5. /\ Level(s) = SumFunction(weighted) * 10 * Moments(n)
      /\ Slope(s) = SumFunction(moment) * 10 * Weights(n)
  BY <1>1 DEF Level, Slope
<1>6. Moments(n) \in Int /\ Weights(n) \in Int
  BY UnitPositive
<1> HIDE DEF weighted, moment
<1>7. QED
  BY <1>3, <1>4, <1>5, <1>6

LEMMA FitIsGood ==
  ASSUME NEW n \in Nat, n >= 2, NEW s \in [1..n -> Int]
  PROVE  FitGood(Fit(s))
<1> DEFINE parts == Parts(n)
           level == Level(s)
           trend == Trend(level, Slope(s), parts)
           residuals == [i \in 1..n |-> Abs(s[i] * parts - (level + trend * (i - n)))]
           widths == {Median2(residuals), level \div 10, parts}
<1>1. Len(s) = n
  OBVIOUS
<1>2. parts \in Nat \ {0}
  BY UnitPositive
<1>3. level \in Int /\ Slope(s) \in Int
  BY LevelOfNumbers
<1>4. trend \in Int
  <2>1. level \div 2 \in Int
    BY <1>3
  <2> DEFINE bound == AtLeast(parts, level \div 2)
  <2>2. bound \in Int
    BY <1>2, <2>1 DEF AtLeast
  <2>3. trend = AtLeast(-bound, AtMost(bound, Slope(s)))
    BY DEF Trend
  <2> HIDE DEF bound
  <2>4. QED
    BY <1>3, <2>2, <2>3 DEF AtLeast, AtMost
<1>5. Median2(residuals) \in Int
  <2>1. residuals \in [1..n -> Int]
    <3> HIDE DEF parts, level, trend
    <3>1. \A i \in 1..n : s[i] * parts - (level + trend * (i - n)) \in Int
      BY <1>2, <1>3, <1>4
    <3>2. QED
      BY <3>1 DEF Abs
  <2> HIDE DEF residuals
  <2>2. QED
    BY <2>1, MedianOfNumbers
<1>6. level \div 10 \in Int
  BY <1>3
<1>7. Max(widths) \in Nat
  <2> DEFINE a == Median2(residuals)
             b == level \div 10
  <2>1. a \in Int /\ b \in Int /\ parts \in Nat
    BY <1>2, <1>5, <1>6
  <2> HIDE DEF a, b, parts
  <2>2. \E x \in {a, b, parts} : \A y \in {a, b, parts} : x >= y
    BY <2>1
  <2>3. Max({a, b, parts}) \in {a, b, parts} /\ Max({a, b, parts}) >= parts
    BY <2>2 DEF Max
  <2>4. Max({a, b, parts}) \in Nat
    BY <2>1, <2>3
  <2>5. QED
    BY <2>4 DEF a, b
<1>8. Spread(s, level, trend, parts) = Max(widths)
  BY <1>1 DEF Spread
<1>9. Fit(s) = [used |-> n, parts |-> parts, level |-> level, trend |-> trend,
                spread |-> Spread(s, level, trend, parts)]
  BY <1>1 DEF Fit
<1> HIDE DEF parts, level, trend, widths
<1>10. QED
  BY <1>2, <1>3, <1>4, <1>7, <1>8, <1>9 DEF FitGood

\* The band of a day contains what is expected of it.
BandOf(x, cost) ==
  /\ x.lower \in Nat /\ cost \in Nat /\ x.upper \in Nat
  /\ x.lower <= cost /\ cost <= x.upper

LEMMA PointWithin ==
  ASSUME NEW fit, FitGood(fit), NEW step \in Nat, Root[step] \in Nat
  PROVE  BandOf(Point(fit, step), Point(fit, step).cost)
<1> DEFINE expected == AtLeast(0, fit.level + fit.trend * step)
           uncertainty == (fit.spread * Root[step]) \div 100
           low == AtLeast(0, expected - uncertainty)
           high == expected + uncertainty
<1>1. expected \in Nat
  <2> DEFINE e == fit.level + fit.trend * step
  <2>1. e \in Int
    BY DEF FitGood
  <2> HIDE DEF e
  <2>2. expected = AtLeast(0, e)
    BY DEF e
  <2>3. QED
    BY <2>1, <2>2 DEF AtLeast
<1>2. uncertainty \in Nat
  <2> DEFINE u == fit.spread * Root[step]
  <2>1. u \in Nat
    BY DEF FitGood
  <2> HIDE DEF u
  <2>2. uncertainty = u \div 100
    BY DEF u
  <2>3. QED
    BY <2>1, <2>2
<1>3. Point(fit, step) = [cost |-> Round(expected, fit.parts), lower |-> Round(low, fit.parts),
                          upper |-> Round(high, fit.parts)]
  BY DEF Point
<1> HIDE DEF expected, uncertainty
<1>4. low \in Nat /\ high \in Nat /\ low <= expected /\ expected <= high
  BY <1>1, <1>2 DEF AtLeast
<1>5. fit.parts \in Nat \ {0}
  BY DEF FitGood
<1> HIDE DEF low, high
<1>6. /\ Round(low, fit.parts) \in Nat /\ Round(expected, fit.parts) \in Nat
      /\ Round(high, fit.parts) \in Nat
      /\ Round(low, fit.parts) <= Round(expected, fit.parts)
      /\ Round(expected, fit.parts) <= Round(high, fit.parts)
  <2>1. /\ low \in Int /\ expected \in Int /\ high \in Int
        /\ low >= 0 /\ expected >= 0 /\ high >= 0
    BY <1>1, <1>4
  <2>2. /\ Round(low, fit.parts) \in Int /\ Round(expected, fit.parts) \in Int
        /\ Round(low, fit.parts) <= Round(expected, fit.parts) /\ Round(low, fit.parts) >= 0
    BY <1>4, <1>5, <2>1, RoundMonotone
  <2>3. /\ Round(high, fit.parts) \in Int /\ Round(expected, fit.parts) >= 0
        /\ Round(expected, fit.parts) <= Round(high, fit.parts)
    BY <1>4, <1>5, <2>1, RoundMonotone
  <2>4. QED
    BY <2>2, <2>3
<1>7. QED
  BY <1>3, <1>6 DEF BandOf

\* So do the sums over the days.
LEMMA ProjectionWithin ==
  ASSUME NEW daily, NEW fit, FitGood(fit), NEW horizon \in Nat,
         \A step \in 1..horizon : Root[step] \in Nat
  PROVE  LET p == Projection(daily, fit, horizon)
         IN  /\ BandOf(p, p.projected)
             /\ \A point \in Range(p.points) : BandOf(point, point.cost)
<1> DEFINE p == Projection(daily, fit, horizon)
           points == [step \in 1..horizon |-> Point(fit, step)]
           days == 1..horizon
           lower == [s \in days |-> points[s]["lower"]]
           cost == [s \in days |-> points[s]["cost"]]
           upper == [s \in days |-> points[s]["upper"]]
<1>1. /\ p.points = points /\ p.lower = SumFunction(lower)
      /\ p.projected = SumFunction(cost) /\ p.upper = SumFunction(upper)
  BY DEF Projection
<1>2. ASSUME NEW s \in days PROVE BandOf(points[s], points[s].cost)
  BY PointWithin
<1>3. \A point \in Range(points) : BandOf(point, point.cost)
  BY <1>2 DEF Range
<1>4. ASSUME NEW s \in days
      PROVE  /\ lower[s] \in Nat /\ cost[s] \in Nat /\ upper[s] \in Nat
             /\ lower[s] <= cost[s] /\ cost[s] <= upper[s]
  <2> HIDE DEF points
  <2>1. QED
    BY <1>2 DEF BandOf
<1>5. DOMAIN lower = days /\ DOMAIN cost = days /\ DOMAIN upper = days
  OBVIOUS
<1>6. IsFiniteSet(days)
  BY FS_Interval
<1> HIDE DEF points, lower, cost, upper, days, p
<1>7. /\ SumFunctionOnSet(lower, days) \in Nat /\ SumFunctionOnSet(cost, days) \in Nat
      /\ SumFunctionOnSet(upper, days) \in Nat
  <2>1. \A s \in days : lower[s] \in Int /\ cost[s] \in Int /\ upper[s] \in Int
    BY <1>4
  <2>2. QED
    BY <1>4, <1>6, <2>1, SumOfNumbers
<1>8. /\ SumFunctionOnSet(lower, days) <= SumFunctionOnSet(cost, days)
      /\ SumFunctionOnSet(cost, days) <= SumFunctionOnSet(upper, days)
  <2>1. \A s \in days : /\ lower[s] \in Int /\ cost[s] \in Int /\ upper[s] \in Int
                        /\ lower[s] <= cost[s] /\ cost[s] <= upper[s]
    BY <1>4
  <2>2. QED
    BY <1>6, <2>1, SumMonotone
<1>9. QED
  BY <1>1, <1>3, <1>5, <1>7, <1>8 DEF BandOf, SumFunction, p

\* Up to every horizon there is a root.
LEMMA RootsReach ==
  ASSUME NEW h \in 1..3
  PROVE  Horizons[h] \in Nat /\ \A step \in 1..Horizons[h] : Root[step] \in Nat
<1>1. Horizons[h] \in Nat
  <2>1. Horizons \in Seq(Nat) /\ h \in 1..Len(Horizons)
    BY BudgetEvaluationAssumption
  <2>2. QED
    BY <2>1
<1>2. Horizons[h] <= Len(Root)
  BY BudgetEvaluationAssumption
<1>3. Root \in Seq(Nat)
  BY ForecasterAssumption
<1>4. Len(Root) \in Nat /\ \A step \in 1..Len(Root) : Root[step] \in Nat
  BY <1>3
<1>5. QED
  BY <1>1, <1>2, <1>4

\* For any series of costs and any settings of the forecast, no answer is refused
\* by the bounds of the response model.
THEOREM BandAlwaysHolds == Spec => []BandHolds
<1>1. CallGood => BandHolds
  <2> SUFFICES ASSUME CallGood, call.of = "series", call.forecast # None
               PROVE  /\ BandOf(call.forecast, call.forecast.projected)
                      /\ \A point \in Range(call.forecast.points) : BandOf(point, point.cost)
    BY DEF BandHolds, BandOf
  <2>1. PICK daily \in SeriesOf(Costs3) :
          call = [of |-> "series", daily |-> daily, forecast |-> GroupForecast(daily, Horizons[1])]
    BY DEF CallGood, SeriesCall
  <2>2. PICK n \in Nat : daily \in [1..n -> Int] /\ Len(daily) = n
    BY <2>1, FiguresAssumption, Series
  <2>3. n >= MinObservations /\ call.forecast = Projection(daily, Fit(Cleaned(daily)), Horizons[1])
    <3>1. call.forecast = GroupForecast(daily, Horizons[1])
      BY <2>1
    <3>2. QED
      BY <2>2, <3>1, ForecasterAssumption DEF GroupForecast
  <2>4. FitGood(Fit(Cleaned(daily)))
    BY <2>2, <2>3, CleanedSeries, FitIsGood
  <2>5. Horizons[1] \in Nat /\ \A step \in 1..Horizons[1] : Root[step] \in Nat
    BY RootsReach
  <2>6. QED
    BY <2>3, <2>4, <2>5, ProjectionWithin
<1>2. QED
  BY <1>1, CallsAreGood, PTL

Threshold4(s) ==
  IF Mad4(s) = 0 THEN 6 * Median2(s) ELSE 2 * Median2(s) + 3 * Mad4(s)

LEMMA ExtremeIs ==
  ASSUME NEW s, NEW c
  PROVE  Extreme(s, c) <=> 4 * c > Threshold4(s) /\ 2 * c > Median2(s)
<1> DEFINE d == [i \in DOMAIN s |-> Abs(2 * s[i] - Median2(s))]
<1>1. Mad4(s) = Median2(d)
  BY DEF Mad4
<1>2. Extreme(s, c) <=> 4 * c > (IF Median2(d) = 0 THEN 6 * Median2(s)
                                 ELSE 2 * Median2(s) + 3 * Median2(d)) /\ 2 * c > Median2(s)
  BY DEF Extreme
<1> HIDE DEF d
<1>3. QED
  BY <1>1, <1>2 DEF Threshold4

\* An outlier is above both of the middle values, and as far from the median as
\* neither of the middle distances is.
LEMMA ExtremeIsOutside ==
  ASSUME NEW n \in Nat \ {0}, NEW s \in [1..n -> Int], NEW i \in 1..n, Extreme(s, s[i])
  PROVE  LET d == [j \in 1..n |-> Abs(2 * s[j] - Median2(s))]
             k == (n + 1) \div 2
             l == (n + 2) \div 2
         IN  /\ s[i] > Ranked(s, k) /\ s[i] > Ranked(s, l)
             /\ d[i] > Ranked(d, k) /\ d[i] > Ranked(d, l)
             /\ d[i] = 2 * s[i] - Median2(s)
<1> DEFINE d == [j \in 1..n |-> Abs(2 * s[j] - Median2(s))]
           k == (n + 1) \div 2
           l == (n + 2) \div 2
           low == Ranked(s, k)
           high == Ranked(s, l)
           dlow == Ranked(d, k)
           dhigh == Ranked(d, l)
           m == Median2(s)
           mad == Mad4(s)
           c == s[i]
<1>1. /\ low \in Int /\ high \in Int /\ low <= high
      /\ \A j \in 1..n : s[j] <= low \/ s[j] >= high
  BY Middle
<1>2. m = low + high
  BY DEF Median2
<1>3. d \in [1..n -> Int]
  <2> HIDE DEF m, low, high
  <2>1. QED
    BY <1>1, <1>2 DEF Abs, m
<1>4. /\ dlow \in Int /\ dhigh \in Int /\ dlow <= dhigh
      /\ dlow \in Range(d) /\ dhigh \in Range(d)
  <2> HIDE DEF d
  <2>1. QED
    BY <1>3, Middle
<1>5. mad = dlow + dhigh
  <2>1. DOMAIN s = 1..n /\ Len(d) = n
    BY <1>3
  <2>2. mad = Median2(d)
    BY <2>1 DEF Mad4
  <2> HIDE DEF d
  <2>3. QED
    BY <2>1, <2>2 DEF Median2
<1>6. 4 * c > (IF mad = 0 THEN 6 * m ELSE 2 * m + 3 * mad) /\ 2 * c > m
  BY ExtremeIs DEF Threshold4
<1>7. \A j \in 1..n : s[j] \in Int /\ d[j] = Abs(2 * s[j] - m)
  OBVIOUS
<1> HIDE DEF d, low, high, dlow, dhigh, m, mad, k, l
<1>8. \A j \in 1..n : d[j] >= high - low /\ d[j] >= 0
  <2> SUFFICES ASSUME NEW j \in 1..n PROVE d[j] >= high - low /\ d[j] >= 0
    OBVIOUS
  <2> DEFINE v == s[j]
  <2>1. v \in Int /\ d[j] = Abs(2 * v - m) /\ (v <= low \/ v >= high)
    BY <1>1, <1>7
  <2> HIDE DEF v
  <2>2. Abs(2 * v - m) >= high - low /\ Abs(2 * v - m) >= 0
    BY <1>1, <1>2, <2>1 DEF Abs
  <2>3. QED
    BY <2>1, <2>2
<1>9. dlow >= high - low /\ dlow >= 0
  BY <1>3, <1>4, <1>8 DEF Range
<1>10. d[i] = 2 * c - m /\ c \in Int
  BY <1>1, <1>2, <1>6, <1>7 DEF Abs
<1> HIDE DEF c
<1>11. d[i] > dhigh /\ d[i] > dlow
  BY <1>1, <1>2, <1>4, <1>5, <1>6, <1>9, <1>10
<1>12. c > high
  <2>1. c <= low \/ c >= high
    BY <1>1 DEF c
  <2>2. c > low
    BY <1>1, <1>2, <1>6, <1>10
  <2>3. c # high
    BY <1>1, <1>2, <1>4, <1>5, <1>6, <1>9, <1>10, <2>2
  <2>4. QED
    BY <1>1, <1>10, <2>1, <2>2, <2>3
<1>13. c > low
  BY <1>1, <1>10, <1>12
<1>14. QED
  BY <1>10, <1>11, <1>12, <1>13 DEF d, low, high, dlow, dhigh, m, k, l, c

LEMMA OutlierMovesNothing ==
  ASSUME NEW n \in Nat \ {0}, NEW s, NEW i, NEW r, Raised(n, s, i, r), Extreme(s, s[i])
  PROVE  Median2(r) = Median2(s) /\ Mad4(r) = Mad4(s)
<1> DEFINE x == r[i]
           k == (n + 1) \div 2
           l == (n + 2) \div 2
           m == Median2(s)
           d == [j \in 1..n |-> Abs(2 * s[j] - m)]
           e == [j \in 1..n |-> Abs(2 * r[j] - m)]
           y == 2 * x - m
<1>0. /\ s \in [1..n -> Int] /\ i \in 1..n /\ r \in [1..n -> Int] /\ x >= s[i] /\ x \in Int
      /\ \A j \in (1..n) \ {i} : r[j] = s[j]
  BY DEF Raised
<1>1. k \in 1..n /\ l \in 1..n
  OBVIOUS
<1>2. /\ s[i] > Ranked(s, k) /\ s[i] > Ranked(s, l)
      /\ d[i] > Ranked(d, k) /\ d[i] > Ranked(d, l) /\ d[i] = 2 * s[i] - m
  BY <1>0, ExtremeIsOutside
<1>3. m \in Int
  BY <1>0, MedianOfNumbers
<1>4. r \in [1..n -> Int] /\ Len(r) = n /\ Len(s) = n /\ DOMAIN r = 1..n /\ DOMAIN s = 1..n
  BY <1>0
<1>5. d \in [1..n -> Int] /\ e \in [1..n -> Int] /\ Len(d) = n /\ Len(e) = n
  <2> HIDE DEF m
  <2>1. \A z \in Int : Abs(2 * z - m) \in Int
    BY <1>3 DEF Abs
  <2>2. d \in [1..n -> Int] /\ e \in [1..n -> Int]
    BY <1>0, <2>1
  <2> HIDE DEF d, e
  <2>3. QED
    BY <2>2
<1>6. Median2(r) = m
  <2>1. Ranked(r, k) = Ranked(s, k) /\ Ranked(r, l) = Ranked(s, l)
    <3> HIDE DEF k, l, m, d, e
    <3>2. QED
      BY <1>1, <1>2, RankedUnmoved
  <2>2. QED
    BY <1>4, <2>1 DEF Median2
<1>7. y \in Int /\ y >= d[i]
  <2> HIDE DEF d, m, x
  <2>1. s[i] \in Int
    BY <1>0
  <2>2. QED
    BY <1>0, <1>2, <1>3, <2>1
<1>8. d[i] >= 0
  <2> HIDE DEF m
  <2>1. QED
    BY <1>0, <1>3 DEF Abs
<1>9. e = [d EXCEPT ![i] = y]
  <2>1. \A j \in 1..n : e[j] = IF j = i THEN y ELSE d[j]
    <3> SUFFICES ASSUME NEW j \in 1..n PROVE e[j] = IF j = i THEN y ELSE d[j]
      OBVIOUS
    <3>1. CASE j # i
      BY <1>0, <3>1
    <3>2. CASE j = i
      <4>1. e[i] = Abs(y)
        BY <1>0
      <4> HIDE DEF e, d, y
      <4>2. Abs(y) = y
        BY <1>0, <1>5, <1>7, <1>8 DEF Abs
      <4>3. QED
        BY <3>2, <4>1, <4>2
    <3>3. QED
      BY <3>1, <3>2
  <2> HIDE DEF y
  <2>2. e = [j \in 1..n |-> e[j]] /\ [d EXCEPT ![i] = y] = [j \in 1..n |-> IF j = i THEN y ELSE d[j]]
    OBVIOUS
  <2> HIDE DEF e, d
  <2>3. QED
    BY <2>1, <2>2
<1>10. Median2(e) = Median2(d)
  <2> HIDE DEF k, l, m, d, e, y
  <2>1. Ranked(e, k) = Ranked(d, k) /\ Ranked(e, l) = Ranked(d, l)
    <3>1. Raised(n, d, i, e)
      BY <1>5, <1>7, <1>9 DEF Raised
    <3>2. Ranked(e, k) = Ranked(d, k)
      BY <1>1, <1>2, <3>1, RankedUnmoved
    <3>3. Ranked(e, l) = Ranked(d, l)
      BY <1>1, <1>2, <3>1, RankedUnmoved
    <3>4. QED
      BY <3>2, <3>3
  <2>2. QED
    BY <1>5, <2>1 DEF Median2, k, l
<1>11. Mad4(s) = Median2(d)
  BY <1>4 DEF Mad4
<1>12. Mad4(r) = Median2(e)
  BY <1>4, <1>6 DEF Mad4
<1> HIDE DEF d, e, m
<1>13. QED
  BY <1>6, <1>10, <1>11, <1>12 DEF m

LEMMA OutlierCleaned ==
  ASSUME NEW n \in Nat, NEW s, NEW i, NEW r, Raised(n, s, i, r), Extreme(s, s[i]),
         Len(Cleaned(s)) < n
  PROVE  n >= MinObservations /\ Cleaned(r) = Cleaned(s)
<1> DEFINE x == r[i]
           Kept(t) == {j \in 1..n : ~Extreme(t, t[j])}
<1>2. /\ s \in [1..n -> Int] /\ r \in [1..n -> Int] /\ i \in 1..n
      /\ r[i] = x /\ x \in Int /\ x >= s[i] /\ \A j \in (1..n) \ {i} : r[j] = s[j]
  BY DEF Raised
<1>1. Len(s) = n /\ DOMAIN s = 1..n /\ Len(r) = n /\ DOMAIN r = 1..n /\ n # 0
  BY <1>2
<1>3. Median2(r) = Median2(s) /\ Mad4(r) = Mad4(s)
  BY <1>1, OutlierMovesNothing
<1> HIDE DEF x
<1>4. Threshold4(r) = Threshold4(s)
  BY <1>3 DEF Threshold4
<1>5. \A c : Extreme(r, c) <=> Extreme(s, c)
  BY <1>3, <1>4, ExtremeIs
<1>6. Extreme(s, x)
  <2>1. Median2(s) \in Int /\ Mad4(s) \in Int
    BY <1>1, <1>2, MedianOfNumbers, SpreadOfNumbers
  <2>2. Threshold4(s) \in Int
    BY <2>1 DEF Threshold4
  <2>3. 4 * s[i] > Threshold4(s) /\ 2 * s[i] > Median2(s) /\ s[i] \in Int
    BY <1>2, ExtremeIs
  <2>4. 4 * x > Threshold4(s) /\ 2 * x > Median2(s)
    BY <1>2, <2>1, <2>2, <2>3
  <2>5. QED
    BY <2>4, ExtremeIs
<1>7. i \notin Kept(s) /\ i \notin Kept(r)
  BY <1>2, <1>5, <1>6
<1>8. Kept(r) = Kept(s)
  <2>1. \A j \in (1..n) \ {i} : j \in Kept(r) <=> j \in Kept(s)
    BY <1>2, <1>5
  <2>2. QED
    BY <1>7, <2>1
<1>9. Restrict(r, Kept(r)) = Restrict(s, Kept(s))
  <2>1. \A j \in Kept(s) : r[j] = s[j]
    BY <1>2, <1>7
  <2>2. QED
    BY <1>8, <2>1 DEF Restrict
<1>10. \A t : Len(t) = n /\ DOMAIN t = 1..n =>
         Cleaned(t) = IF n < MinObservations \/ Cardinality(Kept(t)) <= 2 THEN t
                      ELSE InOrder(Restrict(t, Kept(t)))
  BY DEF Cleaned
<1> HIDE DEF Kept
<1>11. ~(n < MinObservations) /\ ~(Cardinality(Kept(s)) <= 2)
  BY <1>1, <1>10
<1>12. Cleaned(r) = Cleaned(s)
  BY <1>1, <1>8, <1>9, <1>10, <1>11
<1>13. n >= MinObservations
  BY <1>11, ForecasterAssumption
<1>14. QED
  BY <1>12, <1>13

\* A projection is a forecast, and not None.
LEMMA ProjectionIsForecast ==
  ASSUME NEW n \in Nat, NEW s \in [1..n -> Int], NEW m \in Nat, m >= 2,
         NEW v \in [1..m -> Int], NEW horizon \in Nat,
         \A step \in 1..horizon : Root[step] \in Nat
  PROVE  Projection(s, Fit(v), horizon) \in AnyForecast
<1> DEFINE p == Projection(s, Fit(v), horizon)
           points == [step \in 1..horizon |-> Point(Fit(v), step)]
           total == SumFunctionOnSet(s, AtLeast(1, n - horizon + 1)..n)
<1>1. FitGood(Fit(v))
  BY FitIsGood
<1>2. Fit(v).used \in Nat
  <2>1. Fit(v).used = Len(v)
    BY DEF Fit
  <2>2. QED
    BY <2>1
<1>3. /\ p.lower \in Int /\ p.projected \in Int /\ p.upper \in Int
      /\ \A point \in Range(p.points) : BandOf(point, point.cost)
  BY <1>1, ProjectionWithin DEF BandOf
<1>4. points \in Seq([cost : Int, lower : Int, upper : Int])
  <2> SUFFICES ASSUME NEW step \in 1..horizon
               PROVE  Point(Fit(v), step) \in [cost : Int, lower : Int, upper : Int]
    OBVIOUS
  <2>1. BandOf(Point(Fit(v), step), Point(Fit(v), step).cost)
    BY <1>1, PointWithin
  <2> DEFINE a == Point(Fit(v), step).cost
             b == Point(Fit(v), step).lower
             c == Point(Fit(v), step).upper
  <2>2. a \in Int /\ b \in Int /\ c \in Int
    BY <2>1 DEF BandOf
  <2>3. Point(Fit(v), step) = [cost |-> a, lower |-> b, upper |-> c]
    BY DEF Point
  <2> HIDE DEF a, b, c
  <2>4. QED
    BY <2>2, <2>3
<1>5. total \in Int
  <2>1. IsFiniteSet(AtLeast(1, n - horizon + 1)..n)
    <3>1. AtLeast(1, n - horizon + 1) \in Int
      BY DEF AtLeast
    <3>2. QED
      BY <3>1, FS_Interval
  <2>2. \A i \in AtLeast(1, n - horizon + 1)..n : s[i] \in Int
    BY DEF AtLeast
  <2>3. QED
    BY <2>1, <2>2, SumOfNumbers
<1>6. Confidence(Fit(v)) \in {"low", "medium", "high"}
  BY DEF Confidence
<1>7. p = [points |-> points, projected |-> p.projected, lower |-> p.lower, upper |-> p.upper,
           confidence |-> Confidence(Fit(v)), used |-> Fit(v).used, historical |-> total]
  <2>1. Len(s) = n
    OBVIOUS
  <2>2. QED
    BY <2>1 DEF Projection
<1> HIDE DEF p, points, total
<1>8. p \in AnyForecast
  BY <1>2, <1>3, <1>4, <1>5, <1>6, <1>7 DEF AnyForecast
<1>9. QED
  BY <1>8 DEF p

\* What is projected depends on the fit alone, but for the history that is quoted.
LEMMA ProjectionOfFit ==
  ASSUME NEW s, NEW r, NEW fit, NEW horizon
  PROVE  [Projection(s, fit, horizon) EXCEPT !.historical = 0]
           = [Projection(r, fit, horizon) EXCEPT !.historical = 0]
<1> DEFINE p == Projection(s, fit, horizon)
           q == Projection(r, fit, horizon)
           Figures(a, b, c, d, e, f, h) ==
             [points |-> a, projected |-> b, lower |-> c, upper |-> d, confidence |-> e,
              used |-> f, historical |-> h]
<1>1. /\ p = Figures(p.points, p.projected, p.lower, p.upper, p.confidence, p.used, p.historical)
      /\ q = Figures(q.points, q.projected, q.lower, q.upper, q.confidence, q.used, q.historical)
  BY DEF Projection
<1>2. /\ p.points = q.points /\ p.projected = q.projected /\ p.lower = q.lower
      /\ p.upper = q.upper /\ p.confidence = q.confidence /\ p.used = q.used
  BY DEF Projection
<1>3. \A a, b, c, d, e, f, h :
        [Figures(a, b, c, d, e, f, h) EXCEPT !.historical = 0] = Figures(a, b, c, d, e, f, 0)
  OBVIOUS
<1> HIDE DEF p, q, Figures
<1>4. /\ [p EXCEPT !.historical = 0]
             = Figures(p.points, p.projected, p.lower, p.upper, p.confidence, p.used, 0)
      /\ [q EXCEPT !.historical = 0]
             = Figures(q.points, q.projected, q.lower, q.upper, q.confidence, q.used, 0)
  BY <1>1, <1>3
<1>5. [p EXCEPT !.historical = 0] = [q EXCEPT !.historical = 0]
  BY <1>2, <1>4
<1>6. QED
  BY <1>5 DEF p, q

\* For any series of costs: how high a day is that the forecast leaves out moves
\* neither the projection nor the band.
THEOREM OutliersHeightIsIgnored == Spec => []OutlierHeightIgnored
<1>1. CallGood => OutlierHeightIgnored
  <2> SUFFICES ASSUME CallGood, call.of = "series", NEW i \in DOMAIN call.daily, NEW more \in Costs3,
                      Len(Cleaned(call.daily)) < Len(call.daily),
                      Extreme(call.daily, call.daily[i]), more >= call.daily[i]
               PROVE  LET higher == GroupForecast([call.daily EXCEPT ![i] = more], Ahead)
                      IN /\ higher # None
                         /\ [higher EXCEPT !.historical = 0]
                              = [call.forecast EXCEPT !.historical = 0]
    BY DEF OutlierHeightIgnored
  <2>1. PICK s \in SeriesOf(Costs3) :
          call = [of |-> "series", daily |-> s, forecast |-> GroupForecast(s, Horizons[1])]
    BY DEF CallGood, SeriesCall
  <2>2. PICK n \in Nat : s \in [1..n -> Int] /\ Len(s) = n /\ DOMAIN s = 1..n
    BY <2>1, FiguresAssumption, Series
  <2> DEFINE r == [s EXCEPT ![i] = more]
  <2>3. call.daily = s /\ call.forecast = GroupForecast(s, Ahead)
    BY <2>1 DEF Ahead
  <2>4. i \in 1..n /\ more \in Int /\ more >= s[i] /\ Extreme(s, s[i]) /\ Len(Cleaned(s)) < n
    BY <2>2, <2>3, FiguresAssumption
  <2>5. n >= MinObservations /\ Cleaned(r) = Cleaned(s)
    <3>1. Raised(n, s, i, r)
      BY <2>2, <2>4 DEF Raised
    <3> HIDE DEF r
    <3>2. QED
      BY <2>4, <3>1, OutlierCleaned
  <2>6. r \in [1..n -> Int] /\ Len(r) = n
    BY <2>2, <2>4
  <2> HIDE DEF r
  <2>7. ~(n < MinObservations)
    BY <2>5, ForecasterAssumption
  <2>8. /\ GroupForecast(s, Ahead) = Projection(s, Fit(Cleaned(s)), Ahead)
        /\ GroupForecast(r, Ahead) = Projection(r, Fit(Cleaned(s)), Ahead)
    BY <2>2, <2>5, <2>6, <2>7 DEF GroupForecast
  <2>9. GroupForecast(r, Ahead) # None
    <3>1. PICK m \in Nat : m >= 2 /\ Cleaned(s) \in [1..m -> Int]
      BY <2>2, <2>5, CleanedSeries
    <3>2. Ahead \in Nat /\ \A step \in 1..Ahead : Root[step] \in Nat
      BY RootsReach DEF Ahead
    <3>3. GroupForecast(r, Ahead) \in AnyForecast
      <4> DEFINE v == Cleaned(s)
      <4>1. m >= 2 /\ v \in [1..m -> Int] /\ n \in Nat
            /\ GroupForecast(r, Ahead) = Projection(r, Fit(v), Ahead)
        BY <2>8, <3>1
      <4> HIDE DEF v
      <4>2. Projection(r, Fit(v), Ahead) \in AnyForecast
        BY <2>6, <3>2, <4>1, ProjectionIsForecast
      <4>3. QED
        BY <4>1, <4>2
    <3>4. QED
      BY <3>3, NoneAssumption
  <2>10. [GroupForecast(r, Ahead) EXCEPT !.historical = 0]
           = [GroupForecast(s, Ahead) EXCEPT !.historical = 0]
    BY <2>8, ProjectionOfFit
  <2>11. [call.daily EXCEPT ![i] = more] = r
    BY <2>3 DEF r
  <2>12. QED
    BY <2>3, <2>9, <2>10, <2>11
<1>2. QED
  BY <1>1, CallsAreGood, PTL

-----------------------------------------------------------------------------
(* Line items                                                              *)

\* The key of the forecast tells the items apart.
Distinct(records) ==
  \A x, y \in Range(records) : ForecastKey(x) = ForecastKey(y) => x = y

\* The items a query is about.
About(records, query) ==
  {x \in Range(records) : /\ x.day \in query.start..query.end
                          /\ query.provider \in {None, x.provider}
                          /\ query.currency \in {None, x.currency}}

\* Of items that the key tells apart all that match are selected.
LEMMA SelectedAmong ==
  ASSUME NEW records, NEW query, Distinct(records), NEW Kept, Kept = About(records, query)
  PROVE  Selected(records, query) = [r \in Kept |-> r]
<1> DEFINE keys == {k \in DOMAIN records :
                      /\ records[k].day \in query.start..query.end
                      /\ query.provider \in {None, records[k].provider}
                      /\ query.currency \in {None, records[k].currency}}
           matching == [k \in keys |-> records[k]]
           Same(key) == CHOOSE r \in Range(matching) : ForecastKey(r) = key
<1>1. Selected(records, query) = Unique(matching, ForecastKey)
  BY DEF Selected, Matching, Restrict
<1>2. Range(matching) = Kept
  BY DEF Range, About
<1>3. \A x, y \in Kept : ForecastKey(x) = ForecastKey(y) => x = y
  BY DEF Distinct, About
<1>4. Unique(matching, ForecastKey) =
        [r \in {Same(ForecastKey(x)) : x \in Range(matching)} |-> r]
  BY DEF Unique
<1> HIDE DEF matching
<1>5. \A x \in Kept : Same(ForecastKey(x)) = x
  <2> TAKE x \in Kept
  <2> DEFINE key == ForecastKey(x)
  <2>1. x \in Range(matching) /\ ForecastKey(x) = key
    BY <1>2
  <2>2. Same(key) \in Range(matching) /\ ForecastKey(Same(key)) = key
    BY <2>1
  <2>3. QED
    BY <1>2, <1>3, <2>2
<1> HIDE DEF Same
<1>6. {Same(ForecastKey(x)) : x \in Range(matching)} = Kept
  BY <1>2, <1>5
<1>7. QED
  BY <1>1, <1>4, <1>6

-----------------------------------------------------------------------------
(* Budgets                                                                 *)

LEMMA SumOfOne ==
  ASSUME NEW f, NEW x, f[x] \in Int
  PROVE  SumFunctionOnSet(f, {x}) = f[x]
<1>1. IsFiniteSet({x}) /\ IsFiniteSet({})
  BY FS_Singleton, FS_EmptySet
<1>2. First({x}) = x
  BY FirstIsIn
<1>3. {x} \ {x} = {} /\ {x} # {}
  OBVIOUS
<1>4. SumFunctionOnSet(f, {x}) = f[x] + SumFunctionOnSet(f, {})
  BY <1>1, <1>2, <1>3, SumStep
<1>5. SumFunctionOnSet(f, {}) = 0
  BY <1>1, SumStep
<1>6. QED
  BY <1>4, <1>5

LEMMA ItemsAre ==
  ASSUME NEW today \in Nat, NEW costs \in [1..today -> Nat]
  PROVE  /\ DOMAIN ItemsOf(costs) = 1..today
         /\ \A d \in 1..today : /\ ItemsOf(costs)[d].day = d
                                /\ ItemsOf(costs)[d].cost = costs[d]
                                /\ ItemsOf(costs)[d].currency = "USD"
BY DEF ItemsOf, CostRecord

\* The forecast of one item for every day is that of the costs of the days.
LEMMA ForecastOfItems ==
  ASSUME NEW today \in Nat, NEW costs \in [1..today -> Nat], NEW horizon,
         NEW answer, answer = ForecastOf(ItemsOf(costs),
                       [start |-> 1, end |-> today, provider |-> None, currency |-> "USD",
                        horizon |-> horizon, dimension |-> "total"]),
         answer.status = "ready"
  PROVE  /\ GroupForecast(costs, horizon) # None
         /\ answer.forecasts["all"] = GroupForecast(costs, horizon)
<1> DEFINE items == ItemsOf(costs)
           query == [start |-> 1, end |-> today, provider |-> None, currency |-> "USD",
                     horizon |-> horizon, dimension |-> "total"]
           all == [r \in Range(items) |-> r]
<1>1. Selected(items, query) = all
  <2>1. About(items, query) = Range(items)
    <3> HIDE DEF items
    <3>1. QED
      BY ItemsAre DEF Range, items, About
  <2>2. Distinct(items)
    <3> HIDE DEF items
    <3>1. \A x \in Range(items) : x.day \in 1..today /\ x = items[x.day]
      BY ItemsAre DEF Range, items
    <3>2. \A x : ForecastKey(x)[1] = x.day
      BY DEF ForecastKey
    <3>3. QED
      BY <3>1, <3>2 DEF Distinct
  <2> HIDE DEF items, query
  <2> DEFINE kept == Range(items)
  <2>3. kept = About(items, query)
    BY <2>1
  <2> HIDE DEF kept
  <2>4. Selected(items, query) = [r \in kept |-> r]
    BY <2>2, <2>3, SelectedAmong
  <2>5. QED
    BY <2>4 DEF kept
<1>2. DailyValues(all, 1, today) = costs
  <2>1. ASSUME NEW i \in 1..today PROVE Cost(all, i) = costs[i]
    <3> DEFINE f == [k \in {x \in DOMAIN all : all[x].day = i} |-> all[k].cost]
    <3>1. items[i] \in Range(items) /\ items[i].day = i /\ items[i].cost = costs[i]
      BY ItemsAre DEF Range
    <3>2. \A r \in Range(items) : r.day = i => r = items[i]
      BY ItemsAre DEF Range
    <3> HIDE DEF items
    <3>3. {x \in DOMAIN all : all[x].day = i} = {items[i]}
      BY <3>1, <3>2
    <3>4. DOMAIN f = {items[i]} /\ f[items[i]] = costs[i]
      BY <3>1, <3>3
    <3>5. Cost(all, i) = SumFunctionOnSet(f, DOMAIN f)
      BY DEF Cost, SumFunction
    <3> HIDE DEF f
    <3>6. QED
      BY <3>4, <3>5, SumOfOne
  <2>2. \A i \in 1..today : 1 + i - 1 = i
    OBVIOUS
  <2>3. 1..(today - 1 + 1) = 1..today
    OBVIOUS
  <2> HIDE DEF all
  <2>4. DailyValues(all, 1, today) = [i \in 1..today |-> costs[i]]
    BY <2>1, <2>2, <2>3 DEF DailyValues
  <2>5. QED
    BY <2>4
<1> DEFINE Group(g) == Matching(all, LAMBDA r : GroupOf(r, query.dimension) = g)
           names == {GroupOf(r, query.dimension) : r \in Range(all)}
           groups == [g \in names |->
                        GroupForecast(DailyValues(Group(g), query.start, query.end), query.horizon)]
           ready == {g \in DOMAIN groups : groups[g] # None}
<1>3. names \subseteq {"all"}
  BY DEF GroupOf
<1>4. Group("all") = all
  BY DEF GroupOf, Matching, Restrict
<1>5. /\ answer.status = IF DOMAIN groups = {} THEN "empty"
                         ELSE IF ready = {} THEN "insufficient_data" ELSE "ready"
      /\ answer.forecasts = Restrict(groups, ready)
  <2> HIDE DEF all, items
  <2>1. answer = ForecastAmong(all, query)
    BY <1>1 DEF ForecastOf, items
  <2> DEFINE observed == Cardinality((query.start..query.end)
                                       \ Missing(all, query.start, query.end))
  <2> HIDE DEF query
  <2>2. answer = Answer(groups, observed)
    BY <2>1 DEF ForecastAmong
  <2> HIDE DEF groups, observed
  <2>3. QED
    BY <2>2 DEF Answer
<1>6. query.start = 1 /\ query.end = today /\ query.horizon = horizon
  OBVIOUS
<1> HIDE DEF all, query, Group, items, names
<1>7. "all" \in ready
  BY <1>3, <1>5
<1>8. groups["all"] = GroupForecast(costs, horizon)
  BY <1>2, <1>4, <1>6, <1>7
<1> HIDE DEF groups
<1>9. QED
  BY <1>5, <1>7, <1>8 DEF Restrict

\* The evaluation of a budget on one item for every day.
LEMMA EvaluationOfItems ==
  ASSUME NEW today \in Nat \ {0}, NEW costs \in [1..today -> Nat], NEW length, NEW amount
  PROVE  LET e == Evaluation(ItemsOf(costs), BudgetOf(amount), today, length)
             actual == SumFunction(costs)
         IN  /\ actual \in Nat /\ e.spend = actual
             /\ e.status = StatusOf(actual, BudgetOf(amount))
             /\ e.forecast = ForecastSpend(ItemsOf(costs), BudgetOf(amount), today, length, actual)
<1> DEFINE items == ItemsOf(costs)
           budget == BudgetOf(amount)
           about == Matching(items, LAMBDA r : /\ r.day \in 1..today
                                               /\ budget.provider \in {None, r.provider})
           actual == SumFunction([k \in DOMAIN about |-> about[k].cost])
<1>1. budget.enabled = TRUE /\ budget.provider = None /\ budget.currency = "USD"
  BY DEF BudgetOf
<1>2. /\ DOMAIN items = 1..today
      /\ \A d \in 1..today : /\ items[d].day = d /\ items[d].cost = costs[d]
                             /\ items[d].currency = "USD"
  BY ItemsAre
<1> HIDE DEF items, budget
<1>3. DOMAIN about = 1..today /\ \A k \in 1..today : about[k] = items[k]
  BY <1>1, <1>2 DEF Matching, Restrict
<1>4. [k \in DOMAIN about |-> about[k].cost] = costs
  <2> HIDE DEF about
  <2>1. [k \in DOMAIN about |-> about[k].cost] = [k \in 1..today |-> costs[k]]
    BY <1>2, <1>3
  <2>2. QED
    BY <2>1
<1>5. actual = SumFunction(costs)
  <2> HIDE DEF about
  <2>1. QED
    BY <1>4
<1>6. actual \in Nat
  <2>1. IsFiniteSet(1..today) /\ DOMAIN costs = 1..today
    BY FS_Interval
  <2>2. \A i \in 1..today : costs[i] \in Nat /\ costs[i] \in Int
    OBVIOUS
  <2> HIDE DEF actual
  <2>3. QED
    BY <1>5, <2>1, <2>2, SumOfNumbers DEF SumFunction
<1>7. about # <<>> /\ {about[k].currency : k \in DOMAIN about} = {budget.currency}
  <2> HIDE DEF about
  <2>1. 1 \in DOMAIN about /\ \A k \in DOMAIN about : about[k].currency = "USD"
    BY <1>2, <1>3
  <2>2. QED
    BY <1>1, <2>1
<1>8. Evaluation(items, budget, today, length) =
        [available |-> TRUE, spend |-> actual, remaining |-> budget.amount - actual,
         utilization |-> Utilization(actual, budget),
         status |-> StatusOf(actual, budget),
         forecast |-> ForecastSpend(items, budget, today, length, actual)]
  BY <1>1, <1>7 DEF Evaluation
<1> HIDE DEF about, actual
<1>9. QED
  BY <1>5, <1>6, <1>8 DEF items, budget

\* The days of a longer projection up to one are those of the shorter.
LEMMA FutureIs ==
  ASSUME NEW s, NEW fit, FitGood(fit), NEW horizon \in Nat, NEW remaining \in 0..horizon,
         \A step \in 1..horizon : Root[step] \in Nat
  PROVE  /\ Future(Projection(s, fit, horizon), remaining) \in Nat
         /\ Future(Projection(s, fit, horizon), remaining)
              = Projection(s, fit, remaining).projected
<1> DEFINE p == Projection(s, fit, horizon)
           q == Projection(s, fit, remaining)
           points == [step \in 1..remaining |-> Point(fit, step)]
           cost == [step \in 1..remaining |-> Point(fit, step).cost]
           within == {x \in DOMAIN p.points : x <= remaining}
<1>1. p.points = [step \in 1..horizon |-> Point(fit, step)]
  BY DEF Projection
<1>2. within = 1..remaining
  BY <1>1
<1>3. Future(p, remaining) = SumFunction([x \in within |-> p.points[x].cost])
  BY DEF Future
<1>4. [x \in within |-> p.points[x].cost] = cost
  BY <1>1, <1>2
<1>5. q.projected = SumFunction([x \in 1..remaining |-> points[x]["cost"]])
  BY DEF Projection
<1>6. [x \in 1..remaining |-> points[x]["cost"]] = cost
  OBVIOUS
<1>7. q.projected \in Nat
  <2>1. remaining \in Nat /\ \A step \in 1..remaining : Root[step] \in Nat
    OBVIOUS
  <2>2. BandOf(q, q.projected)
    BY <2>1, ProjectionWithin
  <2>3. QED
    BY <2>2 DEF BandOf
<1> HIDE DEF p, q, points, cost, within
<1>8. QED
  BY <1>3, <1>4, <1>5, <1>6, <1>7 DEF p, q

\* What a budget is told of a month: all of the month that is left is projected.
LEMMA ForecastOfBudget ==
  ASSUME CallGood, call.of = "budget", call.evaluation.forecast.spend # None
  PROVE  \E amount \in Costs3 \ {0}, actual \in Nat, future \in Nat :
           /\ call.evaluation.spend = actual
           /\ call.evaluation.status = StatusOf(actual, BudgetOf(amount))
           /\ call.evaluation.forecast.spend = actual + future
           /\ call.evaluation.forecast.status = StatusOf(actual + future, BudgetOf(amount))
           /\ future = GroupForecast(call.daily, call.length - call.today).projected
<1> DEFINE length == call.length
           today == call.today
           costs == call.daily
           e == call.evaluation
<1>1. /\ length \in Months /\ today \in 1..length /\ costs \in [1..today -> BudgetCosts]
      /\ \E amount \in Costs3 \ {0} :
           e = Evaluation(ItemsOf(costs), BudgetOf(amount), today, length)
  BY DEF CallGood, EvaluatedBudget
<1>2. PICK amount \in Costs3 \ {0} :
        e = Evaluation(ItemsOf(costs), BudgetOf(amount), today, length)
  BY <1>1
<1>3. /\ length \in Nat /\ today \in Nat \ {0} /\ length - today \in Nat
      /\ length - today <= Horizons[3] /\ costs \in [1..today -> Nat]
  <2>1. length \in Nat /\ length - 1 <= Horizons[3] /\ BudgetCosts \in SUBSET Nat
    BY <1>1, FiguresAssumption
  <2>2. Horizons[3] \in Nat
    BY RootsReach
  <2> HIDE DEF length, today, costs, e
  <2>3. today \in Int /\ 1 <= today /\ today <= length
    BY <1>1, <2>1
  <2>4. costs \in [1..today -> Nat]
    <3>1. costs \in [1..today -> BudgetCosts]
      BY <1>1
    <3>2. \A i \in 1..today : costs[i] \in Nat
      BY <2>1, <3>1
    <3>3. QED
      BY <3>1, <3>2
  <2>5. QED
    BY <2>1, <2>2, <2>3, <2>4
<1> DEFINE budget == BudgetOf(amount)
           actual == SumFunction(costs)
           remaining == length - today
           horizon == HorizonFor(remaining)
           answer == ForecastOf(ItemsOf(costs),
                       [start |-> 1, end |-> today, provider |-> budget.provider,
                        currency |-> budget.currency, horizon |-> horizon,
                        dimension |-> "total"])
           month == MonthTotal(actual, Future(answer.forecasts["all"], remaining))
<1> HIDE DEF length, today, costs, e
<1>4. /\ actual \in Nat /\ e.spend = actual /\ e.status = StatusOf(actual, budget)
      /\ e.forecast = ForecastSpend(ItemsOf(costs), budget, today, length, actual)
  BY <1>2, <1>3, EvaluationOfItems
<1>5. e.forecast = IF remaining <= 0 \/ answer.status # "ready" THEN NoForecast
                   ELSE ForecastFor(month, budget)
  BY <1>4 DEF ForecastSpend
<1>6. answer.status = "ready" /\ e.forecast = ForecastFor(month, budget)
  <2>1. e.forecast.spend # None
    BY DEF e
  <2>2. NoForecast.spend = None
    BY DEF NoForecast
  <2> HIDE DEF answer, month, budget, remaining
  <2>3. QED
    BY <1>5, <2>1, <2>2
<1>7. /\ GroupForecast(costs, horizon) # None
      /\ answer.forecasts["all"] = GroupForecast(costs, horizon)
  <2>1. today \in Nat
    BY <1>3
  <2>2. budget.provider = None /\ budget.currency = "USD"
    BY DEF BudgetOf
  <2>3. answer = ForecastOf(ItemsOf(costs),
                   [start |-> 1, end |-> today, provider |-> None, currency |-> "USD",
                    horizon |-> horizon, dimension |-> "total"])
    BY <2>2
  <2> HIDE DEF answer, horizon, budget
  <2>4. QED
    BY <1>3, <1>6, <2>1, <2>3, ForecastOfItems
<1>8. horizon \in Nat /\ remaining \in 0..horizon /\ \A step \in 1..horizon : Root[step] \in Nat
  <2>1. /\ \A h \in 1..3 : Horizons[h] \in Nat
        /\ \A h \in 1..3 : \A step \in 1..Horizons[h] : Root[step] \in Nat
    BY RootsReach
  <2>2. \E h \in 1..3 : horizon = Horizons[h] /\ remaining <= Horizons[h]
    <3>1. remaining \in Nat /\ remaining <= Horizons[3]
      BY <1>3
    <3> HIDE DEF remaining
    <3>2. QED
      BY <3>1 DEF HorizonFor
  <2>3. remaining \in Nat
    BY <1>3
  <2> HIDE DEF horizon, remaining
  <2>4. QED
    BY <2>1, <2>2, <2>3
<1> DEFINE fit == Fit(Cleaned(costs))
<1>9. Len(costs) = today /\ ~(today < MinObservations)
  <2>1. Len(costs) = today
    BY <1>3
  <2>2. QED
    BY <1>7, <2>1 DEF GroupForecast
<1>10. FitGood(fit)
  <2>1. costs \in [1..today -> Int] /\ today \in Nat /\ today >= MinObservations
    BY <1>3, <1>9, ForecasterAssumption
  <2>2. PICK m \in Nat : m >= 2 /\ Cleaned(costs) \in [1..m -> Int]
    BY <2>1, CleanedSeries
  <2>3. QED
    BY <2>2, FitIsGood
<1> DEFINE future == Future(Projection(costs, fit, horizon), remaining)
<1>11. /\ GroupForecast(costs, horizon) = Projection(costs, fit, horizon)
       /\ GroupForecast(costs, remaining) = Projection(costs, fit, remaining)
  BY <1>9 DEF GroupForecast
<1>12. future \in Nat /\ future = GroupForecast(costs, remaining).projected
  <2> HIDE DEF fit, horizon, remaining
  <2>1. QED
    BY <1>8, <1>10, <1>11, FutureIs
<1>13. month = actual + future
  BY <1>7, <1>11 DEF MonthTotal
<1>14. e.forecast.spend = month /\ e.forecast.status = StatusOf(month, budget)
  <2> HIDE DEF month, budget
  <2>1. QED
    BY <1>6 DEF ForecastFor
<1> HIDE DEF budget, actual, month, future
<1>15. QED
  BY <1>4, <1>12, <1>13, <1>14 DEF budget, e, costs, remaining, length, today

\* For any costs and any month: the status by the forecast is no milder than the
\* status by what was spent.
THEOREM ForecastIsNoMilder == Spec => []ForecastNoMilder
<1>1. CallGood => ForecastNoMilder
  <2> SUFFICES ASSUME CallGood, call.of = "budget", call.evaluation.forecast.spend # None
               PROVE  /\ call.evaluation.forecast.spend >= call.evaluation.spend
                      /\ Rank[call.evaluation.forecast.status] >= Rank[call.evaluation.status]
    BY DEF ForecastNoMilder
  <2>1. PICK amount \in Costs3 \ {0}, actual \in Nat, future \in Nat :
           /\ call.evaluation.spend = actual
           /\ call.evaluation.status = StatusOf(actual, BudgetOf(amount))
           /\ call.evaluation.forecast.spend = actual + future
           /\ call.evaluation.forecast.status = StatusOf(actual + future, BudgetOf(amount))
    BY ForecastOfBudget
  <2> DEFINE month == actual + future
             budget == BudgetOf(amount)
  <2>2. month \in Nat /\ month >= actual
    OBVIOUS
  <2>3. /\ budget.amount = amount /\ budget.critical = 80 /\ budget.warning = 50
        /\ amount \in Nat
    BY FiguresAssumption DEF BudgetOf
  <2> HIDE DEF month, budget
  <2>4. Rank[StatusOf(month, budget)] >= Rank[StatusOf(actual, budget)]
    <3>1. /\ Rank["healthy"] = 0 /\ Rank["warning"] = 1
          /\ Rank["critical"] = 2 /\ Rank["exceeded"] = 3
      BY DEF Rank
    <3>2. QED
      BY <2>2, <2>3, <3>1 DEF StatusOf
  <2>5. QED
    BY <2>1, <2>2, <2>4 DEF month, budget
<1>2. QED
  BY <1>1, CallsAreGood, PTL

\* For any costs and any month that the longest horizon covers: every day that is
\* left of the month is counted, whichever horizon is asked for.
THEOREM ForecastsReachMonthEnd == Spec => []ForecastReachesMonthEnd
<1>1. CallGood => ForecastReachesMonthEnd
  BY ForecastOfBudget DEF ForecastReachesMonthEnd
<1>2. QED
  BY <1>1, CallsAreGood, PTL

-----------------------------------------------------------------------------
(* Recommendations                                                         *)

\* The average of larger costs is larger.
LEMMA AverageMonotone ==
  ASSUME NEW k \in Nat \ {0}, NEW a \in [1..k -> Nat], NEW b \in [1..k -> Nat],
         \A i \in 1..k : a[i] <= b[i]
  PROVE  Average(a) \in Nat /\ Average(b) \in Nat /\ Average(a) <= Average(b)
<1> DEFINE x == SumFunction(a)
           y == SumFunction(b)
<1>1. IsFiniteSet(1..k) /\ DOMAIN a = 1..k /\ DOMAIN b = 1..k /\ Len(a) = k /\ Len(b) = k
  BY FS_Interval
<1>2. \A i \in 1..k : a[i] \in Int /\ b[i] \in Int /\ a[i] \in Nat /\ b[i] \in Nat
  OBVIOUS
<1>3. x \in Nat /\ y \in Nat /\ x <= y
  BY <1>1, <1>2, SumOfNumbers, SumMonotone DEF SumFunction
<1>4. Average(a) = (x * Fraction) \div k /\ Average(b) = (y * Fraction) \div k
  BY <1>1 DEF Average
<1> HIDE DEF x, y
<1>5. Fraction \in Nat \ {0}
  BY AdvisorAssumption
<1>6. x * Fraction \in Nat /\ y * Fraction \in Nat /\ x * Fraction <= y * Fraction
  <2>1. Fraction * x <= Fraction * y
    BY <1>3, <1>5, Product
  <2>2. QED
    BY <1>3, <1>5, <2>1
<1> DEFINE v == x * Fraction
           w == y * Fraction
<1>7. v \in Nat /\ w \in Nat /\ v <= w
  BY <1>6
<1> HIDE DEF v, w
<1>8. v \div k \in Nat /\ w \div k \in Nat /\ v \div k <= w \div k
  <2>1. v \in Int /\ w \in Int
    BY <1>7
  <2>2. v \div k <= w \div k
    BY <1>7, <2>1, QuotientMonotone
  <2>3. v \div k \in Nat /\ w \div k \in Nat
    BY <1>7, QuotientOfNumber
  <2>4. QED
    BY <2>2, <2>3
<1>9. QED
  BY <1>4, <1>8 DEF v, w

Risen(costs) ==
  [i \in DOMAIN costs |-> IF i > Len(costs) \div 2 THEN costs[i] + Dollars(1) ELSE costs[i]]

\* Higher costs on the later days leave the baseline and raise the recent average.
LEMMA RisenAverages ==
  ASSUME NEW n \in Nat, n >= 2, NEW costs \in [1..n -> Nat]
  PROVE  /\ Len(Risen(costs)) = n /\ Len(costs) = n
         /\ Baseline(costs) \in Nat /\ Baseline(Risen(costs)) = Baseline(costs)
         /\ Recent(costs) \in Nat /\ Recent(Risen(costs)) \in Nat
         /\ Recent(costs) <= Recent(Risen(costs))
<1> DEFINE risen == Risen(costs)
           h == n \div 2
           k == n - h
           before == [i \in 1..h |-> costs[i]]
           after == [i \in 1..k |-> costs[i + h]]
           higher == [i \in 1..k |-> risen[i + h]]
<1>1. h \in Nat \ {0} /\ k \in Nat \ {0} /\ Len(costs) = n /\ DOMAIN costs = 1..n
  OBVIOUS
<1>2. risen \in [1..n -> Nat] /\ Len(risen) = n
      /\ \A i \in 1..n : risen[i] = IF i > h THEN costs[i] + 100 ELSE costs[i]
  BY <1>1 DEF Risen, Dollars
<1> HIDE DEF risen
<1>3. ASSUME NEW s \in [1..n -> Nat]
      PROVE  /\ SubSeq(s, 1, h) = [i \in 1..h |-> s[i]]
             /\ SubSeq(s, h + 1, n) = [i \in 1..k |-> s[i + h]]
  <2>1. SubSeq(s, 1, h) = [i \in 1..h |-> s[i]]
    OBVIOUS
  <2>2. SubSeq(s, h + 1, n) = [i \in 1..k |-> s[i + h]]
    <3>1. SubSeq(s, h + 1, n) = [i \in 1..(n - (h + 1) + 1) |-> s[i + (h + 1) - 1]]
      OBVIOUS
    <3>2. n - (h + 1) + 1 = k /\ \A i \in 1..k : i + (h + 1) - 1 = i + h
      OBVIOUS
    <3>3. QED
      BY <3>1, <3>2
  <2>3. QED
    BY <2>1, <2>2
<1>4. [i \in 1..h |-> risen[i]] = before
  BY <1>1, <1>2
<1>5. before \in [1..h -> Nat]
  BY <1>1
<1>6. /\ after \in [1..k -> Nat] /\ higher \in [1..k -> Nat]
      /\ \A i \in 1..k : after[i] <= higher[i]
  BY <1>1, <1>2
<1>7. /\ Baseline(costs) = Average(before) /\ Baseline(risen) = Average(before)
      /\ Recent(costs) = Average(after) /\ Recent(risen) = Average(higher)
  BY <1>1, <1>2, <1>3, <1>4 DEF Baseline, Recent
<1> HIDE DEF h, k, before, after, higher
<1>8. Average(before) \in Nat
  <2>1. \A i \in 1..h : before[i] <= before[i]
    BY <1>5
  <2>2. QED
    BY <1>1, <1>5, <2>1, AverageMonotone
<1>9. Average(after) \in Nat /\ Average(higher) \in Nat /\ Average(after) <= Average(higher)
  BY <1>1, <1>6, AverageMonotone
<1>10. QED
  BY <1>1, <1>2, <1>7, <1>8, <1>9 DEF risen


\* The totals of two groupings differ as their recent costs of g do.
OneApart(a, b, g) ==
  \E rest \in Nat : /\ TotalRecent(a) = Recent(a[g]) + rest
                    /\ TotalRecent(b) = Recent(b[g]) + rest

LEMMA TotalsDifferBy ==
  ASSUME NEW S, IsFiniteSet(S), NEW a, NEW b, DOMAIN a = S, DOMAIN b = S, NEW g \in S,
         \A x \in S : Recent(a[x]) \in Nat /\ Recent(b[x]) \in Nat,
         \A x \in S \ {g} : b[x] = a[x]
  PROVE  OneApart(a, b, g)
<1> DEFINE u == [x \in S |-> Recent(a[x])]
           v == [x \in S |-> Recent(b[x])]
           R == S \ {g}
           rest == SumFunctionOnSet(u, R)
<1>1. TotalRecent(a) = SumFunctionOnSet(u, S) /\ TotalRecent(b) = SumFunctionOnSet(v, S)
  BY DEF TotalRecent, SumFunction
<1>2. /\ \A x \in S : u[x] \in Int /\ v[x] \in Int /\ u[x] \in Nat
      /\ \A x \in R : u[x] = v[x] /\ u[x] \in Int /\ u[x] \in Nat
      /\ u[g] = Recent(a[g]) /\ v[g] = Recent(b[g])
  OBVIOUS
<1>3. IsFiniteSet(R)
  BY FS_Subset, R \subseteq S
<1> HIDE DEF u, v
<1>4. /\ SumFunctionOnSet(u, S) = u[g] + SumFunctionOnSet(u, R)
      /\ SumFunctionOnSet(v, S) = v[g] + SumFunctionOnSet(v, R)
  BY <1>2, SumTake
<1>5. SumFunctionOnSet(u, R) = SumFunctionOnSet(v, R) /\ rest \in Nat
  <2> HIDE DEF R
  <2>1. SumFunctionOnSet(u, R) = SumFunctionOnSet(v, R)
    BY <1>2, <1>3, SumSame
  <2>2. SumFunctionOnSet(u, R) \in Nat
    BY <1>2, <1>3, SumOfNumbers
  <2>3. QED
    BY <2>1, <2>2
<1>6. QED
  BY <1>1, <1>2, <1>4, <1>5 DEF OneApart

\* b is a with higher recent costs of g, and all else equal.
Steeper(a, b, g) ==
  /\ Baseline(a[g]) \in Nat /\ Baseline(b[g]) = Baseline(a[g])
  /\ Recent(a[g]) \in Nat /\ Recent(b[g]) \in Nat /\ Recent(a[g]) <= Recent(b[g])
  /\ OneApart(a, b, g)

\* Every test of the rules that holds of g still holds of it.
LEMMA SteeperIsNoMilder ==
  ASSUME NEW a, NEW b, NEW g, Steeper(a, b, g)
  PROVE  /\ Grows(a[g]) => Grows(b[g])
         /\ Weighs(a, g) => Weighs(b, g)
         /\ Savings(a[g]) \in Int /\ Savings(b[g]) \in Int
         /\ Savings(a[g]) <= Savings(b[g])
         /\ Priority(a, g) <= Priority(b, g)
<1> DEFINE base == Baseline(a[g])
           x == Recent(a[g])
           y == Recent(b[g])
<1>1. /\ base \in Nat /\ Baseline(b[g]) = base
      /\ x \in Nat /\ y \in Nat /\ x <= y
      /\ \E rest \in Nat : TotalRecent(a) = x + rest /\ TotalRecent(b) = y + rest
  BY DEF Steeper, OneApart
<1>2. Fraction \in Nat \ {0}
  BY AdvisorAssumption
<1>3. Grows(a[g]) => Grows(b[g])
  <2> HIDE DEF base, x, y
  <2>1. Grows(a[g]) <=> base > 0 /\ 100 * (x - base) >= 20 * base
    BY DEF Grows, base, x
  <2>2. Grows(b[g]) <=> base > 0 /\ 100 * (y - base) >= 20 * base
    BY <1>1 DEF Grows, y
  <2>3. QED
    BY <1>1, <2>1, <2>2
<1>4. /\ HasShare(a, g, 20) => HasShare(b, g, 20)
      /\ HasShare(a, g, 40) => HasShare(b, g, 40)
  <2>1. PICK rest \in Nat : TotalRecent(a) = x + rest /\ TotalRecent(b) = y + rest
    BY <1>1
  <2>2. \A p : /\ HasShare(a, g, p) <=> x + rest > 0 /\ 100 * x >= p * (x + rest)
               /\ HasShare(b, g, p) <=> y + rest > 0 /\ 100 * y >= p * (y + rest)
    BY <2>1 DEF HasShare
  <2> HIDE DEF x, y
  <2>3. /\ x + rest > 0 /\ 100 * x >= 20 * (x + rest)
           => y + rest > 0 /\ 100 * y >= 20 * (y + rest)
        /\ x + rest > 0 /\ 100 * x >= 40 * (x + rest)
           => y + rest > 0 /\ 100 * y >= 40 * (y + rest)
    BY <1>1
  <2>4. QED
    BY <2>2, <2>3
<1>5. Weighs(a, g) => Weighs(b, g)
  <2> DEFINE least == Dollars(300) * Fraction
  <2>1. least \in Nat
    BY <1>2 DEF Dollars
  <2> HIDE DEF x, y, least
  <2>2. 30 * x >= least => 30 * y >= least
    BY <1>1, <2>1
  <2>3. QED
    BY <1>4, <2>2 DEF Weighs, x, y, least
<1>6. /\ Savings(a[g]) \in Int /\ Savings(b[g]) \in Int
      /\ Savings(a[g]) <= Savings(b[g])
  <2> DEFINE v == 30 * AtLeast(0, x - base)
             w == 30 * AtLeast(0, y - base)
  <2>1. Savings(a[g]) = Round(v, Fraction) /\ Savings(b[g]) = Round(w, Fraction)
    BY <1>1 DEF Savings, Monthly
  <2> HIDE DEF base, x, y
  <2>2. v \in Int /\ w \in Int /\ v <= w
    BY <1>1 DEF AtLeast
  <2> HIDE DEF v, w
  <2>3. QED
    BY <1>2, <2>1, <2>2, RoundMonotone
<1>7. /\ Monthly(x) \in Int /\ Monthly(y) \in Int /\ Monthly(x) <= Monthly(y)
  <2> HIDE DEF x, y
  <2> DEFINE v == 30 * x
             w == 30 * y
  <2>1. v \in Int /\ w \in Int /\ v <= w
    BY <1>1
  <2>2. Monthly(x) = Round(v, Fraction) /\ Monthly(y) = Round(w, Fraction)
    BY DEF Monthly
  <2> HIDE DEF v, w
  <2>3. QED
    BY <1>2, <2>1, <2>2, RoundMonotone
<1>8. Priority(a, g) <= Priority(b, g)
  <2> DEFINE s == Savings(a[g])
             t == Savings(b[g])
             m == Monthly(x)
             n == Monthly(y)
             A4 == HasShare(a, g, 40)
             B4 == HasShare(b, g, 40)
             A2 == HasShare(a, g, 20)
             B2 == HasShare(b, g, 20)
  <2>1. /\ Priority(a, g) = IF s >= 100000 THEN 3
                           ELSE IF s >= 25000 \/ A4 THEN 2
                           ELSE IF m >= 30000 \/ A2 THEN 1 ELSE 0
        /\ Priority(b, g) = IF t >= 100000 THEN 3
                           ELSE IF t >= 25000 \/ B4 THEN 2
                           ELSE IF n >= 30000 \/ B2 THEN 1 ELSE 0
    BY DEF Priority, Dollars
  <2>2. /\ s \in Int /\ t \in Int /\ s <= t /\ m \in Int /\ n \in Int /\ m <= n
        /\ (A4 => B4) /\ (A2 => B2)
    BY <1>4, <1>6, <1>7
  <2> HIDE DEF s, t, m, n, A4, B4, A2, B2
  <2>3. QED
    BY <2>1, <2>2
<1>9. QED
  BY <1>3, <1>5, <1>6, <1>8

Enough(all) == {g \in DOMAIN all : Len(all[g]) >= MinDays}

\* What Recommendations says of one group.
LEMMA RecommendationOf ==
  ASSUME NEW all, NEW daily, daily = Restrict(all, Enough(all))
  PROVE  /\ \A r \in Recommendations(all) :
             /\ r.group \in Enough(all)
             /\ r = Recommendation(daily, r.group, r.method)
             /\ \/ r.method = "growth" /\ Grows(daily[r.group])
                \/ r.method = "high cost" /\ Weighs(daily, r.group)
         /\ \A g \in Enough(all) :
             /\ Grows(daily[g])
                  => Recommendation(daily, g, "growth") \in Recommendations(all)
             /\ Weighs(daily, g)
                  => Recommendation(daily, g, "high cost") \in Recommendations(all)
<1>1. DOMAIN daily = Enough(all)
  BY DEF Restrict
<1>2. Recommendations(all) =
        {Recommendation(daily, g, "growth") : g \in {h \in Enough(all) : Grows(daily[h])}}
        \cup
        {Recommendation(daily, g, "high cost") : g \in {h \in Enough(all) : Weighs(daily, h)}}
  BY <1>1 DEF Recommendations, Enough
<1>3. \A g, m : /\ Recommendation(daily, g, m).group = g
                /\ Recommendation(daily, g, m).method = m
  BY DEF Recommendation
<1> DEFINE growth == {Recommendation(daily, g, "growth") :
                        g \in {h \in Enough(all) : Grows(daily[h])}}
           high == {Recommendation(daily, g, "high cost") :
                      g \in {h \in Enough(all) : Weighs(daily, h)}}
<1>4. Recommendations(all) = growth \cup high
  BY <1>2
<1>5. ASSUME NEW r \in Recommendations(all)
      PROVE  /\ r.group \in Enough(all)
             /\ r = Recommendation(daily, r.group, r.method)
             /\ \/ r.method = "growth" /\ Grows(daily[r.group])
                \/ r.method = "high cost" /\ Weighs(daily, r.group)
  <2>1. CASE r \in growth
    <3>1. PICK g \in Enough(all) : Grows(daily[g]) /\ r = Recommendation(daily, g, "growth")
      BY <2>1
    <3>2. r.group = g /\ r.method = "growth"
      BY <1>3, <3>1
    <3>3. QED
      BY <3>1, <3>2
  <2>2. CASE r \in high
    <3>1. PICK g \in Enough(all) : Weighs(daily, g) /\ r = Recommendation(daily, g, "high cost")
      BY <2>2
    <3>2. r.group = g /\ r.method = "high cost"
      BY <1>3, <3>1
    <3>3. QED
      BY <3>1, <3>2
  <2>3. QED
    BY <1>4, <2>1, <2>2
<1>6. QED
  BY <1>4, <1>5

\* For any costs of any services: a service whose recent costs rise is still named
\* by each rule that named it, no less urgently and with no smaller savings.
THEOREM RisingIsUrgent == Spec => []RisingStaysUrgent
<1>1. CallGood => RisingStaysUrgent
  <2> SUFFICES ASSUME CallGood, call.of = "advice", NEW g \in Services,
                      NEW r \in Recommendations(call.daily), r.group = g
               PROVE  \E more \in Recommendations([call.daily EXCEPT ![g] = Risen(call.daily[g])]) :
                        /\ more.group = g /\ more.method = r.method
                        /\ more.priority >= r.priority /\ more.savings >= r.savings
    BY DEF RisingStaysUrgent, Risen
  <2> DEFINE all == call.daily
             risen == [all EXCEPT ![g] = Risen(all[g])]
             S == Enough(all)
             a == Restrict(all, S)
             b == Restrict(risen, S)
  <2>1. all \in [Services -> UNION {[1..n -> MonthlyCosts] : n \in 2..3}]
    BY DEF CallGood, AdviceCall
  <2>2. \A h \in Services : \E n \in Nat : n >= 2 /\ all[h] \in [1..n -> Nat]
    <3> HIDE DEF all
    <3> TAKE h \in Services
    <3>1. PICK n \in 2..3 : all[h] \in [1..n -> MonthlyCosts]
      BY <2>1
    <3>2. MonthlyCosts \subseteq Nat
      BY FiguresAssumption
    <3> HIDE DEF risen, S, a, b
    <3>3. n \in Nat /\ n >= 2
      BY <3>1
    <3>4. all[h] \in [1..n -> Nat]
      BY <3>1, <3>2
    <3>5. QED
      BY <3>3, <3>4
  <2> HIDE DEF all
  <2>3. /\ risen \in [Services -> {risen[h] : h \in Services}] /\ risen[g] = Risen(all[g])
        /\ \A h \in Services : h # g => risen[h] = all[h]
    BY <2>1
  <2> HIDE DEF risen
  <2>4. \A h \in Services :
          /\ Len(Risen(all[h])) = Len(all[h])
          /\ Baseline(all[h]) \in Nat /\ Baseline(Risen(all[h])) = Baseline(all[h])
          /\ Recent(all[h]) \in Nat /\ Recent(Risen(all[h])) \in Nat
          /\ Recent(all[h]) <= Recent(Risen(all[h]))
    <3> TAKE h \in Services
    <3>1. PICK n \in Nat : n >= 2 /\ all[h] \in [1..n -> Nat]
      BY <2>2
    <3> DEFINE costs == all[h]
    <3>2. costs \in [1..n -> Nat]
      BY <3>1
    <3> HIDE DEF costs
    <3>3. /\ Len(Risen(costs)) = n /\ Len(costs) = n
          /\ Baseline(costs) \in Nat /\ Baseline(Risen(costs)) = Baseline(costs)
          /\ Recent(costs) \in Nat /\ Recent(Risen(costs)) \in Nat
          /\ Recent(costs) <= Recent(Risen(costs))
      BY <3>1, <3>2, RisenAverages
    <3>4. QED
      BY <3>3 DEF costs
  <2>5. DOMAIN all = Services /\ DOMAIN risen = Services
    BY <2>1, <2>3
  <2>6. S = Enough(risen) /\ S \subseteq Services
    <3>1. \A h \in Services : Len(risen[h]) = Len(all[h])
      BY <2>3, <2>4
    <3>2. QED
      BY <2>5, <3>1 DEF Enough
  <2>7. /\ DOMAIN a = S /\ DOMAIN b = S
        /\ \A h \in S : a[h] = all[h] /\ b[h] = risen[h]
    BY DEF Restrict
  <2>8. /\ g \in S /\ r = Recommendation(a, g, r.method)
        /\ \/ r.method = "growth" /\ Grows(a[g])
           \/ r.method = "high cost" /\ Weighs(a, g)
    BY RecommendationOf DEF all
  <2>9. /\ Grows(b[g]) => Recommendation(b, g, "growth") \in Recommendations(risen)
        /\ Weighs(b, g) => Recommendation(b, g, "high cost") \in Recommendations(risen)
    BY <2>6, <2>8, RecommendationOf
  <2>10. IsFiniteSet(S)
    BY <2>6, FS_Subset, FiguresAssumption
  <2> HIDE DEF S, a, b
  <2>11. /\ \A h \in S : Recent(a[h]) \in Nat /\ Recent(b[h]) \in Nat
         /\ \A h \in S \ {g} : b[h] = a[h]
    <3>1. \A h \in S : h \in Services /\ a[h] = all[h]
                       /\ b[h] = IF h = g THEN Risen(all[h]) ELSE all[h]
      BY <2>3, <2>6, <2>7
    <3>2. QED
      BY <2>4, <3>1
  <2>12. OneApart(a, b, g)
    <3>1. DOMAIN a = S /\ DOMAIN b = S /\ g \in S
      BY <2>7, <2>8
    <3>2. QED
      BY <2>10, <2>11, <3>1, TotalsDifferBy
  <2>13. Steeper(a, b, g)
    <3>1. a[g] = all[g] /\ b[g] = Risen(all[g])
      BY <2>3, <2>7, <2>8
    <3>2. /\ Baseline(all[g]) \in Nat /\ Baseline(Risen(all[g])) = Baseline(all[g])
          /\ Recent(all[g]) \in Nat /\ Recent(Risen(all[g])) \in Nat
          /\ Recent(all[g]) <= Recent(Risen(all[g]))
      BY <2>4
    <3>3. QED
      BY <2>12, <3>1, <3>2 DEF Steeper
  <2>14. /\ Grows(a[g]) => Grows(b[g])
         /\ Weighs(a, g) => Weighs(b, g)
         /\ Savings(a[g]) \in Int /\ Savings(b[g]) \in Int
         /\ Savings(a[g]) <= Savings(b[g])
         /\ Priority(a, g) <= Priority(b, g)
    BY <2>13, SteeperIsNoMilder
  <2>15. /\ Priority(a, g) \in Int /\ Priority(b, g) \in Int
    BY DEF Priority
  <2> DEFINE more == Recommendation(b, g, r.method)
  <2>16. more \in Recommendations(risen)
    BY <2>8, <2>9, <2>14
  <2>17. /\ more.group = g /\ more.method = r.method
         /\ more.priority = Priority(b, g) /\ more.savings = Savings(b[g])
         /\ r.priority = Priority(a, g) /\ r.savings = Savings(a[g])
    <3>1. \A h, m : /\ Recommendation(b, h, m).group = h
                    /\ Recommendation(b, h, m).method = m
                    /\ Recommendation(b, h, m).priority = Priority(b, h)
                    /\ Recommendation(b, h, m).savings = Savings(b[h])
                    /\ Recommendation(a, h, m).priority = Priority(a, h)
                    /\ Recommendation(a, h, m).savings = Savings(a[h])
      BY DEF Recommendation
    <3> DEFINE method == r.method
               same == Recommendation(a, g, method)
    <3>2. /\ more.group = g /\ more.method = method
          /\ more.priority = Priority(b, g) /\ more.savings = Savings(b[g])
          /\ same.priority = Priority(a, g) /\ same.savings = Savings(a[g])
      BY <3>1
    <3>3. r = same
      BY <2>8
    <3> HIDE DEF more, same
    <3>4. QED
      BY <3>2, <3>3
  <2> HIDE DEF more
  <2>18. more.priority >= r.priority /\ more.savings >= r.savings
    BY <2>14, <2>15, <2>17
  <2>19. QED
    BY <2>16, <2>17, <2>18 DEF risen, all
<1>2. QED
  BY <1>1, CallsAreGood, PTL

\* Both sides may be divided by a common factor.
LEMMA NearScaled ==
  ASSUME NEW t \in Nat \ {0}, NEW a \in Int, NEW b \in Int, NEW c \in Int,
         Near(t * a, t * b, t * c)
  PROVE  Near(a, b, c)
<1>1. 2 * (t * a - t * b) = t * (2 * (a - b)) /\ 2 * (t * b - t * a) = t * (2 * (b - a))
  <2>1. t * (2 * (a - b)) = 2 * (t * (a - b)) /\ t * (2 * (b - a)) = 2 * (t * (b - a))
    OBVIOUS
  <2>2. t * (a - b) = t * a - t * b /\ t * (b - a) = t * b - t * a
    OBVIOUS
  <2>3. QED
    BY <2>1, <2>2
<1>2. ASSUME NEW x \in Int, t * x <= t * c PROVE x <= c
  <2> SUFFICES ASSUME c + 1 <= x PROVE FALSE
    OBVIOUS
  <2>1. t * (c + 1) <= t * x
    BY Product
  <2>2. t * (c + 1) = t * c + t /\ t * c \in Int /\ t * x \in Int
    OBVIOUS
  <2>3. QED
    BY <1>2, <2>1, <2>2
<1>3. 2 * (a - b) \in Int /\ 2 * (b - a) \in Int
  OBVIOUS
<1>4. t * (2 * (a - b)) <= t * c /\ t * (2 * (b - a)) <= t * c
  BY <1>1 DEF Near
<1>5. QED
  BY <1>2, <1>3, <1>4 DEF Near

-----------------------------------------------------------------------------
(* Bills                                                                   *)

\* What some items cost on a day.
ItemsOn(items, day) == {k \in DOMAIN items : items[k].day = day}
CostsAt(items, S) == [k \in S |-> items[k].cost]
ShownOn(items, day) ==
  LET days == Breakdown(items, "day")
  IN IF day \in DOMAIN days THEN days[day].cost ELSE 0

LEMMA ShownIs ==
  ASSUME NEW items, NEW day, NEW S, S = ItemsOn(items, day)
  PROVE  ShownOn(items, day) = SumFunctionOnSet(CostsAt(items, S), S)
<1> DEFINE days == Breakdown(items, "day")
<1>1. DOMAIN days = {items[k].day : k \in DOMAIN items}
  BY DEF Breakdown
<1>2. \A v \in DOMAIN days :
        days[v].cost = SumFunction([k \in ItemsOn(items, v) |-> items[k].cost])
  BY DEF Breakdown, ItemsOn
<1> HIDE DEF days
<1>3. CASE day \in DOMAIN days
  <2>1. days[day].cost = SumFunction(CostsAt(items, S))
    BY <1>2, <1>3 DEF CostsAt
  <2>2. DOMAIN CostsAt(items, S) = S
    BY DEF CostsAt
  <2>3. QED
    BY <1>3, <2>1, <2>2 DEF ShownOn, SumFunction, days
<1>4. CASE day \notin DOMAIN days
  <2>1. S = {}
    BY <1>1, <1>4 DEF ItemsOn
  <2>2. SumFunctionOnSet(CostsAt(items, S), S) = 0
    BY <2>1, SumOfNone
  <2>3. QED
    BY <1>4, <2>2 DEF ShownOn, days
<1>5. QED
  BY <1>3, <1>4

\* Items of the days that are asked for are all kept.
LEMMA FilterKeeps ==
  ASSUME NEW items, NEW start, NEW end, \A k \in DOMAIN items : items[k].day \in start..end,
         NEW day
  PROVE  ShownOn(Filtered(items, [start |-> start, end |-> end, provider |-> None,
                                  service |-> None]), day)
           = ShownOn(items, day)
<1> DEFINE query == [start |-> start, end |-> end, provider |-> None, service |-> None]
           kept == Filtered(items, query)
           S == ItemsOn(items, day)
<1>1. kept = Restrict(items, {k \in DOMAIN items :
                                /\ items[k].day \in query.start..query.end
                                /\ query.provider \in {None, items[k].provider}
                                /\ NamePart(query.service, items[k].service)})
  BY DEF Filtered, Matching
<1>2. \A k \in DOMAIN items : /\ items[k].day \in query.start..query.end
                              /\ query.provider \in {None, items[k].provider}
                              /\ NamePart(query.service, items[k].service)
  BY DEF NamePart
<1> HIDE DEF query
<1>3. kept = Restrict(items, DOMAIN items)
  BY <1>1, <1>2
<1> HIDE DEF kept
<1>4. DOMAIN kept = DOMAIN items /\ \A k \in DOMAIN items : kept[k] = items[k]
  BY <1>3 DEF Restrict
<1>5. ItemsOn(kept, day) = S
  BY <1>4 DEF ItemsOn
<1>6. CostsAt(kept, S) = CostsAt(items, S)
  BY <1>4 DEF CostsAt, ItemsOn
<1> HIDE DEF S
<1>7. /\ ShownOn(kept, day) = SumFunctionOnSet(CostsAt(kept, S), S)
      /\ ShownOn(items, day) = SumFunctionOnSet(CostsAt(items, S), S)
  BY <1>5, ShownIs DEF S
<1>8. QED
  BY <1>6, <1>7 DEF kept, query

\* An answer the explorer can allocate, with entries K.
AnswerGood(answer, K) ==
  /\ answer.error = None
  /\ K = DOMAIN answer.services /\ IsFiniteSet(K)
  /\ \A k \in K : answer.services[k].cost \in Nat
  /\ \A d \in DOMAIN answer.daily : answer.daily[d] \in Nat
  /\ K = {} => answer.total = 0

EntryCosts(answer, K) == [k \in K |-> answer.services[k].cost]
Entries(answer, K) == SumFunctionOnSet(EntryCosts(answer, K), K)

LEMMA EntriesAre ==
  ASSUME NEW answer, NEW K, AnswerGood(answer, K)
  PROVE  /\ Entries(answer, K) \in Nat
         /\ \A k \in K : EntryCosts(answer, K)[k] = answer.services[k].cost
         /\ \A day, k : Allocated(answer, day, k) =
              IF Entries(answer, K) = 0 THEN 0
              ELSE Round(answer.services[k].cost * answer.daily[day],
                         Entries(answer, K) * PerCent)
<1> DEFINE w == EntryCosts(answer, K)
<1>1. \A k \in K : w[k] = answer.services[k].cost /\ w[k] \in Int /\ w[k] \in Nat
  BY DEF EntryCosts, AnswerGood
<1>2. IsFiniteSet(K) /\ K = DOMAIN answer.services
  BY DEF AnswerGood
<1> DEFINE total == SumFunction([j \in DOMAIN answer.services |-> answer.services[j].cost])
<1>3. total = Entries(answer, K)
  BY <1>2 DEF Entries, EntryCosts, SumFunction
<1> HIDE DEF w, total
<1>4. SumFunctionOnSet(w, K) \in Nat
  BY <1>1, <1>2, SumOfNumbers
<1>5. \A day, k : Allocated(answer, day, k) =
              IF total = 0 THEN 0
              ELSE Round(answer.services[k].cost * answer.daily[day], total * PerCent)
  BY DEF Allocated, total
<1>6. QED
  BY <1>1, <1>3, <1>4, <1>5 DEF Entries, w

\* Nothing is shown of an answer without entries.
LEMMA NothingToShow ==
  ASSUME NEW answer, AnswerGood(answer, {}), NEW cloud, NEW start, NEW day
  PROVE  /\ DOMAIN LineItems(cloud, answer, start) = {}
         /\ ShownOn(LineItems(cloud, answer, start), day) = 0
<1> DEFINE items == LineItems(cloud, answer, start)
<1>1. /\ answer.error = None /\ DOMAIN answer.services = {} /\ answer.total = 0
  BY DEF AnswerGood
<1>2. DOMAIN items = {}
  <2>1. CASE answer.services # <<>> /\ answer.daily # <<>>
    BY <1>1, <2>1 DEF LineItems
  <2>2. CASE answer.services # <<>> /\ ~(answer.daily # <<>>)
    BY <1>1, <2>2 DEF LineItems
  <2>3. CASE ~(answer.services # <<>>)
    <3>1. ~(answer.total > 0)
      BY <1>1
    <3>2. items = <<>>
      BY <1>1, <2>3, <3>1 DEF LineItems
    <3>3. QED
      BY <3>2
  <2>4. QED
    BY <2>1, <2>2, <2>3
<1> HIDE DEF items
<1>3. ItemsOn(items, day) = {}
  BY <1>2 DEF ItemsOn
<1>4. ShownOn(items, day) = 0
  BY <1>3, ShownIs, SumOfNone
<1>5. QED
  BY <1>2, <1>4 DEF items

\* An answer by day: what is shown of a day is its cost, but for half a cent of
\* every entry.
LEMMA AllocatedShown ==
  ASSUME NEW answer, NEW K, AnswerGood(answer, K), K # {},
         NEW cloud, NEW start, NEW day, answer.daily # <<>>
  PROVE  /\ \A x \in DOMAIN LineItems(cloud, answer, start) :
              LineItems(cloud, answer, start)[x].day \in DOMAIN answer.daily
         /\ Entries(answer, K) = 0 \/ day \notin DOMAIN answer.daily
              => ShownOn(LineItems(cloud, answer, start), day) = 0
         /\ Entries(answer, K) > 0 /\ day \in DOMAIN answer.daily
              => /\ ShownOn(LineItems(cloud, answer, start), day) \in Nat
                 /\ Near(PerCent * ShownOn(LineItems(cloud, answer, start), day),
                         answer.daily[day], PerCent * Cardinality(K))
<1> DEFINE items == LineItems(cloud, answer, start)
           total == Entries(answer, K)
           share(d, k) == Allocated(answer, d, k)
           shares == {x \in (DOMAIN answer.daily) \X K : share(x[1], x[2]) > 0}
           shown == ShownOn(items, day)
<1>1. /\ answer.error = None /\ K = DOMAIN answer.services /\ IsFiniteSet(K)
      /\ \A k \in K : answer.services[k].cost \in Nat
      /\ \A d \in DOMAIN answer.daily : answer.daily[d] \in Nat
  BY DEF AnswerGood
<1>2. answer.services # <<>>
  <2>1. DOMAIN <<>> = {}
    OBVIOUS
  <2>2. QED
    BY <1>1, <2>1
<1>3. items = [x \in shares |->
                 CostRecord(x[1], cloud, answer.services[x[2]].service, share(x[1], x[2]), "USD")]
  BY <1>1, <1>2 DEF LineItems
<1> HIDE DEF items
<1>4. /\ DOMAIN items = shares
      /\ \A x \in shares : items[x].day = x[1] /\ items[x].cost = share(x[1], x[2])
  BY <1>3 DEF CostRecord
<1>5. total \in Nat /\ PerCent \in Nat \ {0}
  BY EntriesAre, ProviderCostsAssumption
<1>6. \A d \in DOMAIN answer.daily, k \in K :
        /\ share(d, k) = IF total = 0 THEN 0
                         ELSE Round(answer.services[k].cost * answer.daily[d], total * PerCent)
        /\ share(d, k) \in Nat
        /\ total # 0 => Near((total * PerCent) * share(d, k),
                             answer.services[k].cost * answer.daily[d], total * PerCent)
  <2> TAKE d \in DOMAIN answer.daily, k \in K
  <2> DEFINE a == answer.services[k].cost * answer.daily[d]
             e == total * PerCent
  <2>1. share(d, k) = IF total = 0 THEN 0 ELSE Round(a, e)
    BY EntriesAre
  <2>2. a \in Nat /\ (total # 0 => e \in Nat \ {0})
    <3> DEFINE u == answer.services[k].cost
               v == answer.daily[d]
    <3>1. u \in Nat /\ v \in Nat
      BY <1>1
    <3> HIDE DEF u, v, total
    <3>2. u * v \in Nat
      BY <3>1
    <3>3. total # 0 => total * PerCent \in Nat \ {0}
      BY <1>5
    <3>4. QED
      BY <3>2, <3>3 DEF u, v
  <2> HIDE DEF a, e, total, share
  <2>3. CASE total = 0
    BY <2>1, <2>3 DEF a, e
  <2>4. CASE total # 0
    <3>1. Round(a, e) \in Nat /\ Near(e * Round(a, e), a, e)
      BY <2>2, <2>4, RoundNearest
    <3>2. QED
      BY <2>1, <2>4, <3>1 DEF a, e
  <2>5. QED
    BY <2>3, <2>4
<1> DEFINE S == ItemsOn(items, day)
<1>7. S = {x \in shares : x[1] = day}
  BY <1>4 DEF ItemsOn
<1>8. shown = SumFunctionOnSet(CostsAt(items, S), S)
  BY ShownIs
<1> HIDE DEF share
<1>9. \A x \in DOMAIN items : items[x].day \in DOMAIN answer.daily
  BY <1>4
<1>10. CASE total = 0 \/ day \notin DOMAIN answer.daily
  <2>1. S = {}
    BY <1>6, <1>7, <1>10
  <2>2. shown = 0
    BY <1>8, <2>1, SumOfNone
  <2>3. ~(total > 0 /\ day \in DOMAIN answer.daily)
    BY <1>10
  <2>4. QED
    BY <1>9, <2>2, <2>3 DEF items
<1>11. CASE total # 0 /\ day \in DOMAIN answer.daily
  <2> DEFINE P == {day} \X K
             f == [x \in P |-> share(day, x[2])]
             g == [k \in K |-> share(day, k)]
             c == CostsAt(items, S)
             w == EntryCosts(answer, K)
  <2>1. /\ \A x \in P : x[2] \in K /\ x[1] = day /\ f[x] = share(day, x[2])
        /\ \A k \in K : g[k] = share(day, k) /\ f[<<day, k>>] = g[k]
    OBVIOUS
  <2>2. \A k \in K : share(day, k) \in Nat
    BY <1>6, <1>11
  <2>3. IsFiniteSet(P)
    BY <1>1, FS_Product, FS_Singleton
  <2>4. S \in SUBSET P
    <3>1. \A x \in shares : x = <<x[1], x[2]>> /\ x[2] \in K
      OBVIOUS
    <3>2. QED
      BY <1>7, <3>1
  <2>5. \A x \in P \ S : share(day, x[2]) = 0
    <3> SUFFICES ASSUME NEW k \in K, share(day, k) # 0 PROVE <<day, k>> \in S
      BY <2>1
    <3>1. share(day, k) > 0
      BY <2>2
    <3>2. QED
      BY <1>7, <1>11, <3>1
  <2>6. \A x \in S : c[x] = share(day, x[2])
    BY <1>4, <1>7 DEF CostsAt
  <2> HIDE DEF f, g, c, w, P, S, shares
  <2>7. IsFiniteSet(S) /\ \A x \in S : c[x] = f[x]
    BY <2>1, <2>3, <2>4, <2>6, FS_Subset
  <2>8. SumFunctionOnSet(c, S) = SumFunctionOnSet(f, S)
    BY <2>7, SumSame
  <2>9. \A x \in P : f[x] \in Int
    BY <2>1, <2>2
  <2>10. \A x \in P \ S : f[x] = 0
    BY <2>1, <2>5
  <2>11. SumFunctionOnSet(f, P) = SumFunctionOnSet(f, S)
    BY <2>3, <2>4, <2>9, <2>10, SumOfSome
  <2>12. \A k \in K : f[<<day, k>>] = g[k] /\ g[k] \in Int /\ g[k] \in Nat
    BY <2>1, <2>2
  <2>13. SumFunctionOnSet(f, P) = SumFunctionOnSet(g, K)
    <3>1. Paired(f, day, g, K)
      BY <2>12 DEF Paired
    <3>2. IsFiniteSet(K)
      BY <1>1
    <3>3. SumFunctionOnSet(f, {day} \X K) = SumFunctionOnSet(g, K)
      BY <3>1, <3>2, SumOfPairs
    <3>4. QED
      BY <3>3 DEF P
  <2>14. shown = SumFunctionOnSet(g, K) /\ shown \in Nat
    <3>1. SumFunctionOnSet(g, K) \in Nat
      BY <1>1, <2>12, SumOfNumbers
    <3>2. QED
      BY <1>8, <2>8, <2>11, <2>13, <3>1 DEF c
  <2> DEFINE e == total * PerCent
             D == answer.daily[day]
             n == Cardinality(K)
  <2>15. \A k \in K : w[k] = answer.services[k].cost /\ w[k] \in Int
    BY <1>1, EntriesAre DEF w
  <2>16. e \in Int /\ D \in Nat /\ n \in Nat
    <3>1. D \in Nat
      BY <1>1, <1>11
    <3>2. n \in Nat
      BY <1>1, FS_CardinalityType
    <3> HIDE DEF total
    <3>3. e \in Int
      BY <1>5
    <3>4. QED
      BY <3>1, <3>2, <3>3
  <2>17. \A k \in K : Near(e * g[k], D * w[k], e)
    <3> TAKE k \in K
    <3>1. Near(e * share(day, k), answer.services[k].cost * D, e)
      BY <1>6, <1>11
    <3>2. w[k] = answer.services[k].cost /\ answer.services[k].cost \in Nat /\ g[k] = share(day, k)
      BY <1>1, <2>1, <2>15
    <3> DEFINE u == answer.services[k].cost
    <3>3. u * D = D * u
      <4>1. u \in Nat
        BY <3>2
      <4> HIDE DEF u, D
      <4>2. QED
        BY <2>16, <4>1
    <3>4. QED
      BY <3>1, <3>2, <3>3
  <2> HIDE DEF e, D
  <2>18. Near(e * SumFunctionOnSet(g, K), D * SumFunctionOnSet(w, K), e * n)
    <3>1. Apart(g, w, K, e, D, e)
      BY <2>12, <2>15, <2>17 DEF Apart
    <3>2. IsFiniteSet(K) /\ e \in Int /\ D \in Int
      BY <1>1, <2>16
    <3>3. Near(e * SumFunctionOnSet(g, K), D * SumFunctionOnSet(w, K), e * Cardinality(K))
      BY <3>1, <3>2, ErrorsAdd
    <3>4. QED
      BY <3>3 DEF n
  <2>19. SumFunctionOnSet(w, K) = total
    BY DEF w, Entries
  <2>20. Near(e * shown, D * total, e * n)
    BY <2>14, <2>18, <2>19
  <2> HIDE DEF shown, total, n
  <2>21. /\ e * shown = total * (PerCent * shown) /\ e * n = total * (PerCent * n)
         /\ D * total = total * D
    BY <1>5, <2>14, <2>16 DEF e
  <2>22. PerCent * shown \in Int /\ PerCent * n \in Int /\ total \in Nat \ {0}
    BY <1>5, <1>11, <2>14, <2>16
  <2>23. Near(total * (PerCent * shown), total * D, total * (PerCent * n))
    BY <2>20, <2>21
  <2> DEFINE a == PerCent * shown
             bound == PerCent * n
  <2> HIDE DEF a, bound
  <2>24. Near(a, D, bound)
    <3>1. /\ a \in Int /\ bound \in Int /\ D \in Int /\ total \in Nat \ {0}
          /\ Near(total * a, total * D, total * bound)
      BY <2>16, <2>22, <2>23 DEF a, bound
    <3>2. QED
      BY <3>1, NearScaled
  <2>25. total # 0
    BY <1>11
  <2>26. QED
    BY <1>9, <1>11, <2>14, <2>24, <2>25 DEF a, bound, D, n, shown, total, items
<1>12. QED
  BY <1>10, <1>11

\* An answer for a period: what is shown of it is what its entries cost.
LEMMA PeriodShown ==
  ASSUME NEW answer, NEW K, AnswerGood(answer, K), K # {}, NEW cloud, NEW start,
         answer.daily = <<>>,
         \A k \in K : \E q \in Nat : answer.services[k].cost = PerCent * q
  PROVE  /\ \A x \in DOMAIN LineItems(cloud, answer, start) :
              LineItems(cloud, answer, start)[x].day = start
         /\ ShownOn(LineItems(cloud, answer, start), start) \in Nat
         /\ PerCent * ShownOn(LineItems(cloud, answer, start), start) = Entries(answer, K)
<1> DEFINE items == LineItems(cloud, answer, start)
           cost(k) == answer.services[k].cost
           shown == ShownOn(items, start)
           w == EntryCosts(answer, K)
           c == CostsAt(items, K)
<1>1. answer.error = None /\ K = DOMAIN answer.services /\ IsFiniteSet(K)
  BY DEF AnswerGood
<1>2. answer.services # <<>> /\ ~(answer.daily # <<>>)
  <2>1. DOMAIN <<>> = {}
    OBVIOUS
  <2>2. QED
    BY <1>1, <2>1
<1>3. items = [k \in K |-> CostRecord(start, cloud, answer.services[k].service,
                                     Round(cost(k), PerCent), "USD")]
  BY <1>1, <1>2 DEF LineItems
<1> HIDE DEF items
<1>4. /\ DOMAIN items = K
      /\ \A k \in K : items[k].day = start /\ items[k].cost = Round(cost(k), PerCent)
  BY <1>3 DEF CostRecord
<1>5. ItemsOn(items, start) = K
  BY <1>4 DEF ItemsOn
<1>6. shown = SumFunctionOnSet(c, K)
  BY <1>5, ShownIs
<1>7. \A k \in K : c[k] \in Nat /\ PerCent * c[k] = w[k] /\ w[k] \in Int
  <2> TAKE k \in K
  <2>1. PICK q \in Nat : cost(k) = PerCent * q
    OBVIOUS
  <2>2. c[k] = Round(PerCent * q, PerCent) /\ w[k] = PerCent * q
    BY <1>4, <2>1, EntriesAre DEF CostsAt
  <2> HIDE DEF c, w
  <2>3. c[k] = q
    BY <2>2, RoundExact, ProviderCostsAssumption
  <2>4. QED
    BY <2>2, <2>3, ProviderCostsAssumption
<1> HIDE DEF c, w, shown, cost
<1>8. Apart(c, w, K, PerCent, 1, 0)
  <2> SUFFICES ASSUME NEW k \in K
               PROVE  c[k] \in Int /\ w[k] \in Int /\ Near(PerCent * c[k], 1 * w[k], 0)
    BY DEF Apart
  <2>1. c[k] \in Int /\ w[k] \in Int /\ PerCent * c[k] = w[k]
    BY <1>7
  <2>2. 1 * w[k] = w[k] /\ w[k] - w[k] = 0
    BY <2>1
  <2>3. QED
    BY <2>1, <2>2 DEF Near
<1>9. PerCent \in Int /\ Cardinality(K) \in Nat
  BY <1>1, FS_CardinalityType, ProviderCostsAssumption
<1>10. Near(PerCent * SumFunctionOnSet(c, K), 1 * SumFunctionOnSet(w, K), 0 * Cardinality(K))
  <2> DEFINE one == 1
             none == 0
  <2>1. Apart(c, w, K, PerCent, one, none) /\ one \in Int /\ none \in Int
    BY <1>8
  <2> HIDE DEF one, none
  <2>2. Near(PerCent * SumFunctionOnSet(c, K), one * SumFunctionOnSet(w, K),
             none * Cardinality(K))
    BY <1>1, <1>9, <2>1, ErrorsAdd
  <2>3. QED
    BY <2>2 DEF one, none
<1>11. shown \in Nat
  <2>1. \A k \in K : c[k] \in Int /\ c[k] \in Nat
    BY <1>7
  <2>2. SumFunctionOnSet(c, K) \in Nat
    BY <1>1, <2>1, SumOfNumbers
  <2>3. QED
    BY <1>6, <2>2
<1>12. SumFunctionOnSet(w, K) = Entries(answer, K) /\ Entries(answer, K) \in Nat
  BY EntriesAre DEF w, Entries
<1>13. PerCent * shown = Entries(answer, K)
  <2> DEFINE a == PerCent * shown
             b == Entries(answer, K)
             n == Cardinality(K)
  <2>1. a \in Int /\ b \in Int
    BY <1>9, <1>11, <1>12
  <2>2. Near(a, 1 * b, 0 * n) /\ n \in Nat
    BY <1>6, <1>9, <1>10, <1>12
  <2> HIDE DEF a, b, n
  <2>3. 1 * b = b /\ 0 * n = 0
    BY <2>1, <2>2
  <2>4. a = b
    BY <2>1, <2>2, <2>3 DEF Near
  <2>5. QED
    BY <2>4 DEF a, b
<1>14. QED
  BY <1>4, <1>11, <1>13 DEF items, shown

\* An amount in whole cents is within half a cent of the amount.
LEMMA ToCentsNear ==
  ASSUME NEW a \in Nat
  PROVE  /\ ToCents(a) \in Nat /\ Near(ToCents(a), a, PerCent)
         /\ \E q \in Nat : ToCents(a) = PerCent * q
<1> DEFINE q == Round(a, PerCent)
<1>1. PerCent \in Nat \ {0}
  BY ProviderCostsAssumption
<1>2. q \in Nat /\ Near(PerCent * q, a, PerCent)
  BY <1>1, RoundNearest
<1>3. ToCents(a) = q * PerCent
  BY DEF ToCents
<1> HIDE DEF q
<1>4. q * PerCent = PerCent * q /\ PerCent * q \in Nat
  BY <1>1, <1>2
<1>5. QED
  BY <1>2, <1>3, <1>4

\* What is charged: finitely many amounts.
RowsGood(r, R) == R = DOMAIN r /\ IsFiniteSet(R) /\ \A k \in R : r[k] \in Nat

EntriesFor(services, K, cloud, r) ==
  services = ServiceCosts(cloud, r) /\ K = DOMAIN services
CostOfEntries(services, K) == [k \in K |-> services[k].cost]

\* The entries of an answer are what was charged, but for half a cent of each row.
LEMMA ServiceCostsAre ==
  ASSUME NEW cloud \in Clouds, NEW r, NEW R, RowsGood(r, R),
         NEW services, NEW K, EntriesFor(services, K, cloud, r)
  PROVE  /\ IsFiniteSet(K) /\ Cardinality(K) <= Cardinality(R) /\ (K = {} <=> R = {})
         /\ \A k \in K : services[k].cost \in Nat
         /\ cloud # "aws" => \A k \in K : \E q \in Nat : services[k].cost = PerCent * q
         /\ Near(SumFunctionOnSet(CostOfEntries(services, K), K), SumFunctionOnSet(r, R),
                 PerCent * Cardinality(R))
<1> USE DEF EntriesFor
<1> DEFINE w == CostOfEntries(services, K)
           n == Cardinality(R)
<1>1. R = DOMAIN r /\ IsFiniteSet(R) /\ \A k \in R : r[k] \in Nat /\ r[k] \in Int
  BY DEF RowsGood
<1>2. PerCent \in Nat \ {0} /\ n \in Nat
  BY <1>1, FS_CardinalityType, ProviderCostsAssumption
<1>3. \A k \in K : w[k] = services[k].cost
  BY DEF CostOfEntries
<1>4. CASE cloud = "azure"
  <2> DEFINE S == {k[2] : k \in R}
             Of == [k \in R |-> k[2]]
             g == [s \in S |-> SumFunctionOnSet(r, {k \in R : Of[k] = s})]
  <2>1. services = [s \in S |-> [service |-> s, cost |-> ToCents(ServiceTotal(r, s))]]
    BY <1>1, <1>4 DEF ServiceCosts
  <2>2. K = S
    BY <2>1
  <2>3. \A s \in S : ServiceTotal(r, s) = g[s]
    <3>1. \A s \in S : {k \in DOMAIN r : k[2] = s} = {k \in R : Of[k] = s}
      BY <1>1
    <3>2. QED
      BY <3>1 DEF ServiceTotal
  <2>4. \A s \in S : g[s] \in Nat /\ g[s] \in Int
    <3> SUFFICES ASSUME NEW s \in S PROVE g[s] \in Nat /\ g[s] \in Int
      OBVIOUS
    <3> DEFINE U == {k \in R : Of[k] = s}
    <3>1. IsFiniteSet(U) /\ \A k \in U : r[k] \in Nat /\ r[k] \in Int
      BY <1>1, FS_Subset
    <3> HIDE DEF U
    <3>2. SumFunctionOnSet(r, U) \in Nat
      BY <3>1, SumOfNumbers
    <3>3. g[s] = SumFunctionOnSet(r, U)
      BY DEF U
    <3>4. QED
      BY <3>2, <3>3
  <2>5. IsFiniteSet(S) /\ Cardinality(S) <= n
    <3>1. Of \in Surjection(R, S)
      BY DEF Surjection
    <3>2. QED
      BY <1>1, <3>1, FS_Surjection
  <2>6. S = {} <=> R = {}
    OBVIOUS
  <2>7. SumFunctionOnSet(g, S) = SumFunctionOnSet(r, R)
    <3>1. Of \in [R -> S]
      OBVIOUS
    <3>2. SumsOf(g, r, R, Of, S)
      BY DEF SumsOf
    <3> HIDE DEF g, S, Of
    <3>3. IsFiniteSet(R) /\ IsFiniteSet(S) /\ \A k \in R : r[k] \in Int
      BY <1>1, <2>5
    <3>4. QED
      BY <3>1, <3>2, <3>3, SumOfGroups
  <2>8. \A s \in S : services[s].cost = ToCents(g[s])
    <3>1. \A s \in S : services[s].cost = ToCents(ServiceTotal(r, s))
      BY <2>1
    <3> HIDE DEF g, S
    <3>2. QED
      BY <2>3, <3>1
  <2> HIDE DEF g, S, Of
  <2>9. \A s \in S : /\ services[s].cost \in Nat /\ Near(services[s].cost, g[s], PerCent)
                     /\ \E q \in Nat : services[s].cost = PerCent * q
    BY <2>4, <2>8, ToCentsNear
  <2> HIDE DEF w
  <2>10. Apart(w, g, S, 1, 1, PerCent)
    <3> SUFFICES ASSUME NEW s \in S
                 PROVE  w[s] \in Int /\ g[s] \in Int /\ Near(1 * w[s], 1 * g[s], PerCent)
      BY DEF Apart
    <3>1. w[s] \in Int /\ g[s] \in Int /\ Near(w[s], g[s], PerCent)
      BY <1>3, <2>2, <2>4, <2>9
    <3>2. 1 * w[s] = w[s] /\ 1 * g[s] = g[s]
      BY <3>1
    <3>3. QED
      BY <3>1, <3>2
  <2>11. Near(1 * SumFunctionOnSet(w, S), 1 * SumFunctionOnSet(g, S), PerCent * Cardinality(S))
    BY <1>2, <2>5, <2>10, ErrorsAdd
  <2>12. SumFunctionOnSet(w, S) \in Int /\ SumFunctionOnSet(g, S) \in Int
    BY <2>5, <2>10, SumOfNumbers DEF Apart
  <2>13. Near(SumFunctionOnSet(w, S), SumFunctionOnSet(r, R), PerCent * n)
    <3> DEFINE x == SumFunctionOnSet(w, S)
               y == SumFunctionOnSet(g, S)
               m == Cardinality(S)
    <3>1. m \in Nat /\ n \in Nat /\ m <= n
      BY <1>2, <2>5, FS_CardinalityType
    <3>2. Near(1 * x, 1 * y, PerCent * m) /\ x \in Int /\ y \in Int
      BY <2>11, <2>12
    <3> HIDE DEF x, y, m, n
    <3>3. PerCent * m <= PerCent * n
      BY <1>2, <3>1, Product
    <3>4. PerCent * m \in Int /\ PerCent * n \in Int
      BY <1>2, <3>1
    <3>5. Near(x, y, PerCent * n)
      BY <3>2, <3>3, <3>4 DEF Near
    <3>6. QED
      BY <2>7, <3>5 DEF x, y
  <2>14. QED
    BY <2>2, <2>5, <2>6, <2>9, <2>13 DEF w, n
<1>5. CASE cloud # "azure"
  <2>1. services = [k \in R |-> [service |-> k[2],
                                 cost |-> IF cloud = "aws" THEN r[k] ELSE ToCents(r[k])]]
    BY <1>1, <1>5 DEF ServiceCosts
  <2>2. K = R /\ \A k \in R : services[k].cost = IF cloud = "aws" THEN r[k] ELSE ToCents(r[k])
    BY <2>1
  <2>3. \A k \in R : /\ services[k].cost \in Nat /\ Near(services[k].cost, r[k], PerCent)
                     /\ cloud # "aws" => \E q \in Nat : services[k].cost = PerCent * q
    <3> TAKE k \in R
    <3>1. CASE cloud = "aws"
      <4>1. services[k].cost = r[k] /\ r[k] - r[k] = 0
        BY <1>1, <2>2, <3>1
      <4>2. QED
        BY <1>1, <1>2, <3>1, <4>1 DEF Near
    <3>2. CASE cloud # "aws"
      BY <1>1, <2>2, <3>2, ToCentsNear
    <3>3. QED
      BY <3>1, <3>2
  <2> HIDE DEF w
  <2>4. Apart(w, r, R, 1, 1, PerCent)
    <3> SUFFICES ASSUME NEW k \in R
                 PROVE  w[k] \in Int /\ r[k] \in Int /\ Near(1 * w[k], 1 * r[k], PerCent)
      BY DEF Apart
    <3>1. w[k] \in Int /\ r[k] \in Int /\ Near(w[k], r[k], PerCent)
      BY <1>1, <1>3, <2>2, <2>3
    <3>2. 1 * w[k] = w[k] /\ 1 * r[k] = r[k]
      BY <3>1
    <3>3. QED
      BY <3>1, <3>2
  <2>5. Near(1 * SumFunctionOnSet(w, R), 1 * SumFunctionOnSet(r, R), PerCent * Cardinality(R))
    BY <1>1, <1>2, <2>4, ErrorsAdd
  <2>6. SumFunctionOnSet(w, R) \in Int /\ SumFunctionOnSet(r, R) \in Int
    BY <1>1, <2>4, SumOfNumbers DEF Apart
  <2>7. Near(SumFunctionOnSet(w, R), SumFunctionOnSet(r, R), PerCent * n)
    <3> DEFINE x == SumFunctionOnSet(w, R)
               y == SumFunctionOnSet(r, R)
    <3> HIDE DEF x, y
    <3>1. 1 * x = x /\ 1 * y = y
      BY <2>6 DEF x, y
    <3>2. QED
      BY <2>5, <3>1 DEF x, y
  <2>8. Cardinality(K) <= Cardinality(R)
    BY <1>2, <2>2
  <2>9. QED
    BY <1>1, <2>2, <2>3, <2>7, <2>8 DEF w
<1>6. QED
  BY <1>4, <1>5

LEMMA NearThrough ==
  ASSUME NEW a \in Int, NEW b \in Int, NEW c \in Int, NEW m \in Nat, NEW n \in Nat, m <= n,
         Near(a, b, PerCent * m), Near(b, c, PerCent)
  PROVE  Near(a, c, PerCent * (n + 1))
<1>1. PerCent \in Nat \ {0}
  BY ProviderCostsAssumption
<1>2. PerCent * m <= PerCent * n
  BY <1>1, Product
<1>3. PerCent * (n + 1) = PerCent * n + PerCent /\ PerCent * n \in Int /\ PerCent * m \in Int
  BY <1>1
<1>4. QED
  BY <1>1, <1>2, <1>3 DEF Near

\* A part of what is charged is no more than all of it.
LEMMA SumOfPart ==
  ASSUME NEW r, NEW R, RowsGood(r, R), NEW U \in SUBSET R
  PROVE  /\ SumFunctionOnSet(r, U) \in Nat /\ SumFunctionOnSet(r, R) \in Nat
         /\ SumFunctionOnSet(r, U) <= SumFunctionOnSet(r, R)
<1> DEFINE f == [k \in R |-> IF k \in U THEN r[k] ELSE 0]
<1>1. IsFiniteSet(R) /\ \A k \in R : r[k] \in Nat /\ r[k] \in Int
  BY DEF RowsGood
<1>2. IsFiniteSet(U) /\ \A k \in U : r[k] \in Nat /\ r[k] \in Int /\ f[k] = r[k]
  BY <1>1, FS_Subset
<1>3. /\ \A k \in R : f[k] \in Int /\ r[k] \in Int /\ f[k] <= r[k]
      /\ \A k \in R \ U : f[k] = 0
  BY <1>1
<1> HIDE DEF f
<1>4. SumFunctionOnSet(r, U) \in Nat /\ SumFunctionOnSet(r, R) \in Nat
  BY <1>1, <1>2, SumOfNumbers
<1>5. SumFunctionOnSet(f, U) = SumFunctionOnSet(r, U)
  BY <1>2, SumSame
<1>6. SumFunctionOnSet(f, R) = SumFunctionOnSet(f, U)
  BY <1>1, <1>3, SumOfSome
<1>7. SumFunctionOnSet(f, R) <= SumFunctionOnSet(r, R)
  BY <1>1, <1>3, SumMonotone
<1>8. QED
  BY <1>4, <1>5, <1>6, <1>7

\* The days of an answer that is not by the period.
DaysOf(cloud, granularity, r) ==
  IF cloud # "aws" /\ granularity = "MONTHLY" THEN {} ELSE Days(r)

LEMMA NormalizedIs ==
  ASSUME NEW cloud \in Clouds, NEW granularity, NEW rows, NEW r, r = Charged(rows),
         NEW R, RowsGood(r, R),
         NEW a, a = Normalized(cloud, rows, granularity), NEW K, K = DOMAIN a.services
  PROVE  /\ AnswerGood(a, K) /\ Cardinality(K) <= Cardinality(R) /\ (K = {} <=> R = {})
         /\ cloud # "aws" => \A k \in K : \E q \in Nat : a.services[k].cost = PerCent * q
         /\ Near(Entries(a, K), SumFunctionOnSet(r, R), PerCent * Cardinality(R))
         /\ a.daily = [d \in DaysOf(cloud, granularity, r) |-> ToCents(DayTotal(r, d))]
         /\ \A d : DayTotal(r, d) = SumFunctionOnSet(r, {k \in R : k[1] = d})
<1>1. /\ a.error = None /\ a.total = ToCents(RowsTotal(r)) /\ a.services = ServiceCosts(cloud, r)
      /\ a.daily = [d \in DaysOf(cloud, granularity, r) |-> ToCents(DayTotal(r, d))]
  BY DEF Normalized, Served, DaysOf
<1>2. R = DOMAIN r /\ IsFiniteSet(R)
  BY DEF RowsGood
<1> DEFINE services == a.services
<1>3. EntriesFor(services, K, cloud, r) /\ K = DOMAIN services
  BY <1>1 DEF EntriesFor
<1> HIDE DEF services
<1>4. /\ IsFiniteSet(K) /\ Cardinality(K) <= Cardinality(R) /\ (K = {} <=> R = {})
      /\ \A k \in K : services[k].cost \in Nat
      /\ cloud # "aws" => \A k \in K : \E q \in Nat : services[k].cost = PerCent * q
      /\ Near(SumFunctionOnSet(CostOfEntries(services, K), K), SumFunctionOnSet(r, R),
              PerCent * Cardinality(R))
  BY <1>3, ServiceCostsAre, SMTT(30)
<1>5. Entries(a, K) = SumFunctionOnSet(CostOfEntries(services, K), K)
  BY DEF Entries, EntryCosts, CostOfEntries, services
<1>6. \A d : DayTotal(r, d) = SumFunctionOnSet(r, {k \in R : k[1] = d})
  BY <1>2 DEF DayTotal
<1>7. \A d : ToCents(DayTotal(r, d)) \in Nat
  <2> TAKE d
  <2> DEFINE U == {k \in R : k[1] = d}
  <2>1. U \in SUBSET R
    OBVIOUS
  <2> HIDE DEF U
  <2>2. SumFunctionOnSet(r, U) \in Nat
    BY <2>1, SumOfPart
  <2>3. QED
    BY <1>6, <2>2, ToCentsNear DEF U
<1>8. K = {} => a.total = 0
  <2> SUFFICES ASSUME K = {} PROVE ToCents(RowsTotal(r)) = 0
    BY <1>1
  <2>1. RowsTotal(r) = 0
    BY <1>2, <1>4, SumOfNone DEF RowsTotal, SumFunction
  <2>2. PerCent \in Nat \ {0}
    BY ProviderCostsAssumption
  <2>3. PerCent * 0 = 0 /\ 0 * PerCent = 0
    BY <2>2
  <2>4. Round(PerCent * 0, PerCent) = 0
    BY <2>2, RoundExact
  <2>5. QED
    BY <2>1, <2>3, <2>4 DEF ToCents
<1>9. \A d \in DOMAIN a.daily : a.daily[d] \in Nat
  BY <1>1, <1>7
<1>10. AnswerGood(a, K)
  BY <1>1, <1>3, <1>4, <1>8, <1>9 DEF AnswerGood, services
<1>11. QED
  BY <1>1, <1>4, <1>5, <1>6, <1>10 DEF services

\* What the explorer shows of a normalized answer is what was charged.
Spans(R, start, end) == \A k \in R : k[1] \in start..end
OnDay(R, day) == {k \in R : k[1] = day}
AccountedFor(items, day, r, R, S) ==
  /\ ShownOn(items, day) \in Nat
  /\ Near(PerCent * ShownOn(items, day), SumFunctionOnSet(r, S),
          PerCent * (Cardinality(R) + 1))

LEMMA ChargedIsShown ==
  ASSUME NEW cloud \in Clouds, NEW granularity, NEW rows, NEW r, r = Charged(rows),
         NEW R, RowsGood(r, R), NEW start \in Nat, NEW end \in Nat,
         Spans(R, start, end),
         NEW items, items = LineItems(cloud, Normalized(cloud, rows, granularity), start),
         NEW day
  PROVE  /\ \A x \in DOMAIN items : items[x].day \in start..end
         /\ ~(cloud # "aws" /\ granularity = "MONTHLY")
              => AccountedFor(items, day, r, R, OnDay(R, day))
         /\ cloud # "aws" /\ granularity = "MONTHLY"
              => AccountedFor(items, start, r, R, R)
<1> USE DEF AccountedFor, OnDay
<1> DEFINE a == Normalized(cloud, rows, granularity)
           K == DOMAIN a.services
           n == Cardinality(R)
           byMonth == cloud # "aws" /\ granularity = "MONTHLY"
           U == {k \in R : k[1] = day}
           sum == SumFunctionOnSet(r, R)
           part == SumFunctionOnSet(r, U)
<1>1. /\ AnswerGood(a, K) /\ Cardinality(K) <= n /\ (K = {} <=> R = {})
      /\ cloud # "aws" => \A k \in K : \E q \in Nat : a.services[k].cost = PerCent * q
      /\ Near(Entries(a, K), sum, PerCent * n)
      /\ a.daily = [d \in DaysOf(cloud, granularity, r) |-> ToCents(DayTotal(r, d))]
      /\ \A d : DayTotal(r, d) = SumFunctionOnSet(r, {k \in R : k[1] = d})
  BY NormalizedIs
<1>2. items = LineItems(cloud, a, start)
  OBVIOUS
<1>3. Days(r) = {k[1] : k \in R} /\ IsFiniteSet(R)
  BY DEF Days, RowsGood
<1> HIDE DEF a, K
<1>4. /\ sum \in Nat /\ part \in Nat /\ part <= sum /\ n \in Nat /\ PerCent \in Nat \ {0}
      /\ Entries(a, K) \in Nat /\ Cardinality(K) \in Nat
  <2>1. U \in SUBSET R
    OBVIOUS
  <2> HIDE DEF U
  <2>2. sum \in Nat /\ part \in Nat /\ part <= sum
    BY <2>1, SumOfPart
  <2>3. n \in Nat
    BY <1>3, FS_CardinalityType
  <2>4. IsFiniteSet(K)
    BY <1>1 DEF AnswerGood
  <2>5. Cardinality(K) \in Nat
    BY <2>4, FS_CardinalityType
  <2>6. Entries(a, K) \in Nat
    BY <1>1, EntriesAre
  <2>7. QED
    BY <2>2, <2>3, <2>5, <2>6, ProviderCostsAssumption
<1>5. CASE R = {}
  <2>1. DOMAIN items = {} /\ ShownOn(items, day) = 0 /\ ShownOn(items, start) = 0
    <3>1. AnswerGood(a, {})
      BY <1>1, <1>5
    <3>2. \A d : /\ DOMAIN LineItems(cloud, a, start) = {}
                /\ ShownOn(LineItems(cloud, a, start), d) = 0
      BY <3>1, NothingToShow
    <3>3. QED
      BY <1>2, <3>2
  <2>2. part = 0 /\ sum = 0 /\ n = 0
    <3>1. U = {}
      BY <1>5
    <3>2. QED
      BY <1>5, <3>1, SumOfNone, FS_EmptySet
  <2>3. Near(PerCent * 0, 0, PerCent * (0 + 1))
    BY <1>4 DEF Near
  <2> HIDE DEF part, sum, n
  <2>4. QED
    BY <2>1, <2>2, <2>3 DEF part, sum, n, U
<1>6. CASE R # {} /\ byMonth
  <2>1. a.daily = <<>>
    BY <1>1, <1>6 DEF DaysOf
  <2>2. K # {} /\ cloud # "aws"
    BY <1>1, <1>6
  <2>3. /\ \A x \in DOMAIN items : items[x].day = start
        /\ ShownOn(items, start) \in Nat
        /\ PerCent * ShownOn(items, start) = Entries(a, K)
    BY <1>1, <1>2, <2>1, <2>2, PeriodShown
  <2>4. start \in start..end
    <3>1. PICK k \in R : TRUE
      BY <1>6
    <3>2. k[1] \in start..end
      BY DEF Spans
    <3>3. QED
      BY <3>2
  <2> DEFINE e == Entries(a, K)
             m == n
  <2> HIDE DEF e, sum, n
  <2>5. Near(e, sum, PerCent * n) /\ e \in Int /\ sum \in Int /\ n \in Nat
    BY <1>1, <1>4 DEF e
  <2>6. Near(sum, sum, PerCent)
    <3>1. sum - sum = 0
      BY <2>5
    <3>2. QED
      BY <1>4, <3>1 DEF Near
  <2>7. Near(e, sum, PerCent * (n + 1))
    BY <2>5, <2>6, NearThrough
  <2>8. QED
    BY <1>6, <2>3, <2>4, <2>7 DEF e, sum, n
<1>7. CASE R # {} /\ ~byMonth
  <2> DEFINE shown == ShownOn(items, day)
  <2>1. /\ DOMAIN a.daily = Days(r) /\ Days(r) # {}
        /\ \A d \in Days(r) : a.daily[d] = ToCents(DayTotal(r, d))
    BY <1>1, <1>3, <1>7 DEF DaysOf
  <2>2. a.daily # <<>> /\ K # {}
    <3>1. DOMAIN <<>> = {}
      OBVIOUS
    <3>2. QED
      BY <1>1, <1>7, <2>1, <3>1
  <2>3. /\ \A x \in DOMAIN items : items[x].day \in DOMAIN a.daily
        /\ Entries(a, K) = 0 \/ day \notin DOMAIN a.daily => shown = 0
        /\ Entries(a, K) > 0 /\ day \in DOMAIN a.daily
             => shown \in Nat /\ Near(PerCent * shown, a.daily[day], PerCent * Cardinality(K))
    <3>1. AnswerGood(a, K)
      BY <1>1
    <3> DEFINE its == LineItems(cloud, a, start)
    <3>2. /\ \A x \in DOMAIN its : its[x].day \in DOMAIN a.daily
          /\ Entries(a, K) = 0 \/ day \notin DOMAIN a.daily => ShownOn(its, day) = 0
          /\ Entries(a, K) > 0 /\ day \in DOMAIN a.daily
               => /\ ShownOn(its, day) \in Nat
                  /\ Near(PerCent * ShownOn(its, day), a.daily[day], PerCent * Cardinality(K))
      BY <2>2, <3>1, AllocatedShown
    <3>3. its = items
      BY <1>2
    <3> HIDE DEF its
    <3>4. QED
      BY <3>2, <3>3
  <2>4. \A x \in DOMAIN items : items[x].day \in start..end
    BY <1>3, <2>1, <2>3 DEF Spans
  <2>5. PerCent * (n + 1) = PerCent * n + PerCent /\ PerCent * n \in Nat /\ PerCent * 0 = 0
    <3> HIDE DEF n
    <3>1. QED
      BY <1>4
  <2>6. shown \in Nat /\ Near(PerCent * shown, part, PerCent * (n + 1))
    <3>1. CASE day \notin Days(r)
      <4>1. U = {} /\ shown = 0
        BY <1>3, <2>1, <2>3, <3>1
      <4>2. part = 0
        BY <4>1, SumOfNone
      <4> HIDE DEF part, shown, n
      <4>3. QED
        BY <1>4, <2>5, <4>1, <4>2 DEF Near
    <3>2. CASE day \in Days(r) /\ Entries(a, K) = 0
      <4>1. shown = 0
        BY <2>3, <3>2
      <4>2. 2 * (sum - 0) <= PerCent * n
        BY <1>1, <3>2 DEF Near
      <4> HIDE DEF part, shown, n, sum
      <4>3. QED
        BY <1>4, <2>5, <4>1, <4>2 DEF Near
    <3>3. CASE day \in Days(r) /\ Entries(a, K) # 0
      <4> DEFINE m == Cardinality(K)
                 x == PerCent * shown
                 D == a.daily[day]
      <4>1. shown \in Nat /\ Near(x, D, PerCent * m)
        BY <1>4, <2>1, <2>3, <3>3
      <4>2. D = ToCents(part)
        BY <1>1, <2>1, <3>3
      <4>3. D \in Nat /\ Near(D, part, PerCent)
        BY <1>4, <4>2, ToCentsNear
      <4>4. x \in Int /\ m \in Nat /\ m <= n
        <5> HIDE DEF shown, m, n
        <5>1. x \in Int
          BY <1>4, <4>1
        <5>2. QED
          BY <1>1, <1>4, <5>1 DEF m
      <4> HIDE DEF m, x, D, part, n, shown
      <4>5. Near(x, part, PerCent * (n + 1))
        <5>1. /\ part \in Int /\ D \in Int /\ n \in Nat
              /\ Near(x, D, PerCent * m) /\ Near(D, part, PerCent)
          BY <1>4, <4>1, <4>3
        <5>2. QED
          BY <4>4, <5>1, NearThrough
      <4>6. QED
        BY <4>1, <4>5 DEF x
    <3>4. QED
      BY <3>1, <3>2, <3>3
  <2>7. QED
    BY <1>7, <2>4, <2>6
<1>8. QED
  BY <1>5, <1>6, <1>7

LEMMA SumScaled ==
  ASSUME NEW f, NEW g, NEW S, IsFiniteSet(S), NEW p \in Int,
         \A x \in S : f[x] \in Int /\ g[x] = p * f[x]
  PROVE  SumFunctionOnSet(g, S) = p * SumFunctionOnSet(f, S)
<1> DEFINE one == 1
           none == 0
           x == SumFunctionOnSet(f, S)
           y == SumFunctionOnSet(g, S)
           n == Cardinality(S)
<1>1. Apart(f, g, S, p, one, none)
  <2> SUFFICES ASSUME NEW z \in S
               PROVE  f[z] \in Int /\ g[z] \in Int /\ Near(p * f[z], 1 * g[z], 0)
    BY DEF Apart
  <2> DEFINE u == f[z]
             v == g[z]
  <2>1. u \in Int /\ v = p * u
    OBVIOUS
  <2> HIDE DEF u, v
  <2>2. v \in Int
    BY <2>1
  <2>3. Near(p * u, 1 * v, 0)
    BY <2>1, <2>2 DEF Near
  <2>4. QED
    BY <2>1, <2>2, <2>3 DEF u, v
<1>2. one \in Int /\ none \in Int
  OBVIOUS
<1>3. x \in Int /\ y \in Int /\ n \in Nat
  <2>1. \A z \in S : f[z] \in Int /\ g[z] \in Int
    BY <1>1 DEF Apart
  <2>2. QED
    BY <2>1, SumOfNumbers, FS_CardinalityType
<1> HIDE DEF one, none
<1>4. Near(p * x, one * y, none * n)
  BY <1>1, <1>2, ErrorsAdd
<1> HIDE DEF x, y, n
<1>5. one * y = y /\ none * n = 0 /\ p * x \in Int
  BY <1>3 DEF one, none
<1>6. y = p * x
  BY <1>3, <1>4, <1>5 DEF Near
<1>7. QED
  BY <1>6 DEF x, y

\* The costs of the demo data.
Rates(byMonth) ==
  [s \in DOMAIN MockRates |-> IF byMonth THEN MockRates[s].month ELSE MockRates[s].day]

DemoShown(items, start, end, day, byMonth) ==
  /\ \A x \in DOMAIN items : items[x].day \in start..end
  /\ ShownOn(items, day) \in Nat
  /\ Near(PerCent * ShownOn(items, day), PerCent * SumFunction(Rates(byMonth)),
          PerCent * (Cardinality(DOMAIN MockRates) + 1))

LEMMA MockedIsShown ==
  ASSUME NEW start \in Nat, NEW end \in Nat, start <= end, NEW granularity \in Granularities,
         NEW items, items = LineItems("aws", Mocked(start, end, granularity), start),
         NEW day \in start..end, NEW byMonth, byMonth = (granularity = "MONTHLY"),
         byMonth => day = start
  PROVE  DemoShown(items, start, end, day, byMonth)
<1> USE DEF DemoShown
<1> DEFINE a == Mocked(start, end, granularity)
           M == DOMAIN MockRates
           n == Cardinality(M)
           long == end - start + 1
           rates == Rates(byMonth)
           sum == SumFunctionOnSet(rates, M)
           w == EntryCosts(a, M)
           scale == IF byMonth THEN PerCent ELSE PerCent * long
           total == Entries(a, M)
           shown == ShownOn(items, day)
<1>1. /\ PerCent \in Nat \ {0} /\ IsFiniteSet(M)
      /\ \A s \in M : MockRates[s].day \in Nat /\ MockRates[s].month \in Nat
  BY ProviderCostsAssumption
<1>2. /\ long \in Nat \ {0} /\ AtLeast(1, end - start + 1) = long /\ start + long - 1 = end
      /\ (granularity = "DAILY") = ~byMonth
  <2>1. long \in Nat \ {0} /\ start + long - 1 = end
    OBVIOUS
  <2>2. AtLeast(1, end - start + 1) = long
    BY <2>1 DEF AtLeast
  <2>3. (granularity = "DAILY") = ~byMonth
    BY Zenon DEF Granularities
  <2>4. QED
    BY <2>1, <2>2, <2>3
<1>3. /\ a.error = None
      /\ a.services = [s \in M |-> [service |-> s,
                         cost |-> PerCent * (IF ~byMonth THEN MockRates[s].day * long
                                             ELSE MockRates[s].month)]]
      /\ a.total = SumFunction([s \in DOMAIN a.services |-> a.services[s].cost])
      /\ a.daily = [d \in IF ~byMonth THEN start..end ELSE {} |->
                      Round(a.total, long * PerCent) * PerCent]
  BY <1>2 DEF Mocked, Served
<1>4. DOMAIN a.services = M /\ a.total = total
  <2>1. DOMAIN a.services = M
    BY <1>3
  <2>2. QED
    BY <1>3, <2>1 DEF Entries, EntryCosts, SumFunction
<1>5. \A s \in M : rates[s] = IF byMonth THEN MockRates[s].month ELSE MockRates[s].day
  BY DEF Rates
<1>6. \A s \in M : rates[s] \in Nat /\ rates[s] \in Int
  BY <1>1, <1>5
<1>7. scale \in Nat \ {0} /\ scale \in Int
  BY <1>1, <1>2
<1>8. \A s \in M : a.services[s].cost = scale * rates[s]
  <2> TAKE s \in M
  <2> DEFINE u == MockRates[s].day
             v == MockRates[s].month
  <2>1. u \in Nat /\ v \in Nat
    BY <1>1
  <2>2. a.services[s].cost = PerCent * (IF ~byMonth THEN u * long ELSE v)
    BY <1>3
  <2>3. rates[s] = IF byMonth THEN v ELSE u
    BY <1>5
  <2> HIDE DEF a, u, v, long, rates
  <2>4. PerCent * (u * long) = (PerCent * long) * u
    BY <1>1, <1>2, <2>1
  <2>5. QED
    BY <2>2, <2>3, <2>4
<1>9. \A s \in M : w[s] = scale * rates[s]
  BY <1>8 DEF EntryCosts
<1> HIDE DEF a, M, rates, w, scale, long
<1>10. total = scale * sum /\ sum \in Nat /\ n \in Nat
  <2>1. SumFunctionOnSet(w, M) = scale * SumFunctionOnSet(rates, M)
    BY <1>1, <1>6, <1>7, <1>9, SumScaled
  <2>2. total = SumFunctionOnSet(w, M)
    BY DEF Entries, w
  <2>3. SumFunctionOnSet(rates, M) \in Nat
    BY <1>1, <1>6, SumOfNumbers
  <2>4. QED
    BY <1>1, <2>1, <2>2, <2>3, FS_CardinalityType
<1>11. SumFunction(Rates(byMonth)) = sum /\ n = Cardinality(DOMAIN MockRates)
  BY DEF SumFunction, Rates, rates, M
<1> HIDE DEF total, sum, n, shown
<1>12. ~byMonth => \A d \in start..end : a.daily[d] = PerCent * sum
  <2> SUFFICES ASSUME ~byMonth PROVE \A d \in start..end : a.daily[d] = PerCent * sum
    OBVIOUS
  <2> DEFINE e == long * PerCent
  <2>1. e \in Nat \ {0} /\ total = e * sum
    <3>1. e = scale
      BY <1>1, <1>2 DEF scale
    <3> HIDE DEF e
    <3>2. QED
      BY <1>7, <1>10, <3>1
  <2> HIDE DEF e
  <2>2. Round(total, e) = sum
    BY <1>10, <2>1, RoundExact
  <2>3. sum * PerCent = PerCent * sum
    BY <1>1, <1>10
  <2>4. QED
    BY <1>3, <1>4, <2>2, <2>3 DEF e
<1>13. PerCent * sum \in Nat /\ PerCent * n \in Nat /\ PerCent * (n + 1) = PerCent * n + PerCent
  BY <1>1, <1>10
<1>14. total = 0 => sum = 0
  <2>1. sum # 0 => scale * 1 <= scale * sum
    BY <1>7, <1>10, Product
  <2>2. QED
    BY <1>7, <1>10, <2>1
<1>15. AnswerGood(a, M)
  <2>1. \A s \in M : a.services[s].cost \in Nat
    <3> TAKE s \in M
    <3> DEFINE u == rates[s]
    <3>1. u \in Nat /\ a.services[s].cost = scale * u
      BY <1>6, <1>8
    <3> HIDE DEF u
    <3>2. scale * u \in Nat
      BY <1>7, <3>1
    <3>3. QED
      BY <3>1, <3>2
  <2>2. \A d \in DOMAIN a.daily : a.daily[d] \in Nat
    <3>1. CASE byMonth
      BY <1>3, <3>1
    <3>2. CASE ~byMonth
      BY <1>3, <1>12, <1>13, <3>2
    <3>3. QED
      BY <3>1, <3>2
  <2>3. M = {} => a.total = 0
    <3>1. M = {} => total = 0
      BY SumOfNone DEF total, Entries
    <3>2. QED
      BY <1>4, <3>1
  <2>4. QED
    BY <1>1, <1>3, <1>4, <2>1, <2>2, <2>3 DEF AnswerGood
<1>16. items = LineItems("aws", a, start)
  BY DEF a
<1>17. CASE M = {}
  <2>1. AnswerGood(a, {})
    BY <1>15, <1>17
  <2>2. DOMAIN items = {} /\ shown = 0
    <3>1. \A d : /\ DOMAIN LineItems("aws", a, start) = {}
                 /\ ShownOn(LineItems("aws", a, start), d) = 0
      BY <2>1, NothingToShow
    <3>2. QED
      BY <1>16, <3>1 DEF shown
  <2>3. sum = 0
    BY <1>17, SumOfNone DEF sum
  <2>4. Near(PerCent * shown, PerCent * sum, PerCent * (n + 1))
    BY <1>1, <1>13, <2>2, <2>3 DEF Near
  <2>5. QED
    BY <1>11, <2>2, <2>4 DEF shown
<1>18. CASE M # {} /\ ~byMonth
  <2> DEFINE its == LineItems("aws", a, start)
             D == a.daily[day]
  <2>1. DOMAIN a.daily = start..end /\ a.daily # <<>>
    <3>1. DOMAIN a.daily = start..end
      BY <1>3, <1>18
    <3>2. DOMAIN <<>> = {} /\ start \in start..end
      OBVIOUS
    <3>3. QED
      BY <3>1, <3>2
  <2>2. /\ \A x \in DOMAIN its : its[x].day \in DOMAIN a.daily
        /\ Entries(a, M) = 0 \/ day \notin DOMAIN a.daily => ShownOn(its, day) = 0
        /\ Entries(a, M) > 0 /\ day \in DOMAIN a.daily
             => /\ ShownOn(its, day) \in Nat
                /\ Near(PerCent * ShownOn(its, day), D, PerCent * Cardinality(M))
    BY <1>15, <1>18, <2>1, AllocatedShown
  <2>3. its = items /\ D = PerCent * sum
    BY <1>12, <1>16, <1>18
  <2> HIDE DEF its, D
  <2>4. /\ total = 0 => shown = 0
        /\ total > 0 => shown \in Nat /\ Near(PerCent * shown, D, PerCent * n)
    BY <2>1, <2>2, <2>3 DEF shown, total, n
  <2>5. shown \in Nat /\ Near(PerCent * shown, PerCent * sum, PerCent * (n + 1))
    <3>1. CASE total = 0
      BY <1>1, <1>13, <1>14, <2>4, <3>1 DEF Near
    <3>2. CASE total # 0
      <4>1. total > 0
        <5>1. total \in Nat
          BY <1>15, EntriesAre DEF total
        <5>2. QED
          BY <3>2, <5>1
      <4> DEFINE x == PerCent * shown
                 y == PerCent * sum
      <4>2. shown \in Nat /\ x \in Int /\ y \in Int /\ Near(x, y, PerCent * n)
        BY <1>1, <1>13, <2>3, <2>4, <4>1
      <4> HIDE DEF x, y
      <4>3. Near(x, y, PerCent * (n + 1))
        BY <1>1, <1>13, <4>2 DEF Near
      <4>4. QED
        BY <4>2, <4>3 DEF x, y
    <3>3. QED
      BY <3>1, <3>2
  <2>6. \A x \in DOMAIN items : items[x].day \in start..end
    BY <2>1, <2>2, <2>3
  <2>7. QED
    BY <1>11, <2>5, <2>6 DEF shown
<1>19. CASE M # {} /\ byMonth
  <2> DEFINE its == LineItems("aws", a, start)
  <2>1. a.daily = <<>>
    BY <1>3, <1>19
  <2>2. \A s \in M : \E q \in Nat : a.services[s].cost = PerCent * q
    BY <1>6, <1>8, <1>19 DEF scale
  <2>3. /\ \A x \in DOMAIN its : its[x].day = start
        /\ ShownOn(its, start) \in Nat
        /\ PerCent * ShownOn(its, start) = Entries(a, M)
    BY <1>15, <1>19, <2>1, <2>2, PeriodShown
  <2>4. its = items /\ day = start
    BY <1>16, <1>19
  <2> HIDE DEF its
  <2>5. shown \in Nat /\ PerCent * shown = PerCent * sum
    BY <1>10, <1>19, <2>3, <2>4 DEF shown, total, scale
  <2>6. Near(PerCent * shown, PerCent * sum, PerCent * (n + 1))
    <3> DEFINE x == PerCent * shown
               y == PerCent * sum
    <3>1. x = y /\ y \in Nat
      BY <1>13, <2>5
    <3> HIDE DEF x, y
    <3>2. Near(x, y, PerCent * (n + 1))
      BY <1>1, <1>13, <3>1 DEF Near
    <3>3. QED
      BY <3>2 DEF x, y
  <2>7. start \in start..end
    OBVIOUS
  <2>8. QED
    BY <1>11, <2>3, <2>4, <2>5, <2>6, <2>7 DEF shown
<1>20. QED
  BY <1>17, <1>18, <1>19

\* The days of a bill are a period that every provider answers for.
LEMMA PeriodOfBill ==
  /\ BillStart \in Nat /\ BillEnd \in Nat /\ BillStart <= BillEnd
  /\ BillStart \in BillDays /\ \A d \in BillDays : d \in BillStart..BillEnd
  /\ ValidRange(BillStart, BillEnd) /\ BillEnd - BillStart <= MaxRange
<1>1. /\ BillDays \in SUBSET Nat /\ BillDays \in SUBSET Int /\ IsFiniteSet(BillDays)
      /\ BillDays # {}
  BY FiguresAssumption
<1>2. /\ BillStart \in BillDays /\ \A d \in BillDays : BillStart <= d
      /\ BillEnd \in BillDays /\ \A d \in BillDays : d <= BillEnd
  BY <1>1, ExtremesOf DEF BillStart, BillEnd
<1>3. BillStart <= Today /\ BillEnd - BillStart <= MaxRange
  BY FiguresAssumption DEF BillStart, BillEnd
<1>4. QED
  BY <1>1, <1>2, <1>3 DEF ValidRange

\* Every failure ends up as a provider error.
LEMMA FailuresAreErrors ==
  ASSUME NEW cloud \in Clouds, NEW failure \in Failures
  PROVE  ProviderFailure(cloud, failure) \in ErrorClasses
<1> DEFINE token == [aws |-> "credentials", azure |-> "permissions", gcp |-> "service"][cloud]
<1>1. token \in ErrorClasses
  <2>1. CASE cloud = "aws"
    BY <2>1 DEF ErrorClasses
  <2>2. CASE cloud = "azure"
    BY <2>2 DEF ErrorClasses
  <2>3. CASE cloud = "gcp"
    BY <2>3 DEF ErrorClasses
  <2>4. QED
    BY <2>1, <2>2, <2>3 DEF Clouds
<1>2. ProviderFailure(cloud, failure) =
        CASE failure = "no credentials" -> "credentials"
          [] failure = "throttled" -> "throttling"
          [] failure = "rejected" -> "invalid range"
          [] failure = "denied" -> IF cloud = "gcp" THEN "credentials" ELSE "permissions"
          [] failure = "bad token" -> token
          [] failure = "missing" -> IF cloud = "gcp" THEN "invalid range" ELSE "service"
          [] OTHER -> "service"
  BY DEF ProviderFailure
<1> HIDE DEF token
<1>3. QED
  BY <1>1, <1>2 DEF Failures, ErrorClasses

LEMMA ListingFailuresAreErrors ==
  ASSUME NEW failure \in Failures
  PROVE  ListingFailure(failure) \in ErrorClasses
<1>1. ProviderFailure("azure", failure) \in ErrorClasses
  BY FailuresAreErrors DEF Clouds
<1>2. QED
  BY <1>1 DEF ListingFailure, ErrorClasses

\* Neither a provider that is not asked nor one that fails shows anything.
LEMMA NothingShown ==
  ASSUME NEW a, (\E class \in ErrorClasses : a = Error(class)) \/ a = NoCosts,
         NEW cloud, NEW start, NEW query
  PROVE  Filtered(LineItems(cloud, a, start), query) = <<>>
<1>1. LineItems(cloud, a, start) = <<>>
  <2>1. ASSUME NEW class \in ErrorClasses, a = Error(class)
        PROVE  LineItems(cloud, a, start) = <<>>
    <3>1. a.error # None
      BY <2>1, ProviderCostsAssumption DEF Error
    <3>2. QED
      BY <3>1 DEF LineItems
  <2>2. ASSUME a = NoCosts PROVE LineItems(cloud, a, start) = <<>>
    <3>1. a.error = None /\ a.services = <<>> /\ a.total = 0
      BY <2>2 DEF NoCosts, Served
    <3>2. QED
      BY <3>1 DEF LineItems
  <2>3. QED
    BY <2>1, <2>2
<1>2. Filtered(<<>>, query) = <<>>
  <2> DEFINE E == {k \in DOMAIN <<>> :
                     /\ <<>>[k].day \in query.start..query.end
                     /\ query.provider \in {None, <<>>[k].provider}
                     /\ NamePart(query.service, <<>>[k].service)}
  <2>1. Filtered(<<>>, query) = Restrict(<<>>, E)
    BY DEF Filtered, Matching
  <2>2. E = {}
    OBVIOUS
  <2> HIDE DEF E
  <2>3. Restrict(<<>>, {}) = <<>>
    BY DEF Restrict
  <2>4. QED
    BY <2>1, <2>2, <2>3
<1>3. QED
  BY <1>1, <1>2

\* When a provider shows nothing.
Unasked(c) ==
  ~(c.setting.enabled /\ (c.cloud = "aws" \/ c.setting.scope # "absent"))
MockedCall(c) == c.setting.enabled /\ c.cloud = "aws" /\ c.setting.mock
AnswerOf(c) ==
  Costs(c.cloud, c.setting, c.sdk, c.bill, BillStart, BillEnd, c.granularity)
RowsOfCall(c) == RowsOf(c.cloud, c.bill, BillStart, BillEnd, c.granularity)

LEMMA TroubleIsNoAnswer ==
  ASSUME NEW c \in BillCall, Unasked(c) \/ (c.sdk.failure # None /\ ~MockedCall(c))
  PROVE  (\E class \in ErrorClasses : AnswerOf(c) = Error(class)) \/ AnswerOf(c) = NoCosts
<1> DEFINE f == c.sdk.failure
           Failed(a) == \E class \in ErrorClasses : a = Error(class)
<1>1. /\ c.cloud \in Clouds /\ c.setting \in Settings /\ c.sdk \in SdkCalls
  BY DEF BillCall
<1>2. f \in Failures \cup {None}
  BY <1>1 DEF SdkCalls
<1>3. f # None => /\ ProviderFailure(c.cloud, f) \in ErrorClasses
                  /\ ListingFailure(f) \in ErrorClasses
  BY <1>1, <1>2, FailuresAreErrors, ListingFailuresAreErrors
<1>4. "invalid range" \in ErrorClasses
  BY DEF ErrorClasses
<1> DEFINE class == ProviderFailure(c.cloud, f)
           listed == ListingFailure(f)
<1>5. f # None => \A rows : Asked(c.cloud, c.sdk, rows, c.granularity) = Error(class)
  BY DEF Asked
<1>6. ASSUME c.cloud = "aws" PROVE AnswerOf(c) = NoCosts \/ Failed(AnswerOf(c))
  <2>1. AnswerOf(c) = AwsCosts(c.setting, c.sdk, c.bill, BillStart, BillEnd, c.granularity)
    BY <1>6 DEF AnswerOf, Costs
  <2>2. CASE ~c.setting.enabled
    BY <2>1, <2>2 DEF AwsCosts
  <2>3. CASE c.setting.enabled /\ ~c.setting.mock /\ f # None
    <3>1. \/ AnswerOf(c) = Error("invalid range")
          \/ \E rows : AnswerOf(c) = Asked(c.cloud, c.sdk, rows, c.granularity)
      BY <1>6, <2>1, <2>3 DEF AwsCosts
    <3> HIDE DEF class, f
    <3>2. QED
      BY <1>3, <1>4, <1>5, <2>3, <3>1 DEF class
  <2>4. QED
    BY <1>6, <2>2, <2>3 DEF Unasked, MockedCall
<1>7. ASSUME c.cloud = "azure" PROVE AnswerOf(c) = NoCosts \/ Failed(AnswerOf(c))
  <2>1. AnswerOf(c) = AzureCosts(c.setting, c.sdk, c.bill, BillStart, BillEnd, c.granularity)
    BY <1>7 DEF AnswerOf, Costs
  <2>2. \/ AnswerOf(c) = NoCosts
        \/ f # None /\ AnswerOf(c) = Error(listed)
        \/ AnswerOf(c) = Error("invalid range")
        \/ f # None /\ \E rows : AnswerOf(c) = Asked(c.cloud, c.sdk, rows, c.granularity)
    BY <1>7, <2>1 DEF AzureCosts, Unasked
  <2> HIDE DEF class, listed, f
  <2>3. QED
    BY <1>3, <1>4, <1>5, <2>2 DEF class, listed
<1>8. ASSUME c.cloud = "gcp" PROVE AnswerOf(c) = NoCosts \/ Failed(AnswerOf(c))
  <2>1. AnswerOf(c) = GcpCosts(c.setting, c.sdk, c.bill, BillStart, BillEnd, c.granularity)
    BY <1>8 DEF AnswerOf, Costs
  <2>2. \/ AnswerOf(c) = NoCosts
        \/ AnswerOf(c) = Error("invalid range")
        \/ f # None /\ \E rows : AnswerOf(c) = Asked(c.cloud, c.sdk, rows, c.granularity)
    BY <1>8, <2>1 DEF GcpCosts, Unasked
  <2> HIDE DEF class, f
  <2>3. QED
    BY <1>3, <1>4, <1>5, <2>2 DEF class
<1>9. QED
  BY <1>1, <1>6, <1>7, <1>8 DEF Clouds

\* What a provider answers that is asked, and meets no failure.
LEMMA AnswerIsNormalized ==
  ASSUME NEW c \in BillCall, ~Unasked(c), c.sdk.failure = None, ~MockedCall(c),
         c.cloud = "azure" => DOMAIN RowsOfCall(c) \subseteq c.sdk.first
  PROVE  \/ AnswerOf(c) = Normalized(c.cloud, RowsOfCall(c), c.granularity)
         \/ /\ c.cloud = "aws" /\ Period(c.cloud, BillStart, BillEnd) = {}
            /\ \E class \in ErrorClasses : AnswerOf(c) = Error(class)
<1> DEFINE rows == RowsOfCall(c)
           good == Normalized(c.cloud, rows, c.granularity)
<1>1. c.cloud \in Clouds
  BY DEF BillCall
<1>2. Asked(c.cloud, c.sdk, rows, c.granularity) = good
  BY DEF Asked
<1>3. ValidRange(BillStart, BillEnd) /\ ~(BillEnd - BillStart > MaxRange)
  <2>1. MaxRange \in Nat /\ BillEnd - BillStart \in Int
    BY PeriodOfBill, ProviderCostsAssumption
  <2>2. QED
    BY <2>1, PeriodOfBill
<1>4. rows = RowsOf(c.cloud, c.bill, BillStart, BillEnd, c.granularity)
  BY DEF RowsOfCall
<1>5. CASE c.cloud = "aws"
  <2>1. AnswerOf(c) = AwsCosts(c.setting, c.sdk, c.bill, BillStart, BillEnd, c.granularity)
    BY <1>5 DEF AnswerOf, Costs
  <2>2. c.setting.enabled /\ ~c.setting.mock
    BY <1>5 DEF Unasked, MockedCall
  <2>3. CASE Period("aws", BillStart, BillEnd) = {}
    <3>1. AnswerOf(c) = Error(ProviderFailure("aws", "rejected"))
      BY <1>3, <2>1, <2>2, <2>3 DEF AwsCosts
    <3>2. ProviderFailure("aws", "rejected") \in ErrorClasses
      BY FailuresAreErrors DEF Clouds, Failures
    <3>3. QED
      BY <1>5, <2>3, <3>1, <3>2
  <2>4. CASE Period("aws", BillStart, BillEnd) # {}
    <3>1. AnswerOf(c) = Asked("aws", c.sdk, rows, c.granularity)
      BY <1>3, <1>4, <1>5, <2>1, <2>2, <2>4 DEF AwsCosts
    <3>2. QED
      BY <1>2, <1>5, <3>1
  <2>5. QED
    BY <2>3, <2>4
<1>6. CASE c.cloud = "azure"
  <2>1. AnswerOf(c) = AzureCosts(c.setting, c.sdk, c.bill, BillStart, BillEnd, c.granularity)
    BY <1>6 DEF AnswerOf, Costs
  <2>2. c.setting.enabled /\ c.setting.scope # "absent"
    BY <1>6 DEF Unasked
  <2>3. FirstPage(rows, c.sdk) = rows
    <3>1. DOMAIN rows \cap c.sdk.first = DOMAIN rows
      BY <1>6
    <3>2. rows = [k \in DOMAIN rows |-> rows[k]]
      BY DEF RowsOfCall, RowsOf
    <3>3. FirstPage(rows, c.sdk) = [k \in DOMAIN rows \cap c.sdk.first |-> rows[k]]
      BY DEF FirstPage, Restrict
    <3> HIDE DEF rows
    <3>4. QED
      BY <3>1, <3>2, <3>3
  <2>4. AnswerOf(c) = Asked("azure", c.sdk, FirstPage(rows, c.sdk), c.granularity)
    BY <1>4, <1>6, <2>1, <2>2 DEF AzureCosts
  <2>5. QED
    BY <1>2, <1>6, <2>3, <2>4
<1>7. CASE c.cloud = "gcp"
  <2>1. AnswerOf(c) = GcpCosts(c.setting, c.sdk, c.bill, BillStart, BillEnd, c.granularity)
    BY <1>7 DEF AnswerOf, Costs
  <2>2. c.setting.enabled /\ c.setting.scope # "absent"
    BY <1>7 DEF Unasked
  <2>3. AnswerOf(c) = Asked("gcp", c.sdk, rows, c.granularity)
    BY <1>3, <1>4, <1>7, <2>1, <2>2 DEF GcpCosts
  <2>4. QED
    BY <1>2, <1>7, <2>3
<1>8. QED
  BY <1>1, <1>5, <1>6, <1>7 DEF Clouds

\* The rows of a bill: finitely many sums, dated within the period.
BillRowsGood(rows) ==
  /\ IsFiniteSet(DOMAIN rows)
  /\ \A k \in DOMAIN rows : k[1] \in BillStart..BillEnd /\ rows[k] \in Int

\* The date of a row is a day of the period.
LEMMA DateWithin ==
  ASSUME NEW start \in Nat, NEW end \in Nat, NEW day \in start..end, NEW cloud,
         NEW granularity
  PROVE  RowDate(cloud, day, start, granularity) \in start..end
<1> DEFINE T == {d \in FirstDays : d <= day}
           S == {start} \cup T
<1>1. FirstDays \in SUBSET Nat /\ IsFiniteSet(FirstDays)
  BY ProviderCostsAssumption
<1>2. T \subseteq FirstDays /\ \A d \in T : d \in Int /\ d <= day
  BY <1>1
<1> HIDE DEF T
<1>3. IsFiniteSet(T) /\ IsFiniteSet({start})
  BY <1>1, <1>2, FS_Subset, FS_Singleton
<1>4. IsFiniteSet(S)
  BY <1>3, FS_Union
<1>5. S # {} /\ S \in SUBSET Int /\ start \in S /\ \A d \in S : d <= day
  BY <1>2
<1> HIDE DEF S
<1>6. Max(S) \in S /\ \A d \in S : d <= Max(S)
  BY <1>4, <1>5, ExtremesOf
<1> DEFINE m == Max(S)
<1>7. start <= m /\ m <= day /\ m \in Int
  BY <1>5, <1>6
<1> HIDE DEF m
<1>8. m \in start..end /\ start \in start..end
  BY <1>7
<1>9. QED
  BY <1>8 DEF RowDate, S, T, m

LEMMA RowsAre ==
  ASSUME NEW c \in BillCall
  PROVE  BillRowsGood(RowsOfCall(c))
<1> DEFINE asked == {k \in DOMAIN c.bill : k[1] \in Period(c.cloud, BillStart, BillEnd)}
           Row(k) == <<RowDate(c.cloud, k[1], BillStart, c.granularity), k[2]>>
           dates == {Row(k) : k \in asked}
           rows == RowsOfCall(c)
<1>1. rows = [row \in dates |-> SumFunctionOnSet(c.bill, {k \in asked : Row(k) = row})]
  BY DEF RowsOfCall, RowsOf
<1>2. /\ DOMAIN c.bill = BillDays \X Services
      /\ \A k \in DOMAIN c.bill : c.bill[k] \in Int
  BY DEF BillCall
<1>3. IsFiniteSet(asked)
  <2>1. IsFiniteSet(BillDays \X Services)
    BY FS_Product, FiguresAssumption
  <2>2. asked \subseteq BillDays \X Services
    BY <1>2
  <2>3. QED
    BY <2>1, <2>2, FS_Subset
<1>4. \A k \in asked : k[1] \in BillStart..BillEnd
  BY <1>2, PeriodOfBill
<1>5. \A k \in asked : Row(k)[1] \in BillStart..BillEnd
  <2> SUFFICES ASSUME NEW k \in asked
               PROVE  RowDate(c.cloud, k[1], BillStart, c.granularity) \in BillStart..BillEnd
    OBVIOUS
  <2> DEFINE day == k[1]
             start == BillStart
             end == BillEnd
  <2>1. day \in start..end /\ start \in Nat /\ end \in Nat /\ start <= end
    BY <1>4, PeriodOfBill
  <2> HIDE DEF day, start, end
  <2>2. RowDate(c.cloud, day, start, c.granularity) \in start..end
    BY <2>1, DateWithin
  <2>3. QED
    BY <2>2 DEF day, start, end
<1>6. \A row \in dates : SumFunctionOnSet(c.bill, {k \in asked : Row(k) = row}) \in Int
  <2> TAKE row \in dates
  <2> DEFINE U == {k \in asked : Row(k) = row}
  <2>1. IsFiniteSet(U) /\ \A k \in U : c.bill[k] \in Int
    BY <1>2, <1>3, FS_Subset
  <2> HIDE DEF U
  <2>2. SumFunctionOnSet(c.bill, U) \in Int
    BY <2>1, SumOfNumbers
  <2>3. QED
    BY <2>2 DEF U
<1>7. IsFiniteSet(dates)
  <2> DEFINE F == [k \in asked |-> Row(k)]
  <2>1. F \in Surjection(asked, dates)
    BY DEF Surjection
  <2> HIDE DEF F
  <2>2. QED
    BY <1>3, <2>1, FS_Surjection
<1> HIDE DEF asked, rows, Row
<1>8. QED
  BY <1>1, <1>5, <1>6, <1>7 DEF BillRowsGood, rows

ByMonth(c) == c.granularity = "MONTHLY" /\ (c.cloud # "aws" \/ MockedCall(c))
ShownDays == IF ByMonth(call) THEN {BillStart} ELSE BillStart..BillEnd
ChargedOn(day) == {k \in ChargedRows : ByMonth(call) \/ k[1] = day}
Whole == call.cloud = "azure" => DOMAIN BillRows \subseteq call.sdk.first

BillQuery == [start |-> BillStart, end |-> BillEnd, provider |-> None, service |-> None]

LEMMA ItemsOfBillAre ==
  ASSUME NEW a, a = AnswerOf(call)
  PROVE  ItemsOfBill = Filtered(LineItems(call.cloud, a, BillStart), BillQuery)
<1>1. ItemsOfBill = Filtered(LineItems(call.cloud,
                      Costs(call.cloud, call.setting, call.sdk, call.bill,
                            BillStart, BillEnd, call.granularity), BillStart),
                      [start |-> BillStart, end |-> BillEnd, provider |-> None,
                       service |-> None])
  BY DEF ItemsOfBill
<1>2. a = Costs(call.cloud, call.setting, call.sdk, call.bill,
                BillStart, BillEnd, call.granularity)
  BY DEF AnswerOf
<1>3. QED
  BY <1>1, <1>2 DEF BillQuery

DaysWithin(items) == \A k \in DOMAIN items : items[k].day \in BillStart..BillEnd

LEMMA BillFilterKeeps ==
  ASSUME NEW items, DaysWithin(items),
         ItemsOfBill = Filtered(items, BillQuery), NEW day
  PROVE  ShownOn(ItemsOfBill, day) = ShownOn(items, day)
<1> DEFINE start == BillStart
           end == BillEnd
<1>1. \A k \in DOMAIN items : items[k].day \in start..end
  BY DEF DaysWithin
<1>2. BillQuery = [start |-> start, end |-> end, provider |-> None, service |-> None]
  BY DEF BillQuery
<1> HIDE DEF start, end
<1>3. ShownOn(Filtered(items, [start |-> start, end |-> end, provider |-> None,
                               service |-> None]), day) = ShownOn(items, day)
  BY <1>1, FilterKeeps
<1>4. QED
  BY <1>2, <1>3

LEMMA NothingOfBill ==
  ASSUME NEW a, a = AnswerOf(call),
         (\E class \in ErrorClasses : a = Error(class)) \/ a = NoCosts
  PROVE  ItemsOfBill = <<>>
<1>1. ItemsOfBill = Filtered(LineItems(call.cloud, a, BillStart), BillQuery)
  BY ItemsOfBillAre
<1>2. QED
  BY <1>1, NothingShown

\* Of a bill that was answered for, the items show what is charged.
LEMMA BillIsShown ==
  ASSUME call \in BillCall, ~Unasked(call), call.sdk.failure = None, ~MockedCall(call),
         Whole, NEW day \in ShownDays
  PROVE  /\ ShownOn(ItemsOfBill, day) \in Nat
         /\ SumFunctionOnSet(BillRows, ChargedOn(day)) \in Nat
         /\ Cardinality(ChargedRows) \in Nat
         /\ Near(PerCent * ShownOn(ItemsOfBill, day),
                 SumFunctionOnSet(BillRows, ChargedOn(day)),
                 PerCent * (Cardinality(ChargedRows) + 1))
<1> DEFINE a == AnswerOf(call)
           period == Period(call.cloud, BillStart, BillEnd)
           rows == RowsOfCall(call)
           r == Charged(rows)
           R == ChargedRows
           n == Cardinality(R)
           items == LineItems(call.cloud, a, BillStart)
           U == ChargedOn(day)
           sum == SumFunctionOnSet(BillRows, U)
<1>1. /\ call.cloud \in Clouds /\ call.granularity \in Granularities
      /\ call.bill \in [BillDays \X Services -> Int]
  BY DEF BillCall
<1>a. BillRows = rows
  BY DEF BillRows, RowsOfCall
<1>2. R = DOMAIN r /\ \A k \in R : r[k] = BillRows[k] /\ r[k] > 0 /\ r[k] \in Int
  <2>1. /\ DOMAIN r = {k \in DOMAIN rows : rows[k] > 0}
        /\ \A k \in DOMAIN r : r[k] = rows[k]
    BY DEF Charged, Restrict
  <2>2. \A k \in DOMAIN rows : rows[k] \in Int
    BY RowsAre DEF BillRowsGood
  <2> HIDE DEF rows, r
  <2>3. R = {k \in DOMAIN rows : rows[k] > 0}
    BY <1>a DEF ChargedRows
  <2> HIDE DEF R
  <2>4. QED
    BY <1>a, <2>1, <2>2, <2>3
<1>3. IsFiniteSet(R) /\ \A k \in R : k[1] \in BillStart..BillEnd
  <2>1. IsFiniteSet(DOMAIN rows) /\ \A k \in DOMAIN rows : k[1] \in BillStart..BillEnd
    BY RowsAre DEF BillRowsGood
  <2>2. R \subseteq DOMAIN rows
    BY <1>a DEF ChargedRows
  <2> HIDE DEF rows, R
  <2>3. QED
    BY <2>1, <2>2, FS_Subset
<1>4. RowsGood(r, R)
  <2> HIDE DEF r, R
  <2>1. QED
    BY <1>2, <1>3 DEF RowsGood
<1>5. /\ BillStart \in Nat /\ BillEnd \in Nat
      /\ \A k \in R : k[1] \in BillStart..BillEnd
  BY <1>3, PeriodOfBill
<1>6. sum = SumFunctionOnSet(r, U) /\ U \in SUBSET R
  <2>1. U \in SUBSET R
    BY DEF ChargedOn
  <2>2. IsFiniteSet(U)
    BY <1>3, <2>1, FS_Subset
  <2> HIDE DEF r, R, U
  <2>3. \A k \in U : BillRows[k] = r[k]
    BY <1>2, <2>1
  <2>4. SumFunctionOnSet(BillRows, U) = SumFunctionOnSet(r, U)
    BY <2>2, <2>3, SumSame
  <2>5. QED
    BY <2>1, <2>4
<1>7. n \in Nat /\ PerCent \in Nat \ {0}
  BY <1>3, FS_CardinalityType, ProviderCostsAssumption
<1>8. sum \in Nat
  <2> HIDE DEF r, R, U, sum
  <2>1. QED
    BY <1>4, <1>6, SumOfPart
<1>9. CASE a = Normalized(call.cloud, rows, call.granularity)
  <2>1. items = LineItems(call.cloud, Normalized(call.cloud, rows, call.granularity), BillStart)
    BY <1>9
  <2>2. ByMonth(call) = (call.cloud # "aws" /\ call.granularity = "MONTHLY")
    BY Zenon DEF ByMonth
  <2> DEFINE byPeriod == call.cloud # "aws" /\ call.granularity = "MONTHLY"
  <2>3. r = Charged(rows)
    OBVIOUS
  <2> HIDE DEF items, rows, r, R
  <2>4. /\ \A x \in DOMAIN items : items[x].day \in BillStart..BillEnd
        /\ ~byPeriod => AccountedFor(items, day, r, R, OnDay(R, day))
        /\ byPeriod => AccountedFor(items, BillStart, r, R, R)
    <3> DEFINE cloud == call.cloud
               granularity == call.granularity
               start == BillStart
               end == BillEnd
    <3>1. /\ cloud \in Clouds /\ r = Charged(rows) /\ RowsGood(r, R)
          /\ start \in Nat /\ end \in Nat /\ Spans(R, start, end)
          /\ items = LineItems(cloud, Normalized(cloud, rows, granularity), start)
      BY <1>1, <1>4, <1>5, <2>1, <2>3 DEF Spans
    <3> HIDE DEF cloud, granularity, start, end
    <3>2. /\ \A x \in DOMAIN items : items[x].day \in start..end
          /\ ~(cloud # "aws" /\ granularity = "MONTHLY")
                => AccountedFor(items, day, r, R, OnDay(R, day))
          /\ cloud # "aws" /\ granularity = "MONTHLY"
                => AccountedFor(items, start, r, R, R)
      BY <3>1, ChargedIsShown
    <3>3. QED
      BY <3>2 DEF cloud, granularity, start, end
  <2>5. ShownOn(ItemsOfBill, day) = ShownOn(items, day)
    <3>1. ItemsOfBill = Filtered(items, BillQuery)
      BY ItemsOfBillAre DEF items
    <3>2. DaysWithin(items)
      BY <2>4 DEF DaysWithin
    <3>3. QED
      BY <3>1, <3>2, BillFilterKeeps, Zenon
  <2>6. CASE ~byPeriod
    <3>1. U = OnDay(R, day)
      BY <2>2, <2>6 DEF ChargedOn, R, OnDay
    <3>2. QED
      BY <1>6, <1>7, <1>8, <2>4, <2>5, <2>6, <3>1 DEF R, AccountedFor
  <2>7. CASE byPeriod
    <3>1. U = R /\ day = BillStart
      BY <2>2, <2>7 DEF ChargedOn, R, ShownDays
    <3>2. QED
      BY <1>6, <1>7, <1>8, <2>4, <2>5, <2>7, <3>1 DEF R, AccountedFor
  <2>8. QED
    BY <2>6, <2>7
<1>10. CASE /\ call.cloud = "aws" /\ period = {}
            /\ \E class \in ErrorClasses : a = Error(class)
  <2>1. R = {}
    <3>1. DOMAIN rows = {}
      BY <1>10 DEF RowsOfCall, RowsOf
    <3> HIDE DEF rows
    <3>2. QED
      BY <1>a, <3>1 DEF ChargedRows
  <2>2. U = {} /\ sum = 0
    <3>1. U = {}
      BY <1>6, <2>1
    <3>2. QED
      BY <3>1, SumOfNone
  <2>3. ItemsOfBill = <<>>
    BY <1>10, NothingOfBill
  <2>4. ShownOn(ItemsOfBill, day) = 0
    <3>1. ItemsOn(<<>>, day) = {}
      BY DEF ItemsOn
    <3> DEFINE none == CostsAt(<<>>, {})
    <3>2. ShownOn(<<>>, day) = SumFunctionOnSet(none, {})
      BY <3>1, ShownIs
    <3> HIDE DEF none
    <3>3. QED
      BY <2>3, <3>2, SumOfNone
  <2> HIDE DEF n, sum, U, R
  <2>5. PerCent * 0 = 0 /\ PerCent * (n + 1) \in Nat
    BY <1>7
  <2>6. Near(PerCent * 0, 0, PerCent * (n + 1))
    BY <2>5 DEF Near
  <2>7. QED
    BY <1>7, <2>2, <2>4, <2>6 DEF sum, n, U, R
<1>11. QED
  BY <1>9, <1>10, <1>a, AnswerIsNormalized DEF Whole

\* Nor do the demo data show more or less than they charge.
LEMMA DemoIsShown ==
  ASSUME call \in BillCall, MockedCall(call), NEW day \in ShownDays
  PROVE  /\ ShownOn(ItemsOfBill, day) \in Nat
         /\ Near(PerCent * ShownOn(ItemsOfBill, day),
                 PerCent * SumFunction(Rates(ByMonth(call))),
                 PerCent * (Cardinality(DOMAIN MockRates) + 1))
<1> DEFINE own == LineItems("aws", Mocked(BillStart, BillEnd, call.granularity), BillStart)
           byMonth == ByMonth(call)
<1>1. call.granularity \in Granularities /\ call.cloud = "aws"
  BY DEF BillCall, MockedCall
<1>2. AnswerOf(call) = Mocked(BillStart, BillEnd, call.granularity)
  BY <1>1 DEF AnswerOf, Costs, AwsCosts, MockedCall
<1>3. byMonth = (call.granularity = "MONTHLY")
  BY Zenon DEF ByMonth
<1>4. day \in BillStart..BillEnd /\ (byMonth => day = BillStart)
  BY PeriodOfBill DEF ShownDays
<1>5. BillStart \in Nat /\ BillEnd \in Nat /\ BillStart <= BillEnd
  BY PeriodOfBill
<1>6. ItemsOfBill = Filtered(own, BillQuery)
  BY <1>1, <1>2, ItemsOfBillAre
<1>7. own = LineItems("aws", Mocked(BillStart, BillEnd, call.granularity), BillStart)
  OBVIOUS
<1> HIDE DEF own, byMonth
<1>8. DemoShown(own, BillStart, BillEnd, day, byMonth)
  <2> DEFINE start == BillStart
             end == BillEnd
             granularity == call.granularity
  <2>1. /\ start \in Nat /\ end \in Nat /\ start <= end /\ granularity \in Granularities
        /\ own = LineItems("aws", Mocked(start, end, granularity), start)
        /\ day \in start..end /\ byMonth = (granularity = "MONTHLY")
        /\ byMonth => day = start
    BY <1>1, <1>3, <1>4, <1>5, <1>7
  <2> HIDE DEF start, end, granularity
  <2>2. DemoShown(own, start, end, day, byMonth)
    BY <2>1, MockedIsShown
  <2>3. QED
    BY <2>2 DEF start, end
<1>9. ShownOn(ItemsOfBill, day) = ShownOn(own, day)
  <2>1. DaysWithin(own)
    BY <1>8 DEF DaysWithin, DemoShown
  <2>2. QED
    BY <1>6, <2>1, BillFilterKeeps, Zenon
<1>10. QED
  BY <1>8, <1>9 DEF byMonth, DemoShown

LEMMA AbsNear ==
  ASSUME NEW a \in Int, NEW b \in Int, NEW c \in Int, Near(a, b, c)
  PROVE  2 * Abs(a - b) <= c
BY DEF Near, Abs

\* For a bill of any amounts, over any days and services, from any of the three
\* providers in any setting: the explorer accounts for what the rows it asked for
\* charge, Azure's answers of more than one page apart.
THEOREM BillsAreAccounted == Spec => []BillAccounted
<1>1. CallGood => BillAccounted
  <2> SUFFICES ASSUME CallGood, call.of = "bill" PROVE BillAccounted
    BY DEF BillAccounted
  <2>1. call \in BillCall
    BY DEF CallGood
  <2> DEFINE entries == IF MockedCall(call) THEN Cardinality(DOMAIN MockRates)
                        ELSE Cardinality(ChargedRows)
             Charge(day) == IF MockedCall(call) THEN PerCent * SumFunction(Rates(ByMonth(call)))
                            ELSE SumFunctionOnSet(BillRows, ChargedOn(day))
             trouble == Unasked(call) \/ (call.sdk.failure # None /\ ~MockedCall(call))
  <2>2. ASSUME trouble PROVE ItemsOfBill = <<>>
    BY <2>1, <2>2, TroubleIsNoAnswer, NothingOfBill
  <2>3. ASSUME ~trouble, Whole, NEW day \in ShownDays
        PROVE  2 * Abs(PerCent * ShownOn(ItemsOfBill, day) - Charge(day))
                 <= PerCent * (entries + 1)
    <3> DEFINE shown == ShownOn(ItemsOfBill, day)
               x == PerCent * shown
               y == Charge(day)
               z == PerCent * (entries + 1)
    <3>0. PerCent \in Nat \ {0} /\ IsFiniteSet(DOMAIN MockRates)
      BY ProviderCostsAssumption
    <3>1. shown \in Nat /\ y \in Int /\ entries \in Nat /\ Near(x, y, z)
      <4>1. CASE MockedCall(call)
        <5> DEFINE sum == SumFunction(Rates(ByMonth(call)))
        <5>1. shown \in Nat /\ Near(x, y, z)
          BY <2>1, <2>3, <4>1, DemoIsShown
        <5>2. sum \in Nat
          <6> DEFINE f == Rates(ByMonth(call))
                     M == DOMAIN MockRates
          <6>1. sum = SumFunctionOnSet(f, M)
            BY DEF SumFunction, Rates
          <6>2. \A s \in M : f[s] \in Nat
            BY ProviderCostsAssumption DEF Rates
          <6> HIDE DEF f, M
          <6>3. QED
            BY <3>0, <6>1, <6>2, SumOfNumbers DEF M
        <5>3. entries \in Nat
          BY <3>0, <4>1, FS_CardinalityType
        <5>4. y = PerCent * sum
          BY <4>1
        <5> HIDE DEF sum, x, y, z, entries, shown
        <5>5. y \in Int
          BY <3>0, <5>2, <5>4
        <5>6. QED
          BY <5>1, <5>3, <5>5
      <4>2. CASE ~MockedCall(call)
        <5>1. ~Unasked(call) /\ call.sdk.failure = None
          BY <2>3, <4>2
        <5>2. QED
          BY <2>1, <2>3, <4>2, <5>1, BillIsShown
      <4>3. QED
        BY <4>1, <4>2
    <3> HIDE DEF shown, y, entries
    <3>2. x \in Int /\ z \in Int
      BY <3>0, <3>1
    <3> HIDE DEF x, z
    <3>3. 2 * Abs(x - y) <= z
      BY <3>1, <3>2, AbsNear
    <3>4. QED
      BY <3>3 DEF x, y, z, shown
  <2>4. QED
    BY <2>2, <2>3
       DEF BillAccounted, Unasked, MockedCall, ByMonth, Rates, ChargedOn, ShownDays, ShownOn, Whole
<1>2. QED
  BY <1>1, CallsAreGood, PTL

=============================================================================
