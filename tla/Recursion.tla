------------------------------ MODULE Recursion ------------------------------
(***************************************************************************)
(* Induction over the natural numbers and functions defined by it, stated  *)
(* with sets and functions so that a lemma about one recursive definition  *)
(* of a model follows by naming the set of the numbers it holds for; then  *)
(* quotients, and what is reached in steps.                                *)
(***************************************************************************)
EXTENDS Integers, FiniteSetsExt, FiniteSetTheorems, WellFoundedInduction, TLAPS

\* A set of natural numbers has a least element.
LEMMA LeastElement ==
  ASSUME NEW T \in SUBSET Nat, T # {}
  PROVE  \E x \in T : \A y \in T : x <= y
  <1> DEFINE R == OpToRel(<, Nat)
  <1>1. IsWellFoundedOn(R, Nat)
    BY NatLessThanWellFounded, Zenon
  <1> HIDE DEF R
  <1>2. PICK x \in T : \A y \in T : ~ (<<y, x>> \in R)
    BY <1>1, WFMin
  <1>3. \A y \in T : ~ (y < x)
    BY <1>2 DEF R, OpToRel
  <1>. QED
    BY <1>3

\* What holds of zero and of the successor of whatever it holds of holds of
\* every natural number.
LEMMA Induction ==
  ASSUME NEW S \in SUBSET Nat, 0 \in S, \A n \in S : n + 1 \in S
  PROVE  S = Nat
  <1>1. SUFFICES ASSUME Nat \ S # {} PROVE FALSE
    OBVIOUS
  <1>2. PICK x \in Nat \ S : \A y \in Nat \ S : x <= y
    BY <1>1, LeastElement
  <1>3. x # 0 /\ x - 1 \in S
    BY <1>2
  <1>. QED
    BY <1>2, <1>3

\* The least of some natural numbers, the greatest of some that are bounded,
\* and the least and the greatest of two numbers.
LEMMA MinIsLeast ==
  ASSUME NEW T \in SUBSET Nat, T # {}
  PROVE  Min(T) \in T /\ \A y \in T : Min(T) <= y
  BY LeastElement DEF Min

\* The greatest element of a bounded set of numbers is one of them and above
\* all others.
LEMMA MaxIsGreatest ==
  ASSUME NEW N \in Nat, NEW T \in SUBSET (0..N), T # {}
  PROVE  Max(T) \in T /\ \A y \in T : y <= Max(T)
  <1> DEFINE D == {N - y : y \in T}
  <1>1. D \in SUBSET Nat /\ D # {}
    <2>1. \A y \in T : y \in 0..N /\ N - y \in Nat
      OBVIOUS
    <2>. QED
      BY <2>1
  <1>2. PICK x \in D : \A y \in D : x <= y
    <2> HIDE DEF D
    <2>. QED
      BY <1>1, LeastElement
  <1>3. PICK m \in T : x = N - m
    BY <1>2
  <1>4. ASSUME NEW y \in T PROVE y <= m
    <2>1. N - y \in D
      OBVIOUS
    <2>2. y \in 0..N /\ m \in 0..N
      OBVIOUS
    <2> HIDE DEF D
    <2>3. N - m <= N - y
      BY <1>2, <1>3, <2>1
    <2>. QED
      BY <2>2, <2>3
  <1>. QED
    BY <1>4 DEF Max

\* The lesser of two numbers.
LEMMA LeastOfTwo ==
  ASSUME NEW a \in Int, NEW b \in Int
  PROVE  Min({a, b}) = IF a <= b THEN a ELSE b
  <1>1. \E x \in {a, b} : \A y \in {a, b} : x <= y
    <2>1. CASE a <= b
      BY <2>1
    <2>2. CASE ~(a <= b)
      BY <2>2
    <2>. QED
      BY <2>1, <2>2
  <1>2. Min({a, b}) \in {a, b} /\ \A y \in {a, b} : Min({a, b}) <= y
    BY <1>1 DEF Min
  <1>. QED
    BY <1>2

\* The greater of two numbers.
LEMMA GreatestOfTwo ==
  ASSUME NEW a \in Int, NEW b \in Int
  PROVE  Max({a, b}) = IF a <= b THEN b ELSE a
  <1>1. \E x \in {a, b} : \A y \in {a, b} : y <= x
    <2>1. CASE a <= b
      BY <2>1
    <2>2. CASE ~(a <= b)
      BY <2>2
    <2>. QED
      BY <2>1, <2>2
  <1>2. Max({a, b}) \in {a, b} /\ \A y \in {a, b} : y <= Max({a, b})
    BY <1>1 DEF Max
  <1>. QED
    BY <1>2

\* What holds of zero and, up to a bound, of the successor of whatever it
\* holds of holds of every number up to the bound.
LEMMA BoundedInduction ==
  ASSUME NEW N \in Nat, NEW S, 0 \in S, \A n \in 0..(N - 1) : n \in S => n + 1 \in S
  PROVE  0..N \subseteq S
  <1> DEFINE T == {n \in Nat : n <= N => n \in S}
  <1>1. 0 \in T
    OBVIOUS
  <1>2. \A n \in T : n + 1 \in T
    OBVIOUS
  <1>3. T \in SUBSET Nat
    OBVIOUS
  <1> HIDE DEF T
  <1>4. T = Nat
    BY <1>1, <1>2, <1>3, Induction
  <1>. QED
    BY <1>4 DEF T
-----------------------------------------------------------------------------
\* A function is given by its value at zero and by a step that takes its
\* value at a number to the value at the next.

Starts(f, n, b, step) ==
  f[0] = b /\ \A k \in 0..(n - 1) : f[k + 1] = step[k][f[k]]

\* As many values as one likes of what a step computes from a start exist
\* together.
LEMMA StartsExist ==
  ASSUME NEW S, NEW b \in S, NEW step \in [Nat -> [S -> S]], NEW n \in Nat
  PROVE  \E f \in [0..n -> S] : Starts(f, n, b, step)
  <1> DEFINE T == {m \in Nat : \E f \in [0..m -> S] : Starts(f, m, b, step)}
  <1>1. 0 \in T
    <2>1. [k \in 0..0 |-> b] \in [0..0 -> S] /\ Starts([k \in 0..0 |-> b], 0, b, step)
      BY DEF Starts
    <2>. QED
      BY <2>1
  <1>2. ASSUME NEW m \in T PROVE m + 1 \in T
    <2>1. PICK f \in [0..m -> S] : Starts(f, m, b, step)
      OBVIOUS
    <2> DEFINE g == [k \in 0..(m + 1) |-> IF k = m + 1 THEN step[m][f[m]] ELSE f[k]]
    <2>2. m \in 0..m /\ f[m] \in S
      OBVIOUS
    <2>3. step[m][f[m]] \in S
      BY <2>2
    <2>4. g \in [0..(m + 1) -> S]
      BY <2>3
    <2>5. g[0] = b
      BY <2>1 DEF Starts
    <2>6. ASSUME NEW k \in 0..m PROVE g[k + 1] = step[k][g[k]]
      BY <2>1 DEF Starts
    <2>7. Starts(g, m + 1, b, step)
      <3> HIDE DEF g
      <3>. QED
        BY <2>5, <2>6 DEF Starts
    <2> HIDE DEF g
    <2>. QED
      BY <2>4, <2>7
  <1> HIDE DEF T
  <1>3. T = Nat
    <2>1. T \in SUBSET Nat
      BY DEF T
    <2>. QED
      BY <1>1, <1>2, <2>1, Induction
  <1>. QED
    BY <1>3 DEF T

\* Two functions that start alike and step alike agree as far as both go.
LEMMA StartsAgree ==
  ASSUME NEW b, NEW step, NEW n \in Nat, NEW m \in Nat, n <= m, NEW f, NEW g,
         Starts(f, n, b, step), Starts(g, m, b, step)
  PROVE  \A k \in 0..n : f[k] = g[k]
  <1> DEFINE T == {k \in 0..n : f[k] = g[k]}
  <1>1. 0 \in T
    BY DEF Starts
  <1>2. ASSUME NEW k \in 0..(n - 1), k \in T PROVE k + 1 \in T
    BY <1>2 DEF Starts
  <1> HIDE DEF T
  <1>3. 0..n \subseteq T
    BY <1>1, <1>2, BoundedInduction
  <1>. QED
    BY <1>3 DEF T

Iterates(f, b, step) == f[0] = b /\ \A n \in Nat : f[n + 1] = step[n][f[n]]

\* A function defined by its value at zero and a step from each number to the
\* next exists.
THEOREM RecursiveFunctionExists ==
  ASSUME NEW S, NEW b \in S, NEW step \in [Nat -> [S -> S]]
  PROVE  \E f \in [Nat -> S] : Iterates(f, b, step)
  <1> DEFINE start(n) == CHOOSE f \in [0..n -> S] : Starts(f, n, b, step)
             f == [n \in Nat |-> start(n)[n]]
  <1>1. ASSUME NEW n \in Nat
        PROVE  start(n) \in [0..n -> S] /\ Starts(start(n), n, b, step)
    BY StartsExist
  <1> HIDE DEF start
  <1>2. ASSUME NEW n \in Nat PROVE f[n + 1] = step[n][f[n]]
    <2>1. start(n)[n] = start(n + 1)[n]
      <3>1. n + 1 \in Nat /\ n <= n + 1 /\ n \in 0..n
        OBVIOUS
      <3>2. \A k \in 0..n : start(n)[k] = start(n + 1)[k]
        BY <1>1, <3>1, StartsAgree
      <3>. QED
        BY <3>1, <3>2
    <2>2. start(n + 1)[n + 1] = step[n][start(n + 1)[n]]
      BY <1>1 DEF Starts
    <2>. QED
      BY <2>1, <2>2
  <1>3. f \in [Nat -> S] /\ f[0] = b
    BY <1>1 DEF Starts
  <1>. QED
    BY <1>2, <1>3 DEF Iterates

\* The same up to a bound, in the form in which models define such functions.
Runs(f, N, b, step) == f[0] = b /\ \A n \in 1..N : f[n] = step[n][f[n - 1]]

\* So does one that is defined up to a number.
THEOREM BoundedFunctionExists ==
  ASSUME NEW N \in Nat, NEW S, NEW b \in S, NEW step \in [1..N -> [S -> S]]
  PROVE  \E f \in [0..N -> S] : Runs(f, N, b, step)
  <1> DEFINE total == [n \in Nat |-> [s \in S |-> IF n + 1 \in 1..N THEN step[n + 1][s] ELSE s]]
  <1>1. total \in [Nat -> [S -> S]]
    OBVIOUS
  <1>2. \A s \in S, n \in 1..N : total[n - 1][s] = step[n][s]
    OBVIOUS
  <1> HIDE DEF total
  <1>3. PICK f \in [Nat -> S] : Iterates(f, b, total)
    BY <1>1, RecursiveFunctionExists
  <1> DEFINE g == [n \in 0..N |-> f[n]]
  <1>4. ASSUME NEW n \in 1..N PROVE g[n] = step[n][g[n - 1]]
    <2>1. n - 1 \in Nat /\ n - 1 \in 0..N /\ n \in 0..N /\ (n - 1) + 1 = n
      OBVIOUS
    <2>2. f[n] = total[n - 1][f[n - 1]] /\ f[n - 1] \in S
      BY <1>3, <2>1 DEF Iterates
    <2>. QED
      BY <1>2, <2>1, <2>2
  <1>5. g \in [0..N -> S] /\ g[0] = b
    BY <1>3 DEF Iterates
  <1> HIDE DEF g
  <1>. QED
    BY <1>4, <1>5 DEF Runs
\* What holds of the first value and passes from each value to the next holds
\* of all of them.
LEMMA ValuesStay ==
  ASSUME NEW N \in Nat, NEW f, NEW S, f[0] \in S, \A n \in 1..N : f[n - 1] \in S => f[n] \in S
  PROVE  \A n \in 0..N : f[n] \in S
  <1> DEFINE T == {n \in 0..N : f[n] \in S}
  <1>1. 0 \in T
    OBVIOUS
  <1>2. ASSUME NEW n \in 0..(N - 1), n \in T PROVE n + 1 \in T
    <2>1. n + 1 \in 1..N /\ (n + 1) - 1 = n
      OBVIOUS
    <2>. QED
      BY <1>2, <2>1
  <1> HIDE DEF T
  <1>3. 0..N \subseteq T
    BY <1>1, <1>2, BoundedInduction
  <1>. QED
    BY <1>3 DEF T
-----------------------------------------------------------------------------
(* Quotients.                                                              *)

Positive == Nat \ {0}

\* A product grows with its factor.
LEMMA ProductsAscend ==
  ASSUME NEW a \in Int, NEW b \in Int, NEW c \in Nat, a <= b
  PROVE  c * a <= c * b
  OBVIOUS

\* Quotient and remainder recompose the number.
LEMMA Division ==
  ASSUME NEW n \in Int, NEW d \in Positive
  PROVE  n \div d \in Int /\ n % d \in 0..(d - 1) /\ n = d * (n \div d) + (n % d)
  BY DEF Positive

\* A quotient lies between the multiples around the number.
LEMMA Quotients ==
  ASSUME NEW n \in Int, NEW d \in Positive, NEW lo \in Int, NEW hi \in Int
  PROVE  /\ d * lo <= n => lo <= n \div d
         /\ n < d * hi + d => n \div d <= hi
  <1> DEFINE q == n \div d
  <1>1. q \in Int /\ n % d \in 0..(d - 1) /\ n = d * q + (n % d) /\ d \in Nat
    BY Division DEF Positive
  <1> HIDE DEF q
  <1>2. ASSUME d * lo <= n, q + 1 <= lo PROVE FALSE
    <2>1. d * (q + 1) <= d * lo
      BY <1>1, <1>2, ProductsAscend
    <2>2. d * (q + 1) = d * q + d
      BY <1>1
    <2>. QED
      BY <1>1, <1>2, <2>1, <2>2
  <1>3. ASSUME n < d * hi + d, hi + 1 <= q PROVE FALSE
    <2>1. d * (hi + 1) <= d * q
      BY <1>1, <1>3, ProductsAscend
    <2>2. d * (hi + 1) = d * hi + d
      BY <1>1
    <2>. QED
      BY <1>1, <1>3, <2>1, <2>2
  <1>. QED
    BY <1>1, <1>2, <1>3 DEF q

\* Numbers near each other have quotients near each other.
LEMMA NearQuotients ==
  ASSUME NEW n \in Int, NEW m \in Int, NEW d \in Positive, NEW r \in Nat,
         n - m <= r * d, m - n <= r * d
  PROVE  n \div d \in ((m \div d) - r)..((m \div d) + r)
  <1> DEFINE q == m \div d
  <1>1. q \in Int /\ m % d \in 0..(d - 1) /\ m = d * q + (m % d) /\ d \in Nat
    BY Division DEF Positive
  <1>2. n \div d \in Int
    BY Division
  <1> HIDE DEF q
  <1>3. d * (q - r) = d * q - r * d /\ d * (q + r) = d * q + r * d
    BY <1>1
  <1>4. r * d \in Int /\ d * q \in Int
    BY <1>1
  <1>5. d * (q - r) <= n
    BY <1>1, <1>3, <1>4
  <1>6. n < d * (q + r) + d
    BY <1>1, <1>3, <1>4
  <1>7. q - r \in Int /\ q + r \in Int
    BY <1>1
  <1>8. q - r <= n \div d /\ n \div d <= q + r
    BY <1>5, <1>6, <1>7, Quotients
  <1>. QED
    BY <1>2, <1>7, <1>8 DEF q

\* A quotient grows with the number.
LEMMA QuotientsAscend ==
  ASSUME NEW a \in Int, NEW b \in Int, NEW d \in Positive, a <= b
  PROVE  a \div d <= b \div d
  <1>1. a \div d \in Int /\ d * (a \div d) <= a
    <2>1. a \div d \in Int /\ a % d \in 0..(d - 1) /\ a = d * (a \div d) + (a % d)
      BY Division
    <2>2. PICK q \in Int, r \in Int : q = a \div d /\ r = a % d
      BY <2>1
    <2>3. d * q \in Int /\ r >= 0 /\ a = d * q + r
      BY <2>1, <2>2 DEF Positive
    <2>4. d * q <= a
      BY <2>3
    <2>. QED
      BY <2>2, <2>4
  <1>2. d * (a \div d) <= b
    <2>1. PICK q \in Int : q = a \div d
      BY <1>1
    <2>2. d * q \in Int /\ d * q <= a
      BY <1>1, <2>1 DEF Positive
    <2>3. d * q <= b
      BY <2>2
    <2>. QED
      BY <2>1, <2>3
  <1>. QED
    BY <1>1, <1>2, Quotients

\* What has a quotient is as many numbers as the divisor.
LEMMA QuotientIs ==
  ASSUME NEW n \in Int, NEW d \in Positive, NEW q \in Int
  PROVE  n \div d = q <=> d * q <= n /\ n < d * q + d
  <1>1. n \div d \in Int /\ n % d \in 0..(d - 1) /\ n = d * (n \div d) + (n % d) /\ d \in Nat
    BY Division DEF Positive
  <1>2. d * q <= n /\ n < d * q + d => n \div d = q
    <2>1. d * q <= n => q <= n \div d
      BY Quotients
    <2>2. n < d * q + d => n \div d <= q
      BY Quotients
    <2>3. PICK m \in Int : m = n \div d
      BY <1>1
    <2>4. q <= m /\ m <= q => m = q
      OBVIOUS
    <2>. QED
      BY <2>1, <2>2, <2>3, <2>4
  <1>3. n \div d = q => d * q <= n /\ n < d * q + d
    <2>1. PICK r \in 0..(d - 1) : r = n % d
      BY <1>1
    <2>2. d * q \in Int
      BY <1>1
    <2>3. n = d * q + r => d * q <= n /\ n < d * q + d
      BY <1>1, <2>2
    <2>. QED
      BY <1>1, <2>1, <2>3
  <1>. QED
    BY <1>2, <1>3

\* Numbers between two others have all quotients between theirs.
LEMMA QuotientIsMet ==
  ASSUME NEW a \in Int, NEW b \in Int, a <= b, NEW d \in Positive,
         NEW c \in (a \div d)..(b \div d)
  PROVE  \E x \in a..b : x \div d = c
  <1>1. d \in Nat /\ d > 0 /\ a \div d \in Int /\ b \div d \in Int /\ c \in Int
    BY Division DEF Positive
  <1>2. a \div d <= c /\ c <= b \div d
    BY <1>1
  <1>3. CASE c = a \div d
    BY <1>3
  <1>4. CASE c # a \div d
    <2>1. PICK k \in Int : k = d * c
      BY <1>1
    <2>2. a < k
      <3>1. ~(a < d * c) => d * c <= a
        BY <1>1
      <3>2. d * c <= a => c <= a \div d
        BY <1>1, Quotients
      <3>. QED
        BY <1>1, <1>2, <1>4, <2>1, <3>1, <3>2
    <2>3. k <= b
      <3>1. PICK q \in Int : q = b \div d
        BY <1>1
      <3>2. d * q <= b
        BY <3>1, QuotientIs
      <3>3. d * c <= d * q
        BY <1>1, <1>2, <3>1, ProductsAscend
      <3>. QED
        BY <1>1, <2>1, <3>2, <3>3
    <2>4. k \div d = c
      <3>1. d * c <= k /\ k < d * c + d
        BY <1>1, <2>1
      <3>. QED
        BY <1>1, <3>1, QuotientIs
    <2>5. k \in a..b
      BY <2>2, <2>3
    <2>. QED
      BY <2>4, <2>5
  <1>. QED
    BY <1>3, <1>4
-----------------------------------------------------------------------------
(* What is reached in steps.                                               *)

\* g is what is reached from p in 0, 1, 2 and more rounds.
Reaches(g, N, p, t) ==
  /\ g[0] = {p}
  /\ \A k \in 1..N : g[k] = g[k - 1] \cup UNION {t[q] : q \in g[k - 1]}

\* What t does not leave, and the parts that t connects.
Shut(S, t) == \A q \in S : t[q] \subseteq S
Component(S, D, t) ==
  /\ S \in SUBSET D /\ S # {} /\ Shut(S, t)
  /\ \A X \in SUBSET D : Shut(X, t) /\ X \cap S # {} => S \subseteq X

\* What is reached contains the start, is part of whatever contains the start
\* and is closed, and is closed itself unless the rounds ran out.
LEMMA ReachFacts ==
  ASSUME NEW D, IsFiniteSet(D), NEW t \in [D -> SUBSET D], NEW p \in D, NEW N \in Nat,
         NEW g, Reaches(g, N, p, t)
  PROVE  /\ g[N] \in SUBSET D /\ p \in g[N]
         /\ \A X \in SUBSET D : p \in X /\ Shut(X, t) => g[N] \subseteq X
         /\ Cardinality(g[N]) <= N => Shut(g[N], t)
  <1>1. /\ g[0] = {p}
        /\ \A k \in 1..N : g[k] = g[k - 1] \cup UNION {t[q] : q \in g[k - 1]}
    BY DEF Reaches
  <1> DEFINE Sets == {X \in SUBSET D : p \in X}
  <1>2. ASSUME NEW k \in 1..N, g[k - 1] \in Sets PROVE g[k] \in Sets
    <2>1. g[k - 1] \subseteq D /\ p \in g[k - 1]
      BY <1>2
    <2>2. UNION {t[q] : q \in g[k - 1]} \subseteq D
      BY <2>1
    <2>. QED
      BY <1>1, <2>1, <2>2
  <1>3. \A k \in 0..N : g[k] \in Sets
    <2>1. g[0] \in Sets
      BY <1>1
    <2> HIDE DEF Sets
    <2>. QED
      BY <1>2, <2>1, ValuesStay
  <1>4. 0 \in 0..N /\ N \in 0..N
    OBVIOUS
  <1>5. ASSUME NEW X \in SUBSET D, p \in X, Shut(X, t) PROVE g[N] \subseteq X
    <2>1. ASSUME NEW k \in 1..N, g[k - 1] \in SUBSET X PROVE g[k] \in SUBSET X
      <3>1. UNION {t[q] : q \in g[k - 1]} \subseteq X
        BY <1>5, <2>1 DEF Shut
      <3>. QED
        BY <1>1, <2>1, <3>1
    <2>2. g[0] \in SUBSET X
      BY <1>1, <1>5
    <2>3. \A k \in 0..N : g[k] \in SUBSET X
      BY <2>1, <2>2, ValuesStay
    <2>. QED
      BY <1>4, <2>3
  <1>6. \A k \in 0..N : IsFiniteSet(g[k]) /\ Cardinality(g[k]) \in Nat
    BY <1>3, FS_Subset, FS_CardinalityType
  <1> DEFINE Good == {k \in 0..N : Cardinality(g[k]) >= k + 1 \/ Shut(g[k], t)}
  <1>7. 0 \in Good
    <2>1. Cardinality({p}) = 1
      BY FS_Singleton
    <2>. QED
      BY <1>1, <1>4, <2>1
  <1>8. ASSUME NEW n \in 0..(N - 1), n \in Good PROVE n + 1 \in Good
    <2>1. n \in 0..N /\ n + 1 \in 0..N /\ n + 1 \in 1..N /\ (n + 1) - 1 = n
      OBVIOUS
    <2> DEFINE A == g[n]  B == g[n + 1]  U == UNION {t[q] : q \in A}
    <2>2. B = A \cup U
      <3>1. g[n + 1] = g[(n + 1) - 1] \cup UNION {t[q] : q \in g[(n + 1) - 1]}
        BY <1>1, <2>1
      <3>. QED
        BY <2>1, <3>1
    <2>3. CASE Shut(A, t)
      <3>1. U \subseteq A
        BY <2>3 DEF Shut
      <3>2. B = A
        BY <2>2, <3>1
      <3>. QED
        BY <2>1, <2>3, <3>2
    <2>4. CASE ~Shut(A, t)
      <3>1. ~(U \subseteq A)
        BY <2>4 DEF Shut
      <3>2. A \in SUBSET B /\ A # B
        BY <2>2, <3>1
      <3>3. Cardinality(A) <= Cardinality(B) /\ Cardinality(A) # Cardinality(B)
            /\ Cardinality(A) \in Nat /\ Cardinality(B) \in Nat
        <4>1. IsFiniteSet(B) /\ IsFiniteSet(A)
              /\ Cardinality(A) \in Nat /\ Cardinality(B) \in Nat
          BY <1>6, <2>1
        <4> HIDE DEF A, B
        <4>. QED
          BY <3>2, <4>1, FS_Subset
      <3>4. Cardinality(A) >= n + 1
        BY <1>8, <2>4
      <3>5. Cardinality(B) >= (n + 1) + 1
        <4> HIDE DEF A, B
        <4>. QED
          BY <2>1, <3>3, <3>4
      <3>. QED
        BY <2>1, <3>5
    <2>. QED
      BY <2>3, <2>4
  <1>9. N \in Good
    <2> HIDE DEF Good
    <2>1. 0..N \subseteq Good
      BY <1>7, <1>8, BoundedInduction
    <2>. QED
      BY <1>4, <2>1
  <1>10. Cardinality(g[N]) <= N => Shut(g[N], t)
    BY <1>4, <1>6, <1>9
  <1>. QED
    BY <1>3, <1>4, <1>5, <1>10

\* Where neighbours reach each other, what is reached and closed is a component.
LEMMA ReachedComponent ==
  ASSUME NEW D, NEW t \in [D -> SUBSET D], \A q, r \in D : r \in t[q] => q \in t[r],
         NEW p \in D, NEW S \in SUBSET D, p \in S, Shut(S, t),
         \A X \in SUBSET D : p \in X /\ Shut(X, t) => S \subseteq X
  PROVE  Component(S, D, t)
  <1>1. ASSUME NEW X \in SUBSET D, Shut(X, t), NEW q \in X \cap S, p \notin X PROVE FALSE
    <2> DEFINE Y == D \ X
    <2>1. Shut(Y, t)
      BY <1>1 DEF Shut
    <2>2. S \subseteq Y
      BY <1>1, <2>1
    <2>. QED
      BY <1>1, <2>2
  <1>. QED
    BY <1>1 DEF Component

\* A walk step by step fills the stretch it stays in.
LEMMA WalkFills ==
  ASSUME NEW a \in Int, NEW b \in Int, NEW S, NEW x \in a..b, x \in S,
         \A n \in a..b : n \in S => (n < b => n + 1 \in S) /\ (a < n => n - 1 \in S)
  PROVE  a..b \subseteq S
  <1> DEFINE up == {k \in Nat : x + k \in S}  down == {k \in Nat : x - k \in S}
  <1>1. b - x \in Nat /\ x - a \in Nat
    OBVIOUS
  <1>2. 0..(b - x) \subseteq up
    <2>1. 0 \in up
      OBVIOUS
    <2>2. ASSUME NEW n \in 0..((b - x) - 1), n \in up PROVE n + 1 \in up
      <3>1. x + n \in a..b /\ x + n \in S /\ x + n < b /\ x + (n + 1) = (x + n) + 1
        BY <2>2
      <3>. QED
        BY <3>1
    <2> HIDE DEF up
    <2>. QED
      BY <1>1, <2>1, <2>2, BoundedInduction
  <1>3. 0..(x - a) \subseteq down
    <2>1. 0 \in down
      OBVIOUS
    <2>2. ASSUME NEW n \in 0..((x - a) - 1), n \in down PROVE n + 1 \in down
      <3>1. x - n \in a..b /\ x - n \in S /\ a < x - n /\ x - (n + 1) = (x - n) - 1
        BY <2>2
      <3>. QED
        BY <3>1
    <2> HIDE DEF down
    <2>. QED
      BY <1>1, <2>1, <2>2, BoundedInduction
  <1>4. ASSUME NEW y \in a..b PROVE y \in S
    <2>1. CASE x <= y
      <3>1. y - x \in 0..(b - x) /\ x + (y - x) = y
        BY <2>1
      <3>2. y - x \in up
        BY <1>2, <3>1
      <3>. QED
        BY <3>1, <3>2
    <2>2. CASE y < x
      <3>1. x - y \in 0..(x - a) /\ x - (x - y) = y
        BY <2>2
      <3>2. x - y \in down
        BY <1>3, <3>1
      <3>. QED
        BY <3>1, <3>2
    <2>. QED
      BY <2>1, <2>2
  <1>. QED
    BY <1>4

\* A box of a grid is finite.
LEMMA BoxIsFinite ==
  ASSUME NEW a \in Int, NEW b \in Int, NEW c \in Int, NEW d \in Int
  PROVE  IsFiniteSet((a..b) \X (c..d))
  <1>1. IsFiniteSet(a..b) /\ IsFiniteSet(c..d)
    BY FS_Interval
  <1>. QED
    BY <1>1, FS_Product

\* The image of a finite set.
LEMMA ImageIsFinite ==
  ASSUME NEW S, IsFiniteSet(S), NEW f, DOMAIN f = S
  PROVE  IsFiniteSet({f[x] : x \in S}) /\ Cardinality({f[x] : x \in S}) <= Cardinality(S)
  <1> DEFINE T == {f[x] : x \in S}  g == [x \in S |-> f[x]]
  <1>1. g \in Surjection(S, T)
    BY DEF Surjection
  <1>2. IsFiniteSet(T) /\ Cardinality(T) <= Cardinality(S)
    <2> HIDE DEF T, g
    <2>. QED
      BY <1>1, FS_Surjection
  <1>. QED
    BY <1>2
=============================================================================
