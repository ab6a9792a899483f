------------------------------ MODULE Counting ------------------------------
(***************************************************************************)
(* Mathematics that the proofs about retries rest on: induction over the   *)
(* natural numbers, factorials and binomial coefficients, and sums over    *)
(* finite sets.  Nothing here is about the program.                        *)
(***************************************************************************)
EXTENDS Integers, Combinatorics, FiniteSetTheorems, TLAPS

-----------------------------------------------------------------------------
(* Induction.                                                              *)

(* A set that holds 0, and n + 1 whenever it holds n, holds every natural  *)
(* number: otherwise the least number outside has a predecessor outside.   *)
LEMMA SetInduction ==
  ASSUME NEW S, 0 \in S, \A n \in Nat : n \in S => n + 1 \in S
  PROVE  \A n \in Nat : n \in S
<1> DEFINE T == Nat \ S
<1> SUFFICES ASSUME T # {} PROVE FALSE
  OBVIOUS
<1>1. PICK n \in T : \A k \in T : <<k, n>> \notin OpToRel(<, Nat)
  BY NatLessThanWellFounded, WFMin, T \subseteq Nat, Zenon
<1>2. n - 1 \in T /\ n - 1 < n
  OBVIOUS
<1>3. <<n - 1, n>> \in OpToRel(<, Nat)
  BY <1>2 DEF OpToRel
<1> QED
  BY <1>1, <1>2, <1>3

-----------------------------------------------------------------------------
(* Iteration.                                                              *)

(* g lists what 0 to n steps lead to from x. *)
StepsTo(g, n, x, step) ==
  /\ DOMAIN g = 0..n /\ g[0] = x
  /\ \A i \in 0..(n - 1) : g[i + 1] = step[g[i]]

(* There is such a list for every number of steps... *)
LEMMA StepsExist ==
  ASSUME NEW x, NEW step
  PROVE  \A n \in Nat : \E g : StepsTo(g, n, x, step)
<1> DEFINE S == {n \in Nat : \E g : StepsTo(g, n, x, step)}
<1>1. 0 \in S
  <2>1. StepsTo([i \in 0..0 |-> x], 0, x, step)
    BY DEF StepsTo
  <2> QED
    BY <2>1
<1>2. ASSUME NEW n \in Nat, n \in S
      PROVE  n + 1 \in S
  <2>1. PICK g : StepsTo(g, n, x, step)
    BY <1>2
  <2> DEFINE h == [i \in 0..(n + 1) |-> IF i = n + 1 THEN step[g[n]] ELSE g[i]]
  <2>2. StepsTo(h, n + 1, x, step)
    BY <2>1 DEF StepsTo
  <2> HIDE DEF h
  <2> QED
    BY <2>2
<1> HIDE DEF S
<1>3. \A n \in Nat : n \in S
  BY <1>1, <1>2, SetInduction
<1> QED
  BY <1>3 DEF S

(* ... and any two agree where both are defined. *)
LEMMA StepsAgree ==
  ASSUME NEW x, NEW step, NEW m \in Nat, NEW n \in Nat, m <= n,
         NEW g, StepsTo(g, m, x, step), NEW h, StepsTo(h, n, x, step)
  PROVE  g[m] = h[m]
<1> DEFINE S == {i \in Nat : i <= m => g[i] = h[i]}
<1>1. 0 \in S
  BY DEF StepsTo
<1>2. ASSUME NEW i \in Nat, i \in S
      PROVE  i + 1 \in S
  <2> SUFFICES ASSUME i + 1 <= m PROVE g[i + 1] = h[i + 1]
    OBVIOUS
  <2>1. g[i] = h[i] /\ i \in 0..(m - 1) /\ i \in 0..(n - 1)
    BY <1>2
  <2> QED
    BY <2>1 DEF StepsTo
<1> HIDE DEF S
<1>3. \A i \in Nat : i \in S
  BY <1>1, <1>2, SetInduction
<1> QED
  BY <1>3 DEF S

(* f[n] is what n steps lead to from x. *)
Iterates(f, x, step) ==
  /\ DOMAIN f = Nat /\ f[0] = x
  /\ \A n \in Nat : f[n + 1] = step[f[n]]

(* The lists together are such a function. *)
LEMMA Iteration ==
  ASSUME NEW x, NEW step
  PROVE  \E f : Iterates(f, x, step)
<1> DEFINE G(n) == CHOOSE g : StepsTo(g, n, x, step)
           f == [n \in Nat |-> G(n)[n]]
<1>1. \A n \in Nat : StepsTo(G(n), n, x, step)
  BY StepsExist
<1> HIDE DEF G
<1>2. f[0] = x
  BY <1>1 DEF StepsTo
<1>3. ASSUME NEW n \in Nat
      PROVE  f[n + 1] = step[f[n]]
  <2>1. n + 1 \in Nat /\ n <= n + 1 /\ n \in 0..((n + 1) - 1)
    OBVIOUS
  <2>2. G(n)[n] = G(n + 1)[n]
    BY <1>1, <2>1, StepsAgree
  <2>3. G(n + 1)[n + 1] = step[G(n + 1)[n]]
    BY <1>1, <2>1 DEF StepsTo
  <2> QED
    BY <2>1, <2>2, <2>3
<1> HIDE DEF f
<1>4. DOMAIN f = Nat
  BY DEF f
<1>5. Iterates(f, x, step)
  BY <1>2, <1>3, <1>4 DEF Iterates
<1> QED
  BY <1>5

-----------------------------------------------------------------------------
(* Factorials.                                                             *)

(* A product of positive numbers is positive. *)
LEMMA PositiveProduct ==
  ASSUME NEW a \in Nat \ {0}, NEW b \in Nat \ {0}
  PROVE  a * b \in Nat \ {0}
OBVIOUS

(* g lists the factorials of 0 to n. *)
FactorialsTo(g, n) ==
  /\ g \in [0..n -> Nat]
  /\ \A i \in 0..n : g[i] = IF i = 0 THEN 1 ELSE i * g[i - 1]

(* Every such list exists... *)
LEMMA FactorialsExist ==
  \A n \in Nat : \E g : FactorialsTo(g, n)
<1> DEFINE S == {n \in Nat : \E g : FactorialsTo(g, n)}
<1>1. 0 \in S
  <2>1. FactorialsTo([i \in 0..0 |-> 1], 0)
    BY DEF FactorialsTo
  <2> QED
    BY <2>1
<1>2. ASSUME NEW n \in Nat, n \in S
      PROVE  n + 1 \in S
  <2>1. PICK g : FactorialsTo(g, n)
    BY <1>2
  <2> DEFINE h == [i \in 0..(n + 1) |-> IF i = n + 1 THEN (n + 1) * g[n] ELSE g[i]]
  <2>2. FactorialsTo(h, n + 1)
    BY <2>1 DEF FactorialsTo
  <2> HIDE DEF h
  <2> QED
    BY <2>2
<1> HIDE DEF S
<1>3. \A n \in Nat : n \in S
  BY <1>1, <1>2, SetInduction
<1> QED
  BY <1>3 DEF S

(* ... and any two agree where both are defined. *)
LEMMA FactorialsAgree ==
  ASSUME NEW m \in Nat, NEW n \in Nat, m <= n,
         NEW g, FactorialsTo(g, m), NEW h, FactorialsTo(h, n)
  PROVE  g[m] = h[m]
<1> DEFINE S == {i \in Nat : i <= m => g[i] = h[i]}
<1>1. 0 \in S
  BY DEF FactorialsTo
<1>2. ASSUME NEW i \in Nat, i \in S
      PROVE  i + 1 \in S
  <2> SUFFICES ASSUME i + 1 <= m PROVE g[i + 1] = h[i + 1]
    OBVIOUS
  <2>1. g[i] = h[i] /\ i + 1 \in 0..m /\ i + 1 \in 0..n /\ i + 1 # 0 /\ (i + 1) - 1 = i
    BY <1>2
  <2> QED
    BY <2>1 DEF FactorialsTo
<1> HIDE DEF S
<1>3. \A i \in Nat : i \in S
  BY <1>1, <1>2, SetInduction
<1> QED
  BY <1>3 DEF S

(* The recursion that defines factorial has a solution, so that factorial  *)
(* obeys it.                                                               *)
LEMMA FactorialDef ==
  /\ factorial[0] = 1
  /\ \A n \in Nat : factorial[n] \in Nat \ {0} /\ factorial[n + 1] = (n + 1) * factorial[n]
<1> DEFINE G(n) == CHOOSE g : FactorialsTo(g, n)
           f == [n \in Nat |-> G(n)[n]]
<1>1. \A n \in Nat : FactorialsTo(G(n), n)
  BY FactorialsExist
<1> HIDE DEF G
<1>2. \A n \in Nat : f[n] \in Nat /\ f[n] = IF n = 0 THEN 1 ELSE n * f[n - 1]
  <2> TAKE n \in Nat
  <2>1. f[n] \in Nat /\ f[n] = IF n = 0 THEN 1 ELSE n * G(n)[n - 1]
    BY <1>1 DEF FactorialsTo
  <2>2. CASE n # 0
    <3>1. n - 1 \in Nat /\ n - 1 <= n
      BY <2>2
    <3>2. G(n - 1)[n - 1] = G(n)[n - 1]
      BY <1>1, <3>1, FactorialsAgree
    <3> QED
      BY <2>1, <2>2, <3>1, <3>2
  <2> QED
    BY <2>1, <2>2
<1>3. f = [n \in Nat |-> IF n = 0 THEN 1 ELSE n * f[n - 1]]
  BY <1>2
<1> HIDE DEF f
<1>4. factorial = [n \in Nat |-> IF n = 0 THEN 1 ELSE n * factorial[n - 1]]
  BY <1>3 DEF factorial
<1>5. \A n \in Nat : factorial[n] = IF n = 0 THEN 1 ELSE n * factorial[n - 1]
  BY ONLY <1>4
<1>6. \A n \in Nat : factorial[n + 1] = (n + 1) * factorial[n]
  BY <1>5
<1> DEFINE S == {n \in Nat : factorial[n] \in Nat \ {0}}
<1>7. 0 \in S
  BY <1>5
<1>8. ASSUME NEW n \in Nat, n \in S
      PROVE  n + 1 \in S
  <2>1. factorial[n + 1] = (n + 1) * factorial[n] /\ n + 1 \in Nat \ {0}
    BY <1>6
  <2>2. (n + 1) * factorial[n] \in Nat \ {0}
    BY <1>8, <2>1, PositiveProduct
  <2> QED
    BY <2>1, <2>2
<1>9. \A n \in Nat : n \in S
  <2> HIDE DEF S
  <2> QED
    BY <1>7, <1>8, SetInduction
<1> QED
  BY <1>5, <1>6, <1>9

-----------------------------------------------------------------------------
(* Binomial coefficients.                                                  *)

(* The division in choose is exact. *)
LEMMA ExactDivision ==
  ASSUME NEW q \in Nat, NEW d \in Nat \ {0}
  PROVE  (q * d) \div d = q
OBVIOUS

(* The two terms of Pascal's rule, over the common denominator. *)
LEMMA PascalTerms ==
  ASSUME NEW r \in Nat, NEW j \in Nat, NEW p \in Nat, NEW q \in Nat,
         factorial[r + j + 1] = p * (factorial[j + 1] * factorial[r]),
         factorial[r + j + 1] = q * (factorial[j] * factorial[r + 1])
  PROVE  factorial[r + j + 2] = (p + q) * (factorial[j + 1] * factorial[r + 1])
<1> DEFINE a == factorial[r]
           b == factorial[j]
           n == factorial[r + j + 1]
<1>1. a \in Nat /\ b \in Nat /\ n \in Nat
  BY FactorialDef
<1>2. factorial[r + 1] = (r + 1) * a /\ factorial[j + 1] = (j + 1) * b
  BY FactorialDef
<1>3. factorial[r + j + 2] = (r + j + 2) * n
  BY FactorialDef, (r + j + 1) + 1 = r + j + 2
<1>4. n = p * (((j + 1) * b) * a) /\ n = q * (b * ((r + 1) * a))
  BY <1>2
<1> HIDE DEF a, b, n
<1>5. (r + 1) * n = p * (((j + 1) * b) * ((r + 1) * a))
  BY <1>1, <1>4
<1>6. (j + 1) * n = q * (((j + 1) * b) * ((r + 1) * a))
  BY <1>1, <1>4
<1>7. (r + j + 2) * n = (r + 1) * n + (j + 1) * n
  BY <1>1
<1> DEFINE d == ((j + 1) * b) * ((r + 1) * a)
<1>8. d \in Nat
  BY <1>1
<1>9. (p + q) * d = p * d + q * d
  <2> HIDE DEF d
  <2> QED
    BY <1>8
<1> QED
  BY <1>2, <1>3, <1>5, <1>6, <1>7, <1>9

(* A product of factorials divides the factorial of the sum. *)
LEMMA Divides ==
  \A r, j \in Nat : \E q \in Nat \ {0} : factorial[r + j] = q * (factorial[j] * factorial[r])
<1> DEFINE Quotient(r, j) ==
             \E q \in Nat \ {0} : factorial[r + j] = q * (factorial[j] * factorial[r])
           S == {n \in Nat : \A r, j \in Nat : r + j = n => Quotient(r, j)}
<1>1. ASSUME NEW r \in Nat, NEW j \in Nat, r = 0 \/ j = 0
      PROVE  Quotient(r, j)
  <2>1. CASE r = 0
    <3>1. r + j = j /\ factorial[r] = 1 /\ factorial[j] \in Nat
      BY <2>1, FactorialDef
    <3> QED
      BY <3>1
  <2>2. CASE j = 0
    <3>1. r + j = r /\ factorial[j] = 1 /\ factorial[r] \in Nat
      BY <2>2, FactorialDef
    <3> QED
      BY <3>1
  <2> QED
    BY <1>1, <2>1, <2>2
<1>2. ASSUME NEW r \in Nat, NEW j \in Nat, Quotient(r, j + 1), Quotient(r + 1, j)
      PROVE  Quotient(r + 1, j + 1)
  <2>1. PICK p \in Nat \ {0} : factorial[r + (j + 1)] = p * (factorial[j + 1] * factorial[r])
    BY <1>2
  <2>2. PICK q \in Nat \ {0} : factorial[(r + 1) + j] = q * (factorial[j] * factorial[r + 1])
    BY <1>2
  <2>3. r + (j + 1) = r + j + 1 /\ (r + 1) + j = r + j + 1 /\ (r + 1) + (j + 1) = r + j + 2
    OBVIOUS
  <2>4. factorial[(r + 1) + (j + 1)] = (p + q) * (factorial[j + 1] * factorial[r + 1])
    BY <2>1, <2>2, <2>3, PascalTerms
  <2> QED
    BY <2>4, p + q \in Nat \ {0}
<1> HIDE DEF Quotient
<1>3. 0 \in S
  BY <1>1
<1>4. ASSUME NEW n \in Nat, n \in S
      PROVE  n + 1 \in S
  <2> SUFFICES ASSUME NEW r \in Nat, NEW j \in Nat, r + j = n + 1
               PROVE  Quotient(r, j)
    OBVIOUS
  <2>1. CASE r # 0 /\ j # 0
    <3>1. r - 1 \in Nat /\ j - 1 \in Nat /\ (r - 1) + 1 = r /\ (j - 1) + 1 = j
      BY <2>1
    <3>2. Quotient(r - 1, j) /\ Quotient(r, j - 1)
      BY <1>4, <3>1
    <3> QED
      BY <1>2, <3>1, <3>2
  <2> QED
    BY <1>1, <2>1
<1>5. \A n \in Nat : n \in S
  <2> HIDE DEF S
  <2> QED
    BY <1>3, <1>4, SetInduction
<1>6. ASSUME NEW r \in Nat, NEW j \in Nat
      PROVE  Quotient(r, j)
  <2>1. r + j \in S
    <3> HIDE DEF S
    <3> QED
      BY <1>5, r + j \in Nat
  <2> QED
    BY <2>1
<1> QED
  BY <1>6 DEF Quotient

(* Pascal's rule, at the sides of the triangle and inside it. *)
LEMMA Pascal ==
  ASSUME NEW r \in Nat, NEW j \in Nat
  PROVE  /\ choose(r + j, j) \in Nat \ {0}
         /\ choose(0 + j, j) = 1 /\ choose(r + 0, 0) = 1
         /\ choose((r + 1) + (j + 1), j + 1) = choose(r + (j + 1), j + 1) + choose((r + 1) + j, j)
<1>1. ASSUME NEW a \in Nat, NEW b \in Nat, NEW q \in Nat,
             factorial[a + b] = q * (factorial[b] * factorial[a])
      PROVE  choose(a + b, b) = q
  <2>1. (a + b) - b = a
    OBVIOUS
  <2>2. factorial[b] * factorial[a] \in Nat \ {0}
    BY FactorialDef, PositiveProduct
  <2> DEFINE d == factorial[b] * factorial[a]
  <2>3. choose(a + b, b) = (q * d) \div d
    BY <1>1, <2>1 DEF choose
  <2> HIDE DEF d
  <2> QED
    BY <2>2, <2>3, ExactDivision DEF d
<1>2. choose(r + j, j) \in Nat \ {0}
  <2>1. PICK q \in Nat \ {0} : factorial[r + j] = q * (factorial[j] * factorial[r])
    BY Divides
  <2> QED
    BY <1>1, <2>1
<1>3. choose(0 + j, j) = 1 /\ choose(r + 0, 0) = 1
  <2>1. /\ factorial[0 + j] = 1 * (factorial[j] * factorial[0])
        /\ factorial[r + 0] = 1 * (factorial[0] * factorial[r])
    BY FactorialDef
  <2> QED
    BY <1>1, <2>1
<1>4. choose((r + 1) + (j + 1), j + 1) = choose(r + (j + 1), j + 1) + choose((r + 1) + j, j)
  <2>1. PICK p \in Nat \ {0} : factorial[r + (j + 1)] = p * (factorial[j + 1] * factorial[r])
    BY Divides
  <2>2. PICK q \in Nat \ {0} : factorial[(r + 1) + j] = q * (factorial[j] * factorial[r + 1])
    BY Divides
  <2>3. r + (j + 1) = r + j + 1 /\ (r + 1) + j = r + j + 1 /\ (r + 1) + (j + 1) = r + j + 2
    OBVIOUS
  <2>4. factorial[(r + 1) + (j + 1)] = (p + q) * (factorial[j + 1] * factorial[r + 1])
    BY <2>1, <2>2, <2>3, PascalTerms
  <2>5. choose(r + (j + 1), j + 1) = p /\ choose((r + 1) + j, j) = q
    BY <1>1, <2>1, <2>2
  <2>6. choose((r + 1) + (j + 1), j + 1) = p + q
    BY <1>1, <2>4, p + q \in Nat
  <2> QED
    BY <2>5, <2>6
<1> QED
  BY <1>2, <1>3, <1>4

-----------------------------------------------------------------------------
(* Sums.                                                                   *)

(* The sum of F over a finite set D: F[x] tokens lie on each x. *)
Tokens(F, D) == {p \in D \X Nat : 1 <= p[2] /\ p[2] <= F[p[1]]}
Total(F, D) == Cardinality(Tokens(F, D))

(* There are finitely many tokens. *)
LEMMA FiniteTokens ==
  ASSUME NEW D, IsFiniteSet(D), NEW F, \A x \in D : F[x] \in Nat
  PROVE  IsFiniteSet(Tokens(F, D)) /\ Total(F, D) \in Nat
<1> DEFINE f == [x \in D |-> {x} \X (1..F[x])]
           R == {f[x] : x \in D}
<1>1. f \in Surjection(D, R)
  BY DEF Surjection
<1>2. IsFiniteSet(R)
  <2> HIDE DEF f
  <2> QED
    BY <1>1, FS_Surjection
<1>3. \A T \in R : IsFiniteSet(T)
  <2> SUFFICES ASSUME NEW x \in D PROVE IsFiniteSet(f[x])
    OBVIOUS
  <2>1. IsFiniteSet({x}) /\ IsFiniteSet(1..F[x])
    BY FS_Singleton, FS_Interval, 1 \in Int, F[x] \in Int
  <2> QED
    BY <2>1, FS_Product
<1>4. Tokens(F, D) = UNION R
  <2>1. ASSUME NEW p \in Tokens(F, D) PROVE p \in UNION R
    <3>1. p[1] \in D /\ p \in f[p[1]]
      BY <2>1 DEF Tokens
    <3> QED
      BY <3>1
  <2>2. ASSUME NEW x \in D, NEW p \in f[x] PROVE p \in Tokens(F, D)
    BY <2>2 DEF Tokens
  <2> QED
    BY <2>1, <2>2
<1>5. IsFiniteSet(UNION R)
  <2> HIDE DEF R
  <2> QED
    BY <1>2, <1>3, FS_UNION
<1> QED
  BY <1>4, <1>5, FS_CardinalityType DEF Total

(* A sum is one of its terms and the sum of the others. *)
LEMMA SplitTotal ==
  ASSUME NEW D, IsFiniteSet(D), NEW F, \A z \in D : F[z] \in Nat, NEW x \in D
  PROVE  Total(F, D) = Total(F, D \ {x}) + F[x]
<1> DEFINE A == Tokens(F, D \ {x})
           B == {x} \X (1..F[x])
<1>1. Tokens(F, D) = A \cup B /\ A \cap B = {}
  <2>1. ASSUME NEW p \in Tokens(F, D) PROVE p \in A \cup B
    BY <2>1 DEF Tokens
  <2>2. A \subseteq Tokens(F, D) /\ B \subseteq Tokens(F, D)
    BY DEF Tokens
  <2>3. A \cap B = {}
    BY DEF Tokens
  <2> QED
    BY <2>1, <2>2, <2>3
<1>2. IsFiniteSet(D \ {x})
  BY FS_Subset, D \ {x} \in SUBSET D
<1>3. IsFiniteSet(A) /\ Cardinality(A) \in Nat
  BY <1>2, FiniteTokens DEF Total
<1>4. IsFiniteSet(B) /\ Cardinality(B) = F[x]
  <2>1. IsFiniteSet({x}) /\ Cardinality({x}) = 1
    BY FS_Singleton
  <2>2. IsFiniteSet(1..F[x]) /\ Cardinality(1..F[x]) = F[x]
    BY FS_Interval
  <2>3. IsFiniteSet(B) /\ Cardinality(B) = Cardinality({x}) * Cardinality(1..F[x])
    BY <2>1, <2>2, FS_Product
  <2> QED
    BY <2>1, <2>2, <2>3
<1>5. Cardinality(A \cap B) = 0
  BY <1>1, FS_EmptySet
<1> HIDE DEF A, B
<1>6. Cardinality(A \cup B) = Cardinality(A) + Cardinality(B) - Cardinality(A \cap B)
  BY <1>3, <1>4, FS_Union
<1> QED
  BY <1>1, <1>3, <1>4, <1>5, <1>6 DEF Total, A

(* A sum of zeros is zero. *)
LEMMA ZeroTotal ==
  ASSUME NEW D, NEW F, \A z \in D : F[z] = 0
  PROVE  Total(F, D) = 0
<1>1. Tokens(F, D) = {}
  BY DEF Tokens
<1> QED
  BY <1>1, FS_EmptySet DEF Total

(* Smaller terms make a smaller sum. *)
LEMMA MonotoneTotal ==
  ASSUME NEW D, IsFiniteSet(D), NEW F, NEW G,
         \A z \in D : F[z] \in Nat /\ G[z] \in Nat /\ G[z] <= F[z]
  PROVE  Total(G, D) <= Total(F, D)
<1>1. IsFiniteSet(Tokens(F, D))
  BY FiniteTokens
<1>2. Tokens(G, D) \in SUBSET Tokens(F, D)
  BY DEF Tokens
<1> QED
  BY <1>1, <1>2, FS_Subset DEF Total

(* What two terms lose between them, the sum loses, if no other grows. *)
LEMMA ShiftTotal ==
  ASSUME NEW D, IsFiniteSet(D), NEW F, NEW G,
         \A z \in D : F[z] \in Nat /\ G[z] \in Nat,
         NEW x \in D, NEW y \in D, x # y, NEW e \in Nat,
         \A z \in D \ {x, y} : G[z] <= F[z],
         G[x] + G[y] + e <= F[x] + F[y]
  PROVE  Total(G, D) + e <= Total(F, D)
<1> DEFINE X == D \ {x}
           Y == X \ {y}
<1>1. IsFiniteSet(X) /\ IsFiniteSet(Y)
  BY FS_Subset, X \in SUBSET D, Y \in SUBSET D
<1>2. /\ Total(F, D) = Total(F, X) + F[x] /\ Total(G, D) = Total(G, X) + G[x]
  BY SplitTotal
<1>3. /\ Total(F, X) = Total(F, Y) + F[y] /\ Total(G, X) = Total(G, Y) + G[y]
  BY <1>1, SplitTotal
<1>4. Total(F, Y) \in Nat /\ Total(G, Y) \in Nat /\ Total(G, Y) <= Total(F, Y)
  BY <1>1, FiniteTokens, MonotoneTotal
<1> HIDE DEF X, Y
<1> QED
  BY <1>2, <1>3, <1>4
=============================================================================
