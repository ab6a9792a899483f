-------------------------- MODULE RetryDelayProofs --------------------------
(* Proofs about RetryDelay: what the words stand for, what Fibonacci and   *)
(* the product with time.Second leave in them, and the wait that follows.  *)
EXTENDS RetryDelay, Counting

-----------------------------------------------------------------------------
(* The numbers that words stand for.                                       *)

(* The number of a word without a sign, and how many there are. *)
Val(w) == w[1] + Limb * (w[2] + Limb * (w[3] + Limb * w[4]))
Modulus == Limb * (Limb * (Limb * Limb))

(* The word that 64 bits leave of the number x. *)
Stands(w, x) == w \in Word /\ \E q \in Nat : x = Val(w) + Modulus * q

(* A limb is a number. *)
LEMMA LimbType == Limb \in Nat
BY DEF Limb

(* What the range of a limb contains. *)
LEMMA LimbRange == \A x : x \in 0..(Limb - 1) <=> x \in Nat /\ x < Limb
BY ONLY LimbType

(* A number splits into its last limb and the rest... *)
LEMMA Limbs ==
  ASSUME NEW x \in Nat
  PROVE  /\ x % Limb \in Nat /\ x % Limb < Limb /\ x \div Limb \in Nat
         /\ x = (x % Limb) + Limb * (x \div Limb)
BY DEF Limb

(* ... and in one way only. *)
LEMMA LimbsUnique ==
  ASSUME NEW a \in Nat, NEW b \in Nat, a < Limb, b < Limb,
         NEW c \in Nat, NEW d \in Nat, a + Limb * c = b + Limb * d
  PROVE  a = b /\ c = d
BY DEF Limb

(* A limb more multiplies the bound. *)
LEMMA LimbBound ==
  ASSUME NEW a \in Nat, NEW y \in Nat, NEW b \in Nat, a < Limb, y < b
  PROVE  a + Limb * y \in Nat /\ a + Limb * y < Limb * b /\ Limb * b \in Nat
BY DEF Limb

(* Four limbs make a word, and a word has four limbs. *)
LEMMA WordLimbs ==
  /\ \A p, q, r, s \in Nat :
       p < Limb /\ q < Limb /\ r < Limb /\ s < Limb => <<p, q, r, s>> \in Word
  /\ \A w \in Word : /\ w[1] \in Nat /\ w[2] \in Nat /\ w[3] \in Nat /\ w[4] \in Nat
                     /\ w[1] < Limb /\ w[2] < Limb /\ w[3] < Limb /\ w[4] < Limb
                     /\ w = <<w[1], w[2], w[3], w[4]>>
<1> DEFINE R == 0..(Limb - 1)
<1>1. \A x : x \in R <=> x \in Nat /\ x < Limb
  BY LimbRange
<1>2. Word = [1..4 -> R]
  BY DEF Word
<1> HIDE DEF R
<1>3. ASSUME NEW p \in R, NEW q \in R, NEW r \in R, NEW s \in R
      PROVE  <<p, q, r, s>> \in Word
  BY ONLY <1>2, <1>3
<1>4. ASSUME NEW w \in Word
      PROVE  /\ w[1] \in R /\ w[2] \in R /\ w[3] \in R /\ w[4] \in R
             /\ w = <<w[1], w[2], w[3], w[4]>>
  BY ONLY <1>2, w \in Word
<1> QED
  BY ONLY <1>1, <1>3, <1>4

(* Every word stands for a number below Modulus. *)
LEMMA ValType ==
  ASSUME NEW w \in Word
  PROVE  Val(w) \in Nat /\ Val(w) < Modulus
<1>1. /\ w[1] \in Nat /\ w[2] \in Nat /\ w[3] \in Nat /\ w[4] \in Nat
      /\ w[1] < Limb /\ w[2] < Limb /\ w[3] < Limb /\ w[4] < Limb
  BY WordLimbs
<1> DEFINE x3 == w[3] + Limb * w[4]
           x2 == w[2] + Limb * x3
<1>2. x3 \in Nat /\ x3 < Limb * Limb /\ Limb * Limb \in Nat
  BY ONLY <1>1, LimbType, LimbBound
<1> HIDE DEF x3
<1>3. x2 \in Nat /\ x2 < Limb * (Limb * Limb) /\ Limb * (Limb * Limb) \in Nat
  BY ONLY <1>1, <1>2, LimbBound
<1> HIDE DEF x2
<1>4. w[1] + Limb * x2 \in Nat /\ w[1] + Limb * x2 < Limb * (Limb * (Limb * Limb))
  BY ONLY <1>1, <1>3, LimbBound
<1> QED
  BY ONLY <1>4 DEF Val, Modulus, x2, x3

(* No two words stand for one number. *)
LEMMA ValInjective ==
  ASSUME NEW v \in Word, NEW w \in Word, Val(v) = Val(w)
  PROVE  v = w
<1> DEFINE v2 == v[2] + Limb * (v[3] + Limb * v[4])  v3 == v[3] + Limb * v[4]
           w2 == w[2] + Limb * (w[3] + Limb * w[4])  w3 == w[3] + Limb * w[4]
<1>1. /\ v[1] \in Nat /\ v[2] \in Nat /\ v[3] \in Nat /\ v[4] \in Nat
      /\ v[1] < Limb /\ v[2] < Limb /\ v[3] < Limb /\ v[4] < Limb
      /\ w[1] \in Nat /\ w[2] \in Nat /\ w[3] \in Nat /\ w[4] \in Nat
      /\ w[1] < Limb /\ w[2] < Limb /\ w[3] < Limb /\ w[4] < Limb
      /\ v = <<v[1], v[2], v[3], v[4]>> /\ w = <<w[1], w[2], w[3], w[4]>>
  BY WordLimbs
<1>2. v3 \in Nat /\ w3 \in Nat /\ v2 \in Nat /\ w2 \in Nat
  BY ONLY <1>1 DEF Limb
<1>3. v[1] + Limb * v2 = w[1] + Limb * w2
  BY DEF Val
<1>4. v2 = v[2] + Limb * v3 /\ w2 = w[2] + Limb * w3
  OBVIOUS
<1>5. v3 = v[3] + Limb * v[4] /\ w3 = w[3] + Limb * w[4]
  OBVIOUS
<1> HIDE DEF v2, v3, w2, w3
<1>6. v[1] = w[1] /\ v2 = w2
  BY ONLY <1>1, <1>2, <1>3, LimbsUnique
<1>7. v[2] = w[2] /\ v3 = w3
  BY ONLY <1>1, <1>2, <1>4, <1>6, LimbsUnique
<1>8. v[3] = w[3] /\ v[4] = w[4]
  BY ONLY <1>1, <1>5, <1>7, LimbsUnique
<1> QED
  BY ONLY <1>1, <1>6, <1>7, <1>8

(* Every number leaves a word... *)
LEMMA StandsExists ==
  ASSUME NEW x \in Nat
  PROVE  \E w : Stands(w, x)
<1> DEFINE x2 == x \div Limb
           x3 == x2 \div Limb
           x4 == x3 \div Limb
           q == x4 \div Limb
           w == <<x % Limb, x2 % Limb, x3 % Limb, x4 % Limb>>
<1>1. x2 \in Nat /\ x % Limb \in Nat /\ x % Limb < Limb /\ x = (x % Limb) + Limb * x2
  BY Limbs
<1> HIDE DEF x2
<1>2. x3 \in Nat /\ x2 % Limb \in Nat /\ x2 % Limb < Limb /\ x2 = (x2 % Limb) + Limb * x3
  BY <1>1, Limbs
<1> HIDE DEF x3
<1>3. x4 \in Nat /\ x3 % Limb \in Nat /\ x3 % Limb < Limb /\ x3 = (x3 % Limb) + Limb * x4
  BY <1>2, Limbs
<1> HIDE DEF x4
<1>4. q \in Nat /\ x4 % Limb \in Nat /\ x4 % Limb < Limb /\ x4 = (x4 % Limb) + Limb * q
  BY <1>3, Limbs
<1> HIDE DEF q
<1>5. w \in Word
  BY <1>1, <1>2, <1>3, <1>4, WordLimbs
<1>6. w[1] = x % Limb /\ w[2] = x2 % Limb /\ w[3] = x3 % Limb /\ w[4] = x4 % Limb
  OBVIOUS
<1> HIDE DEF w
<1>7. x = w[1] + Limb * (w[2] + Limb * (w[3] + Limb * (w[4] + Limb * q)))
  BY ONLY <1>1, <1>2, <1>3, <1>4, <1>6
<1>8. x = Val(w) + Modulus * q
  <2>1. w[1] \in Nat /\ w[2] \in Nat /\ w[3] \in Nat /\ w[4] \in Nat
    BY ONLY <1>1, <1>2, <1>3, <1>4, <1>6
  <2> QED
    BY ONLY <1>4, <1>7, <2>1, LimbType DEF Val, Modulus
<1> QED
  BY ONLY <1>4, <1>5, <1>8 DEF Stands

(* ... and only one. *)
LEMMA StandsUnique ==
  ASSUME NEW x \in Nat, NEW v, NEW w, Stands(v, x), Stands(w, x)
  PROVE  v = w
<1>1. v \in Word /\ w \in Word
  BY DEF Stands
<1>2. PICK p \in Nat : x = Val(v) + Modulus * p
  BY DEF Stands
<1>3. PICK q \in Nat : x = Val(w) + Modulus * q
  BY DEF Stands
<1>4. Val(v) \in Nat /\ Val(v) < Modulus /\ Val(w) \in Nat /\ Val(w) < Modulus
  BY ONLY <1>1, ValType
<1>5. Val(v) = Val(w)
  BY ONLY <1>2, <1>3, <1>4 DEF Modulus, Limb
<1> QED
  BY ONLY <1>1, <1>5, ValInjective

(* Addition of words is addition of what they stand for. *)
LEMMA PlusStands ==
  ASSUME NEW x \in Nat, NEW y \in Nat, NEW a, NEW b, Stands(a, x), Stands(b, y)
  PROVE  Stands(Plus(a, b), x + y)
<1> DEFINE s1 == a[1] + b[1]
           s2 == a[2] + b[2] + s1 \div Limb
           s3 == a[3] + b[3] + s2 \div Limb
           s4 == a[4] + b[4] + s3 \div Limb
           w == <<s1 % Limb, s2 % Limb, s3 % Limb, s4 % Limb>>
<1>1. /\ a[1] \in Nat /\ a[2] \in Nat /\ a[3] \in Nat /\ a[4] \in Nat
      /\ b[1] \in Nat /\ b[2] \in Nat /\ b[3] \in Nat /\ b[4] \in Nat
  BY WordLimbs DEF Stands, Limb
<1>2. Plus(a, b) = w
  BY DEF Plus
<1>3. /\ s1 \in Nat /\ s1 \div Limb \in Nat /\ s1 % Limb \in Nat /\ s1 % Limb < Limb
      /\ s1 = (s1 % Limb) + Limb * (s1 \div Limb)
  <2>1. s1 \in Nat
    BY ONLY <1>1
  <2> QED
    BY ONLY <2>1, Limbs
<1>4. /\ s2 \in Nat /\ s2 \div Limb \in Nat /\ s2 % Limb \in Nat /\ s2 % Limb < Limb
      /\ s2 = (s2 % Limb) + Limb * (s2 \div Limb) /\ s2 = a[2] + b[2] + s1 \div Limb
  <2> HIDE DEF s1
  <2>1. s2 \in Nat
    BY ONLY <1>1, <1>3
  <2> QED
    BY ONLY <2>1, Limbs
<1>5. /\ s3 \in Nat /\ s3 \div Limb \in Nat /\ s3 % Limb \in Nat /\ s3 % Limb < Limb
      /\ s3 = (s3 % Limb) + Limb * (s3 \div Limb) /\ s3 = a[3] + b[3] + s2 \div Limb
  <2> HIDE DEF s2
  <2>1. s3 \in Nat
    BY ONLY <1>1, <1>4
  <2> QED
    BY ONLY <2>1, Limbs
<1>6. /\ s4 \in Nat /\ s4 \div Limb \in Nat /\ s4 % Limb \in Nat /\ s4 % Limb < Limb
      /\ s4 = (s4 % Limb) + Limb * (s4 \div Limb) /\ s4 = a[4] + b[4] + s3 \div Limb
  <2> HIDE DEF s3
  <2>1. s4 \in Nat
    BY ONLY <1>1, <1>5
  <2> QED
    BY ONLY <2>1, Limbs
<1>7. s1 = a[1] + b[1]
  OBVIOUS
<1> HIDE DEF s1, s2, s3, s4
<1>8. /\ w \in Word /\ w[1] = s1 % Limb /\ w[2] = s2 % Limb /\ w[3] = s3 % Limb
      /\ w[4] = s4 % Limb
  BY <1>3, <1>4, <1>5, <1>6, WordLimbs
<1> HIDE DEF w
<1>9. Val(a) + Val(b) = Val(w) + Modulus * (s4 \div Limb)
  <2> DEFINE t1 == a[1] + b[1]  t2 == a[2] + b[2]  t3 == a[3] + b[3]  t4 == a[4] + b[4]
             c1 == s1 \div Limb  c2 == s2 \div Limb  c3 == s3 \div Limb  c4 == s4 \div Limb
             r1 == w[1]  r2 == w[2]  r3 == w[3]  r4 == w[4]
             y4 == r4 + Limb * c4
             y3 == r3 + Limb * y4
             y2 == r2 + Limb * y3
             x3 == t3 + Limb * t4
             x2 == t2 + Limb * x3
  <2>1. /\ r1 \in Nat /\ r2 \in Nat /\ r3 \in Nat /\ r4 \in Nat
        /\ c1 \in Nat /\ c2 \in Nat /\ c3 \in Nat /\ c4 \in Nat
        /\ t1 \in Nat /\ t2 \in Nat /\ t3 \in Nat /\ t4 \in Nat
    BY ONLY <1>1, <1>3, <1>4, <1>5, <1>6, <1>8
  <2>2. /\ t1 = r1 + Limb * c1 /\ t2 + c1 = r2 + Limb * c2
        /\ t3 + c2 = r3 + Limb * c3 /\ y4 = t4 + c3
    BY ONLY <1>1, <1>3, <1>4, <1>5, <1>6, <1>7, <1>8
  <2>3. Val(a) + Val(b) = t1 + Limb * x2
    BY ONLY <1>1, LimbType DEF Val
  <2>4. r1 + Limb * y2 = Val(w) + Modulus * c4
    BY ONLY <2>1, LimbType DEF Val, Modulus
  <2> HIDE DEF t1, t2, t3, t4, c1, c2, c3, c4, r1, r2, r3, r4, y4
  <2>5. y3 = x3 + c2
    BY ONLY <2>1, <2>2 DEF Limb
  <2>6. y3 \in Nat /\ x3 \in Nat
    BY ONLY <2>1, <2>5, LimbType
  <2> HIDE DEF y3, x3
  <2>7. y2 = x2 + c1
    BY ONLY <2>1, <2>2, <2>5, <2>6 DEF Limb
  <2>8. y2 \in Nat /\ x2 \in Nat
    BY ONLY <2>1, <2>6, <2>7, LimbType
  <2> HIDE DEF y2, x2
  <2>9. r1 + Limb * y2 = t1 + Limb * x2
    BY ONLY <2>1, <2>2, <2>7, <2>8 DEF Limb
  <2>10. Val(a) + Val(b) = Val(w) + Modulus * c4
    BY ONLY <2>3, <2>4, <2>9
  <2> QED
    BY ONLY <2>10 DEF c4
<1>10. PICK p \in Nat : x = Val(a) + Modulus * p
  BY DEF Stands
<1>11. PICK q \in Nat : y = Val(b) + Modulus * q
  BY DEF Stands
<1>12. Val(a) \in Nat /\ Val(b) \in Nat /\ Val(w) \in Nat /\ Modulus \in Nat
  BY <1>8, ValType DEF Stands, Modulus, Limb
<1> DEFINE n == p + q + s4 \div Limb
<1>13. n \in Nat
  BY ONLY <1>6, <1>10, <1>11
<1>14. x + y = Val(w) + Modulus * n
  <2> HIDE DEF n
  <2>1. n = p + q + s4 \div Limb
    BY DEF n
  <2> QED
    BY ONLY <1>6, <1>9, <1>10, <1>11, <1>12, <2>1 DEF Modulus, Limb
<1> HIDE DEF n
<1> QED
  BY ONLY <1>2, <1>8, <1>13, <1>14 DEF Stands

(* A number of one limb stands for itself. *)
LEMMA SmallStands ==
  ASSUME NEW n \in Nat, n < Limb
  PROVE  Stands(Small(n), n)
<1>1. Small(n) \in Word
  <2>1. 0 < Limb
    BY DEF Limb
  <2> QED
    BY <2>1, WordLimbs DEF Small
<1>2. Val(Small(n)) = n
  <2>1. Small(n)[1] = n /\ Small(n)[2] = 0 /\ Small(n)[3] = 0 /\ Small(n)[4] = 0
    BY DEF Small
  <2> QED
    BY ONLY <2>1, LimbType, n \in Nat DEF Val
<1>3. n = Val(Small(n)) + Modulus * 0
  BY ONLY <1>2, LimbType, n \in Nat DEF Modulus
<1> QED
  BY ONLY <1>1, <1>3 DEF Stands

-----------------------------------------------------------------------------
(* The product with a constant.                                            *)

(* One step of the doubling in Times. *)
Doubled(a, n, half) ==
  IF n = 0 THEN Small(0)
  ELSE IF n % 2 = 1 THEN Plus(Plus(half, half), a) ELSE Plus(half, half)

(* Halving leads to a smaller number, and doubling back. *)
LEMMA Halves ==
  ASSUME NEW n \in Nat
  PROVE  /\ n \div 2 \in Nat /\ (n # 0 => n \div 2 < n)
         /\ \/ n % 2 = 1 /\ n = 2 * (n \div 2) + 1
            \/ n % 2 = 0 /\ n = 2 * (n \div 2)
OBVIOUS

(* No step but to multiply. *)
LEMMA DoubledStands ==
  ASSUME NEW v \in Nat, NEW a, Stands(a, v), NEW n \in Nat, NEW half,
         Stands(half, (n \div 2) * v)
  PROVE  Stands(Doubled(a, n, half), n * v)
<1> DEFINE h == n \div 2
           x == h * v
<1>1. h \in Nat /\ x \in Nat
  BY Halves
<1>2. \/ n % 2 = 1 /\ n = 2 * h + 1
      \/ n % 2 = 0 /\ n = 2 * h
  BY Halves
<1>3. x = h * v /\ Stands(half, x)
  OBVIOUS
<1> HIDE DEF h, x
<1>4. Stands(Plus(half, half), x + x) /\ x + x \in Nat
  BY <1>1, <1>3, PlusStands
<1>5. Stands(Plus(Plus(half, half), a), (x + x) + v)
  BY <1>4, PlusStands
<1>6. CASE n = 0
  <2>1. n * v = 0
    BY <1>6
  <2>2. Stands(Small(0), 0)
    BY SmallStands DEF Limb
  <2> QED
    BY <1>6, <2>1, <2>2 DEF Doubled
<1>7. CASE n # 0 /\ n % 2 = 1
  <2>1. n * v = (x + x) + v
    BY <1>1, <1>2, <1>3, <1>7
  <2> QED
    BY <1>5, <1>7, <2>1 DEF Doubled
<1>8. CASE n # 0 /\ n % 2 = 0
  <2>1. n * v = x + x
    BY <1>1, <1>2, <1>3, <1>8
  <2> QED
    BY <1>4, <1>8, <2>1 DEF Doubled
<1> QED
  BY <1>2, <1>6, <1>7, <1>8

(* Multiplication by doubling is multiplication: the recursion has one     *)
(* solution, and it leaves the product in a word.                          *)
LEMMA TimesStands ==
  ASSUME NEW v \in Nat, NEW a, Stands(a, v), NEW k \in Nat
  PROVE  Stands(Times(a, k), k * v)
<1> DEFINE f == [n \in Nat |-> CHOOSE w : Stands(w, n * v)]
           g == CHOOSE p : p = [n \in Nat |-> Doubled(a, n, p[n \div 2])]
<1>1. ASSUME NEW n \in Nat
      PROVE  Stands(f[n], n * v) /\ n * v \in Nat
  <2>1. n * v \in Nat
    OBVIOUS
  <2> QED
    BY <2>1, StandsExists
<1> HIDE DEF f
<1>2. ASSUME NEW n \in Nat
      PROVE  f[n] = Doubled(a, n, f[n \div 2])
  <2>1. Stands(f[n \div 2], (n \div 2) * v)
    BY <1>1, Halves
  <2>2. Stands(Doubled(a, n, f[n \div 2]), n * v)
    BY <2>1, DoubledStands
  <2> QED
    BY <1>1, <2>2, StandsUnique
<1>3. f = [n \in Nat |-> Doubled(a, n, f[n \div 2])]
  <2>1. f = [n \in Nat |-> f[n]]
    BY DEF f
  <2> QED
    BY <1>2, <2>1
<1>4. g = [n \in Nat |-> Doubled(a, n, g[n \div 2])]
  BY <1>3
<1> HIDE DEF g
<1>5. \A n \in Nat : g[n] = Doubled(a, n, g[n \div 2])
  BY <1>4
<1> DEFINE S == {m \in Nat : \A n \in 0..m : Stands(g[n], n * v)}
<1>6. ASSUME NEW n \in Nat, n # 0 => Stands(g[n \div 2], (n \div 2) * v)
      PROVE  Stands(g[n], n * v)
  <2>1. CASE n # 0
    BY <1>5, <1>6, <2>1, DoubledStands
  <2>2. CASE n = 0
    BY <1>1, <1>2, <1>5, <2>2 DEF Doubled
  <2> QED
    BY <2>1, <2>2
<1>7. 0 \in S
  BY <1>6
<1>8. ASSUME NEW m \in Nat, m \in S
      PROVE  m + 1 \in S
  <2>1. Stands(g[m + 1], (m + 1) * v)
    <3>1. m + 1 \in Nat /\ (m + 1) \div 2 \in 0..m
      BY Halves
    <3> QED
      BY <1>6, <1>8, <3>1
  <2>2. m + 1 \in Nat /\ \A n \in 0..(m + 1) : n \in 0..m \/ n = m + 1
    OBVIOUS
  <2> QED
    BY <1>8, <2>1, <2>2
<1> HIDE DEF S
<1>9. k \in S
  BY <1>7, <1>8, SetInduction
<1>10. Stands(g[k], k * v)
  BY <1>9 DEF S
<1>11. Times(a, k) = g[k]
  BY DEF Times, g, Doubled
<1> QED
  BY <1>10, <1>11

-----------------------------------------------------------------------------
(* The comparison.                                                         *)

(* With the sign bit flipped, words are ordered as numbers. *)
Flipped(x) == (x + Limb \div 2) % Limb
Order(w) == w[1] + Limb * (w[2] + Limb * (w[3] + Limb * Flipped(w[4])))
SignBit == Limb * (Limb * (Limb * (Limb \div 2)))

(* What flipping the sign bit does to the last limb. *)
LEMMA FlippedLimb ==
  ASSUME NEW x \in Nat, x < Limb
  PROVE  /\ Flipped(x) \in Nat /\ Flipped(x) < Limb
         /\ x >= Limb \div 2 => x = Flipped(x) + Limb \div 2
         /\ ~(x >= Limb \div 2) => Flipped(x) = x + Limb \div 2
BY DEF Flipped, Limb

(* The more significant limbs decide. *)
LEMMA LimbOrder ==
  ASSUME NEW a \in Nat, NEW b \in Nat, a < Limb, b < Limb, NEW c \in Nat, NEW d \in Nat
  PROVE  a + Limb * c > b + Limb * d <=> c > d \/ (c = d /\ a > b)
BY DEF Limb

(* Order is the number that a word stands for, less or more the sign bit. *)
LEMMA OrderOfSign ==
  ASSUME NEW w \in Word
  PROVE  /\ Order(w) \in Nat /\ SignBit \in Nat /\ Modulus = SignBit + SignBit
         /\ Negative(w) => Val(w) = Order(w) + SignBit
         /\ ~Negative(w) => Order(w) = Val(w) + SignBit
<1>1. /\ w[1] \in Nat /\ w[2] \in Nat /\ w[3] \in Nat /\ w[4] \in Nat
      /\ Flipped(w[4]) \in Nat
      /\ w[4] >= Limb \div 2 => w[4] = Flipped(w[4]) + Limb \div 2
      /\ ~(w[4] >= Limb \div 2) => Flipped(w[4]) = w[4] + Limb \div 2
  BY WordLimbs, FlippedLimb
<1> DEFINE h == Limb \div 2
           r1 == w[1]  r2 == w[2]  r3 == w[3]  r4 == w[4]  f == Flipped(w[4])
<1>2. /\ r1 \in Nat /\ r2 \in Nat /\ r3 \in Nat /\ r4 \in Nat /\ f \in Nat
      /\ r4 >= h => r4 = f + h
      /\ ~(r4 >= h) => f = r4 + h
  BY ONLY <1>1
<1>3. /\ Val(w) = r1 + Limb * (r2 + Limb * (r3 + Limb * r4))
      /\ Order(w) = r1 + Limb * (r2 + Limb * (r3 + Limb * f))
      /\ SignBit = Limb * (Limb * (Limb * h)) /\ (Negative(w) <=> r4 >= h)
  BY DEF Val, Order, SignBit, Negative
<1>4. h \in Nat /\ Limb = h + h
  BY DEF Limb
<1> HIDE DEF h, r1, r2, r3, r4, f
<1>5. Order(w) \in Nat /\ SignBit \in Nat
  BY ONLY <1>2, <1>3, <1>4, LimbType
<1>6. Modulus = SignBit + SignBit
  BY ONLY <1>3, <1>4, LimbType DEF Modulus
<1>7. ASSUME NEW x \in Nat
      PROVE  r1 + Limb * (r2 + Limb * (r3 + Limb * (x + h)))
               = (r1 + Limb * (r2 + Limb * (r3 + Limb * x))) + SignBit
  BY ONLY <1>2, <1>3, <1>4, LimbType
<1>8. ASSUME r4 >= h
      PROVE  Val(w) = Order(w) + SignBit
  <2>1. r4 = f + h
    BY ONLY <1>2, <1>8
  <2> QED
    BY ONLY <1>2, <1>3, <1>7, <2>1
<1>9. ASSUME ~(r4 >= h)
      PROVE  Order(w) = Val(w) + SignBit
  <2>1. f = r4 + h
    BY ONLY <1>2, <1>9
  <2> QED
    BY ONLY <1>2, <1>3, <1>7, <2>1
<1> QED
  BY ONLY <1>3, <1>5, <1>6, <1>8, <1>9

(* Greater compares the orders. *)
LEMMA GreaterIsOrder ==
  ASSUME NEW a \in Word, NEW b \in Word
  PROVE  Greater(a, b) <=> Order(a) > Order(b)
<1> DEFINE k(w) == [w EXCEPT ![4] = (@ + Limb \div 2) % Limb]
<1>1. \A w \in Word : /\ k(w)[1] = w[1] /\ k(w)[2] = w[2] /\ k(w)[3] = w[3]
                      /\ k(w)[4] = Flipped(w[4])
  BY DEF Word, Flipped
<1>2. Greater(a, b) <=> \E i \in 1..4 : /\ k(a)[i] > k(b)[i]
                                        /\ \A j \in (i + 1)..4 : k(a)[j] = k(b)[j]
  BY DEF Greater
<1> HIDE DEF k
<1>3. /\ \A i : i \in 1..4 <=> i = 1 \/ i = 2 \/ i = 3 \/ i = 4
      /\ \A j : j \in (1 + 1)..4 <=> j = 2 \/ j = 3 \/ j = 4
      /\ \A j : j \in (2 + 1)..4 <=> j = 3 \/ j = 4
      /\ \A j : j \in (3 + 1)..4 <=> j = 4
      /\ \A j : j \notin (4 + 1)..4
  OBVIOUS
<1>4. Greater(a, b) <=>
        \/ k(a)[4] > k(b)[4]
        \/ k(a)[4] = k(b)[4] /\ k(a)[3] > k(b)[3]
        \/ k(a)[4] = k(b)[4] /\ k(a)[3] = k(b)[3] /\ k(a)[2] > k(b)[2]
        \/ k(a)[4] = k(b)[4] /\ k(a)[3] = k(b)[3] /\ k(a)[2] = k(b)[2] /\ k(a)[1] > k(b)[1]
  BY ONLY <1>2, <1>3
<1> DEFINE a4 == Flipped(a[4])  b4 == Flipped(b[4])
           a3 == a[3] + Limb * a4  b3 == b[3] + Limb * b4
           a2 == a[2] + Limb * a3  b2 == b[2] + Limb * b3
<1>5. /\ a[1] \in Nat /\ a[2] \in Nat /\ a[3] \in Nat /\ a4 \in Nat
      /\ b[1] \in Nat /\ b[2] \in Nat /\ b[3] \in Nat /\ b4 \in Nat
      /\ a[1] < Limb /\ a[2] < Limb /\ a[3] < Limb
      /\ b[1] < Limb /\ b[2] < Limb /\ b[3] < Limb
  BY WordLimbs, FlippedLimb
<1>6. Order(a) = a[1] + Limb * a2 /\ Order(b) = b[1] + Limb * b2
  BY DEF Order
<1> HIDE DEF a4, b4
<1>7. /\ a3 \in Nat /\ b3 \in Nat
      /\ a3 > b3 <=> a4 > b4 \/ (a4 = b4 /\ a[3] > b[3])
      /\ a3 = b3 => a[3] = b[3] /\ a4 = b4
      /\ a[3] = b[3] /\ a4 = b4 => a3 = b3
  BY ONLY <1>5, LimbType, LimbOrder, LimbsUnique
<1> HIDE DEF a3, b3
<1>8. /\ a2 \in Nat /\ b2 \in Nat
      /\ a2 > b2 <=> a3 > b3 \/ (a3 = b3 /\ a[2] > b[2])
      /\ a2 = b2 => a[2] = b[2] /\ a3 = b3
      /\ a[2] = b[2] /\ a3 = b3 => a2 = b2
  BY ONLY <1>5, <1>7, LimbType, LimbOrder, LimbsUnique
<1> HIDE DEF a2, b2
<1>9. Order(a) > Order(b) <=> a2 > b2 \/ (a2 = b2 /\ a[1] > b[1])
  BY ONLY <1>5, <1>6, <1>8, LimbType, LimbOrder
<1> QED
  BY <1>1, <1>4, <1>7, <1>8, <1>9 DEF a4, b4

(* Words without a sign are compared as numbers, and one with a sign is    *)
(* never greater.                                                          *)
LEMMA GreaterOfSign ==
  ASSUME NEW a \in Word, NEW b \in Word, ~Negative(b)
  PROVE  /\ ~Negative(a) => (Greater(a, b) <=> Val(a) > Val(b))
         /\ Negative(a) => ~Greater(a, b)
<1>1. /\ Order(a) \in Nat /\ Order(b) \in Nat /\ SignBit \in Nat
      /\ Modulus = SignBit + SignBit
      /\ Negative(a) => Val(a) = Order(a) + SignBit
      /\ ~Negative(a) => Order(a) = Val(a) + SignBit
      /\ Order(b) = Val(b) + SignBit
  BY OrderOfSign
<1>2. Val(a) \in Nat /\ Val(b) \in Nat /\ Val(a) < Modulus
  BY ValType
<1>3. Greater(a, b) <=> Order(a) > Order(b)
  BY GreaterIsOrder
<1> QED
  BY ONLY <1>1, <1>2, <1>3

(* A word has a sign when it stands for half of the modulus or more. *)
LEMMA SignIsHalf ==
  ASSUME NEW w \in Word
  PROVE  Negative(w) <=> Val(w) >= SignBit
<1>1. /\ Order(w) \in Nat /\ SignBit \in Nat /\ Modulus = SignBit + SignBit
      /\ Negative(w) => Val(w) = Order(w) + SignBit
      /\ ~Negative(w) => Order(w) = Val(w) + SignBit
  BY OrderOfSign
<1>2. Order(w) < Modulus
  <2> DEFINE f == Flipped(w[4])
             u == <<w[1], w[2], w[3], f>>
  <2>1. f \in Nat /\ f < Limb /\ w[1] \in Nat /\ w[2] \in Nat /\ w[3] \in Nat
        /\ w[1] < Limb /\ w[2] < Limb /\ w[3] < Limb
    BY WordLimbs, FlippedLimb
  <2>2. Order(w) = Val(u)
    BY DEF Order, Val
  <2> HIDE DEF f
  <2>3. u \in Word
    BY ONLY <2>1, WordLimbs
  <2> QED
    BY ONLY <2>2, <2>3, ValType
<1>3. Val(w) \in Nat
  BY ValType
<1> QED
  BY ONLY <1>1, <1>2, <1>3

-----------------------------------------------------------------------------
(* Fibonacci's numbers.                                                    *)

(* utils.Fibonacci, with integers that have no end. *)
Fibonacci[n \in Nat] ==
  IF n <= 1 THEN n ELSE Fibonacci[n - 1] + Fibonacci[n - 2]

(* The recursion has a solution: the pairs that addition moves along.      *)
LEMMA FibonacciDef ==
  /\ Fibonacci[0] = 0 /\ Fibonacci[1] = 1
  /\ \A n \in Nat : Fibonacci[n] \in Nat
  /\ \A n \in Nat : Fibonacci[n + 2] = Fibonacci[n + 1] + Fibonacci[n]
<1> DEFINE step == [p \in Nat \X Nat |-> <<p[2], p[1] + p[2]>>]
<1>1. \A p \in Nat \X Nat : step[p] = <<p[2], p[1] + p[2]>> /\ step[p] \in Nat \X Nat
  OBVIOUS
<1> DEFINE x == <<0, 1>>
<1>0. x \in Nat \X Nat /\ x[1] = 0 /\ x[2] = 1
  OBVIOUS
<1> HIDE DEF step, x
<1> PICK f : Iterates(f, x, step)
  BY Iteration
<1>2. f[0] = x /\ \A n \in Nat : f[n + 1] = step[f[n]]
  BY DEF Iterates
<1> DEFINE S == {n \in Nat : f[n] \in Nat \X Nat}
<1>3. 0 \in S
  BY <1>0, <1>2
<1>4. ASSUME NEW n \in Nat, n \in S
      PROVE  n + 1 \in S
  BY <1>1, <1>2, <1>4
<1> HIDE DEF S
<1>5. \A n \in Nat : n \in S
  BY <1>3, <1>4, SetInduction
<1>6. \A n \in Nat : f[n] \in Nat \X Nat
  BY <1>5 DEF S
<1> DEFINE F == [n \in Nat |-> f[n][1]]
<1>7. F[0] = 0 /\ F[1] = 1 /\ \A n \in Nat : F[n] \in Nat
  <2>1. f[0 + 1] = step[x]
    BY <1>2
  <2>2. f[1] = <<x[2], x[1] + x[2]>>
    BY <1>0, <1>1, <2>1
  <2>3. f[1][1] = x[2] /\ f[0][1] = x[1]
    BY <1>2, <2>2
  <2>4. \A n \in Nat : F[n] = f[n][1]
    OBVIOUS
  <2>5. F[0] = f[0][1] /\ F[1] = f[1][1]
    BY <2>4
  <2> HIDE DEF F
  <2> QED
    BY <1>0, <1>6, <2>3, <2>4, <2>5
<1>8. ASSUME NEW n \in Nat
      PROVE  F[n + 2] = F[n + 1] + F[n]
  <2>1. n + 1 \in Nat /\ n + 2 \in Nat /\ (n + 1) + 1 = n + 2
    OBVIOUS
  <2>2. f[n + 1] = <<f[n][2], f[n][1] + f[n][2]>>
    BY <1>1, <1>2, <1>6
  <2>3. f[n + 2] = <<f[n + 1][2], f[n + 1][1] + f[n + 1][2]>>
    BY <1>1, <1>2, <1>6, <2>1
  <2> QED
    BY <1>6, <2>1, <2>2, <2>3
<1>9. F = [n \in Nat |-> IF n <= 1 THEN n ELSE F[n - 1] + F[n - 2]]
  <2>1. ASSUME NEW n \in Nat
        PROVE  F[n] = IF n <= 1 THEN n ELSE F[n - 1] + F[n - 2]
    <3>1. CASE n <= 1
      <4>1. n = 0 \/ n = 1
        BY <3>1
      <4> QED
        BY <1>7, <3>1, <4>1
    <3>2. CASE n > 1
      <4>1. n - 2 \in Nat /\ (n - 2) + 2 = n /\ (n - 2) + 1 = n - 1
        BY <3>2
      <4> HIDE DEF F
      <4>2. F[n] = F[n - 1] + F[n - 2]
        BY <1>8, <4>1
      <4> QED
        BY <3>2, <4>2
    <3> QED
      BY <3>1, <3>2
  <2>2. F = [n \in Nat |-> F[n]]
    OBVIOUS
  <2> HIDE DEF F
  <2> QED
    BY <2>1, <2>2
<1> HIDE DEF F
<1>10. Fibonacci = [n \in Nat |-> IF n <= 1 THEN n ELSE Fibonacci[n - 1] + Fibonacci[n - 2]]
  BY <1>9 DEF Fibonacci
<1>11. ASSUME NEW n \in Nat
       PROVE  Fibonacci[n] = IF n <= 1 THEN n ELSE Fibonacci[n - 1] + Fibonacci[n - 2]
  BY <1>10
<1>12. Fibonacci[0] = 0 /\ Fibonacci[1] = 1
  BY <1>11
<1>13. ASSUME NEW n \in Nat
       PROVE  Fibonacci[n + 2] = Fibonacci[n + 1] + Fibonacci[n]
  <2>1. n + 2 \in Nat /\ ~(n + 2 <= 1) /\ (n + 2) - 1 = n + 1 /\ (n + 2) - 2 = n
    OBVIOUS
  <2> QED
    BY <1>11, <2>1
<1> DEFINE T == {n \in Nat : Fibonacci[n] \in Nat /\ Fibonacci[n + 1] \in Nat}
<1>14. 0 \in T
  <2>1. 0 + 1 = 1
    OBVIOUS
  <2> QED
    BY <1>12, <2>1
<1>15. ASSUME NEW n \in Nat, n \in T
       PROVE  n + 1 \in T
  <2>1. (n + 1) + 1 = n + 2 /\ n + 1 \in Nat
    OBVIOUS
  <2> QED
    BY <1>13, <1>15, <2>1
<1> HIDE DEF T
<1>16. \A n \in Nat : n \in T
  BY <1>14, <1>15, SetInduction
<1> QED
  BY <1>12, <1>13, <1>16 DEF T

(* Ten numbers further. *)
LEMMA TenFurther ==
  ASSUME NEW n \in Nat
  PROVE  /\ Fibonacci[n + 10] = 34 * Fibonacci[n] + 55 * Fibonacci[n + 1]
         /\ Fibonacci[n + 11] = 55 * Fibonacci[n] + 89 * Fibonacci[n + 1]
<1> DEFINE a == Fibonacci[n]  b == Fibonacci[n + 1]
<1>0. /\ n + 1 \in Nat /\ n + 2 \in Nat /\ n + 3 \in Nat /\ n + 4 \in Nat /\ n + 5 \in Nat
      /\ n + 6 \in Nat /\ n + 7 \in Nat /\ n + 8 \in Nat /\ n + 9 \in Nat
      /\ (n + 1) + 1 = n + 2 /\ (n + 1) + 2 = n + 3 /\ (n + 2) + 1 = n + 3 /\ (n + 2) + 2 = n + 4
      /\ (n + 3) + 1 = n + 4 /\ (n + 3) + 2 = n + 5 /\ (n + 4) + 1 = n + 5 /\ (n + 4) + 2 = n + 6
      /\ (n + 5) + 1 = n + 6 /\ (n + 5) + 2 = n + 7 /\ (n + 6) + 1 = n + 7 /\ (n + 6) + 2 = n + 8
      /\ (n + 7) + 1 = n + 8 /\ (n + 7) + 2 = n + 9 /\ (n + 8) + 1 = n + 9 /\ (n + 8) + 2 = n + 10
      /\ (n + 9) + 1 = n + 10 /\ (n + 9) + 2 = n + 11
  OBVIOUS
<1>1. a \in Nat /\ b \in Nat
  BY <1>0, FibonacciDef
<1>2. Fibonacci[n + 2] = a + b
  BY <1>1, FibonacciDef
<1>3. Fibonacci[n + 3] = a + 2 * b
  BY <1>0, <1>1, <1>2, FibonacciDef
<1> HIDE DEF a, b
<1>4. Fibonacci[n + 4] = 2 * a + 3 * b
  BY ONLY <1>0, <1>1, <1>2, <1>3, FibonacciDef
<1>5. Fibonacci[n + 5] = 3 * a + 5 * b
  BY ONLY <1>0, <1>1, <1>3, <1>4, FibonacciDef
<1>6. Fibonacci[n + 6] = 5 * a + 8 * b
  BY ONLY <1>0, <1>1, <1>4, <1>5, FibonacciDef
<1>7. Fibonacci[n + 7] = 8 * a + 13 * b
  BY ONLY <1>0, <1>1, <1>5, <1>6, FibonacciDef
<1>8. Fibonacci[n + 8] = 13 * a + 21 * b
  BY ONLY <1>0, <1>1, <1>6, <1>7, FibonacciDef
<1>9. Fibonacci[n + 9] = 21 * a + 34 * b
  BY ONLY <1>0, <1>1, <1>7, <1>8, FibonacciDef
<1>10. Fibonacci[n + 10] = 34 * a + 55 * b
  BY ONLY <1>0, <1>1, <1>8, <1>9, FibonacciDef
<1>11. Fibonacci[n + 11] = 55 * a + 89 * b
  BY ONLY <1>0, <1>1, <1>9, <1>10, FibonacciDef
<1> QED
  BY <1>10, <1>11 DEF a, b

(* The numbers up to the cap, and those around the overflow.               *)
LEMMA FibonacciTable ==
  /\ Fibonacci[1] = 1 /\ Fibonacci[2] = 1 /\ Fibonacci[3] = 2 /\ Fibonacci[4] = 3
  /\ Fibonacci[5] = 5 /\ Fibonacci[6] = 8 /\ Fibonacci[7] = 13
  /\ Fibonacci[49] = 7778742049 /\ Fibonacci[50] = 12586269025
<1>1. Fibonacci[0] = 0 /\ Fibonacci[1] = 1
  BY FibonacciDef
<1>2. /\ Fibonacci[0 + 2] = Fibonacci[0 + 1] + Fibonacci[0]
      /\ Fibonacci[1 + 2] = Fibonacci[1 + 1] + Fibonacci[1]
      /\ Fibonacci[2 + 2] = Fibonacci[2 + 1] + Fibonacci[2]
      /\ Fibonacci[3 + 2] = Fibonacci[3 + 1] + Fibonacci[3]
      /\ Fibonacci[4 + 2] = Fibonacci[4 + 1] + Fibonacci[4]
      /\ Fibonacci[5 + 2] = Fibonacci[5 + 1] + Fibonacci[5]
      /\ Fibonacci[48 + 2] = Fibonacci[48 + 1] + Fibonacci[48]
  BY FibonacciDef
<1>3. /\ Fibonacci[2] = 1 /\ Fibonacci[3] = 2 /\ Fibonacci[4] = 3
      /\ Fibonacci[5] = 5 /\ Fibonacci[6] = 8 /\ Fibonacci[7] = 13
  BY ONLY <1>1, <1>2
<1>4. Fibonacci[8] = 21 /\ Fibonacci[9] = 34
  <2>1. /\ Fibonacci[6 + 2] = Fibonacci[6 + 1] + Fibonacci[6]
        /\ Fibonacci[7 + 2] = Fibonacci[7 + 1] + Fibonacci[7]
    BY FibonacciDef
  <2> QED
    BY ONLY <1>3, <2>1
<1>5. Fibonacci[18] = 2584 /\ Fibonacci[19] = 4181
  <2>1. /\ Fibonacci[8 + 10] = 34 * Fibonacci[8] + 55 * Fibonacci[8 + 1]
        /\ Fibonacci[8 + 11] = 55 * Fibonacci[8] + 89 * Fibonacci[8 + 1]
    BY TenFurther
  <2> QED
    BY ONLY <1>4, <2>1
<1>6. Fibonacci[28] = 317811 /\ Fibonacci[29] = 514229
  <2>1. /\ Fibonacci[18 + 10] = 34 * Fibonacci[18] + 55 * Fibonacci[18 + 1]
        /\ Fibonacci[18 + 11] = 55 * Fibonacci[18] + 89 * Fibonacci[18 + 1]
    BY TenFurther
  <2> QED
    BY ONLY <1>5, <2>1
<1>7. Fibonacci[38] = 39088169 /\ Fibonacci[39] = 63245986
  <2>1. /\ Fibonacci[28 + 10] = 34 * Fibonacci[28] + 55 * Fibonacci[28 + 1]
        /\ Fibonacci[28 + 11] = 55 * Fibonacci[28] + 89 * Fibonacci[28 + 1]
    BY TenFurther
  <2> QED
    BY ONLY <1>6, <2>1
<1>8. Fibonacci[48] = 4807526976 /\ Fibonacci[49] = 7778742049
  <2>1. /\ Fibonacci[38 + 10] = 34 * Fibonacci[38] + 55 * Fibonacci[38 + 1]
        /\ Fibonacci[38 + 11] = 55 * Fibonacci[38] + 89 * Fibonacci[38 + 1]
    BY TenFurther
  <2> QED
    BY ONLY <1>7, <2>1
<1> QED
  BY ONLY <1>1, <1>2, <1>3, <1>8

(* They never decrease. *)
LEMMA FibonacciGrows ==
  \A m, n \in Nat : m <= n => Fibonacci[m] <= Fibonacci[n]
<1>1. ASSUME NEW m \in Nat
      PROVE  \A n \in Nat : m <= n => Fibonacci[m] <= Fibonacci[n]
  <2> DEFINE S == {n \in Nat : m <= n => Fibonacci[m] <= Fibonacci[n]}
  <2>1. 0 \in S
    BY FibonacciDef
  <2>2. ASSUME NEW n \in Nat, n \in S
        PROVE  n + 1 \in S
    <3>1. Fibonacci[n] <= Fibonacci[n + 1]
      <4>1. CASE n = 0
        BY <4>1, FibonacciDef
      <4>2. CASE n # 0
        <5>1. n - 1 \in Nat /\ (n - 1) + 2 = n + 1 /\ (n - 1) + 1 = n
          BY <4>2
        <5>2. Fibonacci[n + 1] = Fibonacci[n] + Fibonacci[n - 1]
          BY <5>1, FibonacciDef
        <5>3. Fibonacci[n] \in Nat /\ Fibonacci[n - 1] \in Nat
          BY <5>1, FibonacciDef
        <5> QED
          BY ONLY <5>2, <5>3
      <4> QED
        BY <4>1, <4>2
    <3>2. n + 1 \in Nat /\ (m <= n + 1 => m <= n \/ m = n + 1)
      OBVIOUS
    <3>3. Fibonacci[m] \in Nat /\ Fibonacci[n] \in Nat /\ Fibonacci[n + 1] \in Nat
      BY <3>2, FibonacciDef
    <3> QED
      BY <2>2, <3>1, <3>2, <3>3
  <2> HIDE DEF S
  <2>3. \A n \in Nat : n \in S
    BY <2>1, <2>2, SetInduction
  <2> QED
    BY <2>3 DEF S
<1> QED
  BY <1>1

-----------------------------------------------------------------------------
(* The waits.                                                              *)

(* The pair of the model has what utils.Fibonacci computes with 64 bits.   *)
FibonacciWords ==
  /\ Stands(fib[1], Fibonacci[retryCount])
  /\ Stands(fib[2], Fibonacci[retryCount + 1])

IndInv == TypeOK /\ FibonacciWords

(* The first pair has the first two numbers. *)
LEMMA InitInv == Init => IndInv
<1> SUFFICES ASSUME Init
             PROVE  IndInv
  OBVIOUS
<1>1. retryCount = 0 /\ fib[1] = Small(0) /\ fib[2] = Small(1) /\ fib = <<fib[1], fib[2]>>
  BY DEF Init
<1>2. Stands(Small(0), 0) /\ Stands(Small(1), 1)
  BY SmallStands DEF Limb
<1>3. FibonacciWords
  <2>1. 0 + 1 = 1 /\ Fibonacci[0] = 0 /\ Fibonacci[1] = 1
    BY FibonacciDef
  <2> QED
    BY ONLY <1>1, <1>2, <2>1 DEF FibonacciWords
<1>4. TypeOK
  <2>1. fib[1] \in Word /\ fib[2] \in Word
    BY <1>3 DEF FibonacciWords, Stands
  <2> HIDE DEF Word
  <2>2. fib \in Word \X Word
    BY ONLY <1>1, <2>1
  <2> QED
    BY ONLY <1>1, <2>2, MaxRetryAssumption DEF TypeOK
<1> QED
  BY <1>3, <1>4 DEF IndInv

(* The addition of NextFibonacci is the one of the recursion. *)
LEMMA StepInv == IndInv /\ [Next]_vars => IndInv'
<1> SUFFICES ASSUME IndInv, [Next]_vars
             PROVE  IndInv'
  OBVIOUS
<1>1. CASE NextRetry
  <2>1. /\ retryCount \in Nat /\ retryCount < MaxRetry /\ retryCount' = retryCount + 1
        /\ fib'[1] = fib[2] /\ fib'[2] = Plus(fib[1], fib[2]) /\ fib' = <<fib'[1], fib'[2]>>
    BY <1>1, MaxRetryAssumption DEF NextRetry, NextFibonacci, IndInv, TypeOK
  <2>2. /\ Fibonacci[retryCount] \in Nat /\ Fibonacci[retryCount + 1] \in Nat
        /\ Fibonacci[retryCount + 2] = Fibonacci[retryCount + 1] + Fibonacci[retryCount]
        /\ (retryCount + 1) + 1 = retryCount + 2
    <3>1. retryCount + 1 \in Nat /\ (retryCount + 1) + 1 = retryCount + 2
      BY <2>1
    <3> QED
      BY <2>1, <3>1, FibonacciDef
  <2>3. Stands(fib[1], Fibonacci[retryCount]) /\ Stands(fib[2], Fibonacci[retryCount + 1])
    BY DEF IndInv, FibonacciWords
  <2>4. Stands(Plus(fib[1], fib[2]), Fibonacci[retryCount] + Fibonacci[retryCount + 1])
    BY ONLY <2>2, <2>3, PlusStands
  <2>5. Fibonacci[retryCount + 2] = Fibonacci[retryCount] + Fibonacci[retryCount + 1]
    BY ONLY <2>2
  <2>6. FibonacciWords'
    BY ONLY <2>1, <2>2, <2>3, <2>4, <2>5 DEF FibonacciWords
  <2>7. TypeOK'
    <3>1. fib'[1] \in Word /\ fib'[2] \in Word
      BY ONLY <2>6 DEF FibonacciWords, Stands
    <3> HIDE DEF Word
    <3>2. fib' \in Word \X Word
      BY ONLY <2>1, <3>1
    <3> QED
      BY ONLY <2>1, <3>2, MaxRetryAssumption DEF TypeOK
  <2> QED
    BY <2>6, <2>7 DEF IndInv
<1>2. CASE UNCHANGED vars
  BY <1>2 DEF vars, IndInv, TypeOK, FibonacciWords
<1> QED
  BY <1>1, <1>2 DEF Next

(* The inductive invariant holds in every reachable state. *)
LEMMA Invariant == Spec => []IndInv
BY InitInv, StepInv, PTL DEF Spec

(* However many retries: both terms stay 64-bit words (utils.Fibonacci). *)
THEOREM TermsAreWords == Spec => []TypeOK
<1>1. IndInv => TypeOK
  BY DEF IndInv
<1> QED
  BY <1>1, Invariant, PTL

(* However many retries: what the additions leave in 64 bits is what the   *)
(* recursion of utils.Fibonacci would, number by number.                   *)
THEOREM AdditionsAreFibonacci == Spec => []FibonacciWords
<1>1. IndInv => FibonacciWords
  BY DEF IndInv
<1> QED
  BY <1>1, Invariant, PTL

(* A product that fits in 64 bits is in its word. *)
LEMMA FittingProduct ==
  ASSUME NEW v \in Nat, NEW a, Stands(a, v), Second * v < Modulus
  PROVE  Times(a, Second) \in Word /\ Val(Times(a, Second)) = Second * v
<1>1. Second \in Nat
  BY DEF Second
<1>2. Stands(Times(a, Second), Second * v)
  BY <1>1, TimesStands
<1> DEFINE w == Times(a, Second)
           x == Second * v
<1>3. x \in Nat /\ x < Modulus /\ Stands(w, x)
  BY <1>1, <1>2
<1> HIDE DEF w, x
<1>4. PICK q \in Nat : x = Val(w) + Modulus * q
  BY <1>3 DEF Stands
<1>5. w \in Word /\ Val(w) \in Nat
  BY <1>3, ValType DEF Stands
<1>6. q = 0
  BY ONLY <1>3, <1>4, <1>5 DEF Modulus, Limb
<1>7. Val(w) = x
  BY ONLY <1>4, <1>5, <1>6 DEF Modulus, Limb
<1> QED
  BY <1>5, <1>7 DEF w, x

(* What the nanoseconds of a second and the bounds of a word share is left *)
(* out when they are compared: Second is 512 times 1953125, SignBit 512    *)
(* times Share.                                                            *)
Share == Limb * (Limb * (Limb * 64))

(* The bounds of a word in shares. *)
LEMMA Shares ==
  /\ Share = 18014398509481984
  /\ SignBit = 512 * Share /\ Modulus = 1024 * Share
<1>1. Limb \div 2 = 512 * 64 /\ Limb = 1024 * 64 /\ Limb \in Nat
  BY SMT DEF Limb
<1>2. Share = 18014398509481984
  BY SMT DEF Limb, Share
<1>3. Limb * (Limb * (Limb * (512 * 64))) = 512 * (Limb * (Limb * (Limb * 64)))
  BY ONLY <1>1, SMT
<1>4. Limb * (Limb * (Limb * (1024 * 64))) = 1024 * (Limb * (Limb * (Limb * 64)))
  BY ONLY <1>1, SMT
<1>5. SignBit = 512 * Share
  BY ONLY <1>1, <1>3, SMT DEF SignBit, Share
<1>6. Modulus = 1024 * Share
  BY ONLY <1>1, <1>4, SMT DEF Modulus, Share
<1> QED
  BY ONLY <1>2, <1>5, <1>6

(* Up to the forty-ninth retry the product stays below the sign bit, and   *)
(* that of the fiftieth reaches it.                                        *)
LEMMA ProductsFit ==
  /\ \A v \in Nat : v <= 7778742049 => Second * v < SignBit /\ Second * v < Modulus
  /\ \A v \in Nat : v = 12586269025 => SignBit <= Second * v /\ Second * v < Modulus
<1> DEFINE b == Share
<1>1. b = 18014398509481984
  BY Shares, SMT
<1>2. b \in Nat /\ SignBit = 512 * b /\ Modulus = 1024 * b
  BY Shares, <1>1, SMT
<1> HIDE DEF b
<1>3. ASSUME NEW v \in Nat
      PROVE  \E y \in Nat : y = 1953125 * v /\ Second * v = 512 * y
  BY SMT DEF Second
<1>4. ASSUME NEW v \in Nat, v <= 7778742049
      PROVE  Second * v < SignBit /\ Second * v < Modulus
  <2>1. PICK y \in Nat : y = 1953125 * v /\ Second * v = 512 * y
    BY <1>3
  <2>2. y < b
    BY ONLY <1>1, <1>4, <2>1, SMT
  <2>3. 512 * y < 512 * b /\ 512 * y < 1024 * b
    BY ONLY <1>2, <2>2, SMT
  <2> QED
    BY ONLY <1>2, <2>1, <2>3, SMT
<1>5. ASSUME NEW v \in Nat, v = 12586269025
      PROVE  SignBit <= Second * v /\ Second * v < Modulus
  <2>1. PICK y \in Nat : y = 1953125 * v /\ Second * v = 512 * y
    BY <1>3
  <2>2. b <= y /\ y < 2 * b
    BY ONLY <1>1, <1>5, <2>1, SMT
  <2>3. 512 * b <= 512 * y /\ 512 * y < 1024 * b
    BY ONLY <1>2, <2>2, SMT
  <2> QED
    BY ONLY <1>2, <2>1, <2>3, SMT
<1> QED
  BY ONLY <1>4, <1>5, SMT

(* The cap of ten seconds is a word without a sign. *)
LEMMA CapType ==
  LET cap == Times(Small(10), Second)
  IN cap \in Word /\ Val(cap) = Second * 10 /\ ~Negative(cap)
<1>1. Stands(Small(10), 10)
  BY SmallStands DEF Limb
<1>2. Second * 10 < SignBit /\ Second * 10 < Modulus
  BY ProductsFit, SMT
<1>3. Times(Small(10), Second) \in Word /\ Val(Times(Small(10), Second)) = Second * 10
  BY ONLY <1>1, <1>2, FittingProduct
<1>4. SignBit \in Nat /\ Second * 10 \in Nat
  BY SMT DEF Second, SignBit, Limb
<1> QED
  BY ONLY <1>2, <1>3, <1>4, SignIsHalf

(* The numbers of the retries, one by one and in three parts. *)
LEMMA RetryNumbers ==
  \A n \in Nat : n \in 1..(DelayOverflow - 1) =>
    \/ n = 1 \/ n = 2 \/ n = 3 \/ n = 4 \/ n = 5 \/ n = 6
    \/ 7 <= n /\ n <= 49
BY DEF DelayOverflow

(* Every retry up to the forty-ninth waits as the table says, and the      *)
(* fiftieth is the first whose wait is negative (getRetryInterval).        *)
THEOREM WaitsAreAsTabled == Spec => []IntervalReference
<1>1. ASSUME IndInv
      PROVE  IntervalReference
  <2> DEFINE v == Fibonacci[retryCount]
             cap == Times(Small(10), Second)
             delay == Times(fib[1], Second)
             table == <<1, 1, 2, 3, 5, 8>>
             seconds(n) == IF n \in DOMAIN table THEN table[n] ELSE 10
  <2>1. retryCount \in Nat /\ v \in Nat /\ Stands(fib[1], v)
    BY <1>1, FibonacciDef, MaxRetryAssumption DEF IndInv, TypeOK, FibonacciWords
  <2>2. Interval = IF Greater(delay, cap) THEN cap ELSE delay
    BY DEF Interval, getRetryInterval
  <2>3. cap \in Word /\ Val(cap) = Second * 10 /\ ~Negative(cap)
    BY CapType
  <2>4. Second \in Nat /\ SignBit \in Nat /\ Modulus = SignBit + SignBit
    BY <2>3, OrderOfSign DEF Second
  <2>5. ASSUME Second * v < Modulus
        PROVE  delay \in Word /\ Val(delay) = Second * v
    BY ONLY <2>1, <2>5, FittingProduct
  <2> HIDE DEF v, cap, delay
  <2>6. ASSUME v <= 7778742049
        PROVE  Interval = IF v > 10 THEN cap ELSE delay
    <3>1. Second * v < SignBit /\ Second * v < Modulus
      BY ONLY <2>1, <2>6, ProductsFit, SMT
    <3>2. Second * v \in Nat
      BY ONLY <2>1, <2>4, SMT
    <3>3. delay \in Word /\ Val(delay) = Second * v /\ ~Negative(delay)
      BY ONLY <2>4, <2>5, <3>1, <3>2, SignIsHalf
    <3>4. Greater(delay, cap) <=> Second * v > Second * 10
      BY ONLY <2>3, <3>3, GreaterOfSign
    <3>5. Second * v > Second * 10 <=> v > 10
      BY ONLY <2>1, SMT DEF Second
    <3> QED
      BY ONLY <2>2, <3>4, <3>5
  <2>7. ASSUME retryCount \in 1..(DelayOverflow - 1)
        PROVE  Interval = Times(Small(seconds(retryCount)), Second)
    <3>1. \/ retryCount = 1 \/ retryCount = 2 \/ retryCount = 3
          \/ retryCount = 4 \/ retryCount = 5 \/ retryCount = 6
          \/ 7 <= retryCount /\ retryCount <= 49
      BY ONLY <2>1, <2>7, RetryNumbers
    <3>2. ASSUME NEW n \in 0..8, v = n
          PROVE  Interval = Times(Small(n), Second)
      <4>1. Interval = delay
        BY ONLY <2>6, <3>2, n \in 0..8
      <4>2. Stands(Small(n), n)
        BY SmallStands DEF Limb
      <4>3. fib[1] = Small(n)
        BY <2>1, <3>2, <4>2, StandsUnique
      <4> QED
        BY ONLY <4>1, <4>3 DEF delay
    <3>3. CASE \/ retryCount = 1 \/ retryCount = 2 \/ retryCount = 3
               \/ retryCount = 4 \/ retryCount = 5 \/ retryCount = 6
      <4>1. v \in 0..8 /\ seconds(retryCount) = v
        BY <3>3, FibonacciTable, SMT DEF v
      <4>2. Interval = Times(Small(v), Second)
        BY ONLY <3>2, <4>1
      <4> QED
        BY ONLY <4>1, <4>2
    <3>4. CASE 7 <= retryCount /\ retryCount <= 49
      <4>1. 13 <= v /\ v <= 7778742049
        <5>1. Fibonacci[7] <= Fibonacci[retryCount] /\ Fibonacci[retryCount] <= Fibonacci[49]
          BY <2>1, <3>4, FibonacciGrows
        <5>2. Fibonacci[7] = 13 /\ Fibonacci[49] = 7778742049
          BY FibonacciTable
        <5> QED
          BY ONLY <5>1, <5>2 DEF v
      <4>2. Interval = cap
        BY ONLY <2>1, <2>6, <4>1
      <4>3. seconds(retryCount) = 10
        BY ONLY <3>4
      <4> QED
        BY ONLY <4>2, <4>3 DEF cap
    <3> QED
      BY <3>1, <3>3, <3>4
  <2>8. ASSUME retryCount = DelayOverflow
        PROVE  Negative(Interval)
    <3>1. v = 12586269025
      BY <2>8, FibonacciTable DEF v, DelayOverflow
    <3>2. SignBit <= Second * v /\ Second * v < Modulus
      BY ONLY <2>1, <3>1, ProductsFit, SMT
    <3>3. delay \in Word /\ Val(delay) = Second * v
      BY ONLY <2>5, <3>2
    <3>4. Negative(delay)
      BY ONLY <3>2, <3>3, SignIsHalf
    <3>5. ~Greater(delay, cap)
      BY ONLY <2>3, <3>3, <3>4, GreaterOfSign
    <3> QED
      BY ONLY <2>2, <3>4, <3>5
  <2> QED
    BY ONLY <2>7, <2>8 DEF IntervalReference
<1> QED
  BY <1>1, Invariant, PTL
=============================================================================
