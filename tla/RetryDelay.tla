----------------------------- MODULE RetryDelay -----------------------------
(***************************************************************************)
(* How long a failed task waits before its n-th retry: getRetryInterval of *)
(* the task registrar over utils.Fibonacci, in Go's 64-bit integers.  A    *)
(* time.Duration counts nanoseconds, so the product of a Fibonacci number  *)
(* with time.Second leaves the int64 range long before the number does.    *)
(* TLC's integers are narrower than 64 bits: a Go int is a word of four    *)
(* 16-bit limbs, the least significant first, in two's complement.         *)
(***************************************************************************)
EXTENDS Naturals

CONSTANT MaxRetry       \* bound of the model: the largest retry number examined
ASSUME MaxRetryAssumption == MaxRetry \in Nat

VARIABLES retryCount,   \* the argument of getRetryInterval
          fib           \* <<Fibonacci(retryCount), Fibonacci(retryCount + 1)>>
vars == <<retryCount, fib>>

Limb == 65536
Word == [1..4 -> 0..(Limb - 1)]
Small(n) == <<n, 0, 0, 0>>      \* n < Limb

(* Mutant of Plus: limbs that do not wrap. *)
PlusUnbounded(a, b) == <<a[1] + b[1], a[2] + b[2], a[3] + b[3], a[4] + b[4]>>

(* int64 addition: the carry out of the last limb is lost. *)
Plus(a, b) ==
  LET s1 == a[1] + b[1]
      s2 == a[2] + b[2] + s1 \div Limb
      s3 == a[3] + b[3] + s2 \div Limb
      s4 == a[4] + b[4] + s3 \div Limb
  IN <<s1 % Limb, s2 % Limb, s3 % Limb, s4 % Limb>>

(* int64 multiplication by a constant, by doubling. *)
Times(a, k) ==
  LET product[n \in Nat] ==
        IF n = 0 THEN Small(0)
        ELSE LET half == product[n \div 2]
                 even == Plus(half, half)
             IN IF n % 2 = 1 THEN Plus(even, a) ELSE even
  IN product[k]

Negative(a) == a[4] >= Limb \div 2

(* Signed comparison: flipping the sign bit orders two's complement words. *)
Greater(a, b) ==
  LET key(w) == [w EXCEPT ![4] = (@ + Limb \div 2) % Limb]
  IN \E i \in 1..4 : /\ key(a)[i] > key(b)[i]
                     /\ \A j \in (i + 1)..4 : key(a)[j] = key(b)[j]

Second == 1000000000    \* time.Second in nanoseconds

(* Mutant of NextFibonacci: the sum overwrites a term before it is kept. *)
NextFibonacciDoubling(pair) == <<pair[2], Plus(pair[2], pair[2])>>

(* utils.Fibonacci recomputes both predecessors; its values are the first  *)
(* component of a pair that moves on by one addition.                      *)
NextFibonacci(pair) == <<pair[2], Plus(pair[1], pair[2])>>

getRetryInterval(f) ==
  LET delay    == Times(f, Second)
      maxDelay == Times(Small(10), Second)
  IN IF Greater(delay, maxDelay) THEN maxDelay ELSE delay

Init == retryCount = 0 /\ fib = <<Small(0), Small(1)>>

NextRetry ==
  /\ retryCount < MaxRetry
  /\ retryCount' = retryCount + 1
  /\ fib' = NextFibonacci(fib)

Next == NextRetry
Spec == Init /\ [][Next]_vars

-----------------------------------------------------------------------------
TypeOK == retryCount \in 0..MaxRetry /\ fib \in Word \X Word

Interval == getRetryInterval(fib[1])

(* The first retry whose interval is not positive: from here retryTask no  *)
(* longer delays a retry.  TaskRegistrar takes it as a constant.           *)
DelayOverflow == 50

(* The waits before the overflow, written out: 1, 1, 2, 3, 5, 8 seconds    *)
(* and the cap of 10 seconds for every later retry, all positive, and the  *)
(* retry numbered DelayOverflow is the first to have a negative one        *)
(* (getRetryInterval, task.go:287).                                        *)
IntervalReference ==
  LET table == <<1, 1, 2, 3, 5, 8>>
      seconds(n) == IF n \in DOMAIN table THEN table[n] ELSE 10
  IN /\ retryCount \in 1..(DelayOverflow - 1)
          => Interval = Times(Small(seconds(retryCount)), Second)
     /\ retryCount = DelayOverflow => Negative(Interval)
=============================================================================
